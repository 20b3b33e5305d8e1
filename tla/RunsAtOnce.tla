----------------------------- MODULE RunsAtOnce -----------------------------
(***************************************************************************)
(* How many runs go at once: the owner's N as the ledger holds it, the     *)
(* claims made under it, and the recommendation the concurrency rule draws *)
(* from the runs that settle.                                              *)
(***************************************************************************)
EXTENDS Integers, FiniteSets

CONSTANTS Runs,           \* run ids
          MaxRunsAtOnce,  \* N's upper bound
          PlatformCap,    \* the configured platform cap
          StableRuns,     \* Tuning: stable observations that raise N
          Medians,        \* the median durations observed, in one unit
          MaxTime,        \* bound: the clock
          MaxAdopt        \* bound: how often the owner's N changes

ASSUME RunsAtOnceAssumption ==
  /\ IsFiniteSet(Runs)
  /\ MaxRunsAtOnce \in Nat \ {0} /\ PlatformCap \in Nat \ {0} /\ StableRuns \in Nat \ {0}
  /\ Medians \subseteq Nat /\ MaxTime \in Nat \ {0} /\ MaxAdopt \in Nat

VARIABLES n,             \* the ledger's N, 0 before the first poll
          rec,           \* the ledger's recommendation: its N, stable runs, basis
          changedAfter,  \* the latest claim under the N before this one
          claims,        \* each run's claim: when, and as which of how many
          now,           \* the clock
          epoch,         \* history: how often N has changed
          evidence       \* history: what the last run said of this N, and the stable ones in a row

vars == <<n, rec, changedAfter, claims, now, epoch, evidence>>

Bases == {"none", "steady", "rise", "slow", "rate-limited"}
Signs == {"none", "stable", "between", "slow", "rate-limited"}

NoAdvice == [n |-> 0, stable |-> 0, basis |-> "none"]
NoClaim  == [at |-> 0, concurrency |-> 0, epoch |-> 0]
Claimed(r) == claims[r] # NoClaim
InFlight == {r \in Runs : Claimed(r)}

RunsAtOnceMax == IF MaxRunsAtOnce < PlatformCap THEN MaxRunsAtOnce ELSE PlatformCap

(* concurrency: the N admission and the rule read. *)
N == IF n < 1 THEN 1 ELSE n

-----------------------------------------------------------------------------
(* The rule *)

(* What an observation says.  RiseWithin is 5/4 and HalveBeyond 3/2. *)
Sign(obs) ==
  IF obs.limited THEN "rate-limited"
  ELSE IF obs.solo = 0 \/ obs.loaded = 0 THEN "none"
  ELSE IF 2 * obs.loaded > 3 * obs.solo THEN "slow"
  ELSE IF 4 * obs.loaded <= 5 * obs.solo THEN "stable"
  ELSE "between"

(* A number held to a bound; the variant forgets the bound. *)
Unheld(j, k) == j
Least(j, k)  == IF j < k THEN j ELSE k
Halved(k)   == IF k \div 2 < 1 THEN 1 ELSE k \div 2

(* The count of stable runs after one that was neither stable nor slow;    *)
(* the variant goes on counting.                                           *)
CountedOn(stable) == stable
Restart(stable)   == 0

NextConcurrency(k, stable, sign) ==
  LET held == Least(k, RunsAtOnceMax)
  IN CASE sign \in {"rate-limited", "slow"} -> [n |-> Halved(held), stable |-> 0]
       [] sign = "none" -> [n |-> held, stable |-> stable]
       [] sign = "stable" /\ stable + 1 >= StableRuns ->
            [n |-> Least(held + 1, RunsAtOnceMax), stable |-> 0]
       [] sign = "stable" /\ stable + 1 < StableRuns -> [n |-> held, stable |-> stable + 1]
       [] sign = "between" -> [n |-> held, stable |-> Restart(stable)]

(* A rise keeps its count full. *)
Recommend(prev, k, sign) ==
  LET next == NextConcurrency(k, prev.stable, sign)
  IN IF sign = "none" THEN prev
     ELSE CASE next.n < k -> [n |-> next.n, stable |-> 0,
                              basis |-> IF sign = "rate-limited" THEN sign ELSE "slow"]
            [] next.n > k -> [n |-> next.n, stable |-> StableRuns, basis |-> "rise"]
            [] next.n = k -> [n |-> k, stable |-> next.stable, basis |-> "steady"]

-----------------------------------------------------------------------------
Init ==
  /\ n = 0 /\ rec = NoAdvice /\ changedAfter = 0
  /\ claims = [r \in Runs |-> NoClaim]
  /\ now = 1 /\ epoch = 0
  /\ evidence = [sign |-> "none", streak |-> 0]

(* The latest claim in flight, or after where none is later. *)
LatestClaim(after) ==
  LET times == {after} \cup {claims[r].at : r \in InFlight}
  IN CHOOSE t \in times : \A s \in times : s <= t

(* What a change of N writes beside it; the variant keeps the count. *)
KeptAdvice == [NoAdvice EXCEPT !.stable = rec.stable]
Restarted  == NoAdvice

(* The marker a change of N leaves; the variant keeps the earlier one. *)
KeptMarker == changedAfter
Marker     == LatestClaim(changedAfter)

(* A poll adopts the owner's N, held to the bounds, before it claims. *)
AdoptRunsAtOnce(k) ==
  /\ k # n /\ epoch < MaxAdopt
  /\ n' = k
  /\ rec' = Restarted
  /\ changedAfter' = Marker
  /\ epoch' = epoch + 1
  /\ evidence' = [sign |-> "none", streak |-> 0]
  /\ UNCHANGED <<claims, now>>

(* A claim is stamped with the time its poll read, in any order of polls,  *)
(* and writes the ledger whole, the N it was made under included.          *)
TryClaim(r) ==
  /\ ~Claimed(r)
  /\ Cardinality(InFlight) < PlatformCap /\ Cardinality(InFlight) < N
  /\ \E at \in 1..now :
       claims' = [claims EXCEPT ![r] =
                    [at |-> at, concurrency |-> Cardinality(InFlight) + 1, epoch |-> epoch]]
  /\ n' = N
  /\ UNCHANGED <<rec, changedAfter, now, epoch, evidence>>

(* A plan settles, a claim is released or the sweep drops it: the rule is  *)
(* not asked.                                                              *)
Drop(r) ==
  /\ Claimed(r)
  /\ claims' = [claims EXCEPT ![r] = NoClaim]
  /\ UNCHANGED <<n, rec, changedAfter, now, epoch, evidence>>

(* What a settled run says: nothing when it was claimed below N or before  *)
(* N last moved; a rate limit; or, of a run that succeeded, the medians,    *)
(* of which one alone is both at N = 1.                                     *)
Nothing == [solo |-> 0, loaded |-> 0, limited |-> FALSE]
Observations(r) ==
  IF claims[r].concurrency < N \/ claims[r].at <= changedAfter THEN {Nothing}
  ELSE {Nothing, [Nothing EXCEPT !.limited = TRUE]}
       \cup {obs \in [solo: Medians, loaded: Medians, limited: {FALSE}] :
               N = 1 => obs.loaded = obs.solo}

(* The history: what the run said, and how many stable ones in a row. *)
Told(sign) ==
  IF sign = "none" THEN evidence
  ELSE [sign   |-> sign,
        streak |-> IF sign # "stable" THEN 0
                   ELSE IF evidence.streak < StableRuns THEN evidence.streak + 1 ELSE StableRuns]

Settle(r) ==
  /\ Claimed(r)
  /\ \E obs \in Observations(r) :
       /\ rec' = Recommend(rec, N, Sign(obs))
       /\ evidence' = Told(Sign(obs))
  /\ claims' = [claims EXCEPT ![r] = NoClaim]
  /\ UNCHANGED <<n, changedAfter, now, epoch>>

Tick ==
  /\ now < MaxTime
  /\ now' = now + 1
  /\ UNCHANGED <<n, rec, changedAfter, claims, epoch, evidence>>

Next ==
  \/ \E k \in 1..RunsAtOnceMax : AdoptRunsAtOnce(k)
  \/ \E r \in Runs : TryClaim(r) \/ Drop(r) \/ Settle(r)
  \/ Tick

Spec == Init /\ [][Next]_vars

-----------------------------------------------------------------------------
(* The ledger's numbers keep their ranges: N and the recommendation never   *)
(* leave the bounds the owner and the platform set.                         *)
TypeOK ==
  /\ n \in 0..RunsAtOnceMax
  /\ rec \in [n: 0..RunsAtOnceMax, stable: 0..StableRuns, basis: Bases]
  /\ changedAfter \in 0..MaxTime
  /\ claims \in [Runs -> [at: 0..MaxTime, concurrency: Nat, epoch: 0..MaxAdopt]]
  /\ now \in 1..MaxTime
  /\ epoch \in 0..MaxAdopt
  /\ evidence \in [sign: Signs, streak: 0..StableRuns]

(* The recommendation says what the runs at this N said: one more only      *)
(* after StableRuns stable ones in a row since N was set, half only after a *)
(* slow or refused one, and never a count the runs did not earn             *)
(* (NextConcurrency, Recommend, AdoptRunsAtOnce).                           *)
AdviceMatchesEvidence ==
  /\ rec.basis = "rise" => rec.n = N + 1 /\ evidence.sign = "stable" /\ evidence.streak >= StableRuns
  /\ rec.basis = "slow" => rec.n = Halved(N) /\ evidence.sign = "slow"
  /\ rec.basis = "rate-limited" => rec.n = Halved(N) /\ evidence.sign = "rate-limited"
  /\ rec.basis = "steady" => rec.n = N /\ evidence.sign # "none"
  /\ rec.basis = "none" => evidence.sign = "none"
  /\ rec.stable <= evidence.streak

(* A run claimed under an earlier N settles without moving the              *)
(* recommendation, whatever order the polls read their clocks in            *)
(* (observe, changed_after).                                                *)
OldClaimsSayNothing ==
  [][\A r \in Runs : Settle(r) /\ claims[r].epoch # epoch => rec' = rec]_vars

(* What keeps that true. *)
OldClaimsAreMarked ==
  \A r \in Runs : Claimed(r) /\ claims[r].epoch # epoch => claims[r].at <= changedAfter
=============================================================================
