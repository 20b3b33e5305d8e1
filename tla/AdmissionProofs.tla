--------------------------- MODULE AdmissionProofs ---------------------------
(***************************************************************************)
(* Theorems about Admission, for any runs, polls, plans and ceilings: what *)
(* a run has settled for is what its attempts cost; a claim passes one of  *)
(* its ceilings only by what settled after its poll read the history;      *)
(* where polls follow one another two builds under way never write the     *)
(* same file; no claim passes a cap; and the claims are a pool of slots.   *)
(***************************************************************************)
EXTENDS Admission, Aggregates, Shapes, FiniteSetTheorems, TLAPS

-----------------------------------------------------------------------------
(* The invariants *)

(* The rows, the ledger and the polls have the fields Init gives them. *)
RowFields == {"state", "size", "labels", "plan", "files", "ended", "retried", "attempt", "settledAt",
              "cost", "minutes", "billed", "planAt", "planCost", "planMinutes", "priorCost", "priorMinutes"}
PollFields == {"pc", "unchecked", "world", "cands", "estimates", "history"}
TablesShaped ==
  /\ Shaped(rows, Runs) /\ Shaped(ledger, Runs) /\ Shaped(paid, Runs) /\ Shaped(polls, Pollers)
  /\ \A r \in Runs : Shaped(rows[r], RowFields)
  /\ \A k \in Pollers : Shaped(polls[k], PollFields) /\ Shaped(polls[k].cands, Runs)
(* The estimates a poll has asked for are costs, and minutes. *)
EstimatesPaid(e) == \A x \in DOMAIN e : e[x].cost \in Nat /\ e[x].minutes \in Nat
PollsPaid == \A k \in Pollers : EstimatesPaid(polls[k].estimates)

(* What one row says of its spend: a run that has not ended has cost what  *)
(* it carries, and a ticket nobody has admitted nothing.                   *)
RowPaid(row, cost) ==
  /\ row.cost \in Nat /\ row.priorCost \in Nat /\ row.planCost \in Nat /\ cost \in Nat
  /\ row.settledAt = NoTime \/ row.settledAt \in Nat
  /\ row.ended \in BOOLEAN
  /\ row.ended => row.state \in {"claimed", "stopped"}
  /\ ~row.ended => cost = row.priorCost
  /\ (row.ended /\ row.state = "claimed") => row.cost = cost
  /\ row.state = "absent" => cost = 0
  /\ row.minutes \in Nat /\ row.billed \in Nat /\ row.planMinutes \in Nat /\ row.priorMinutes \in Nat
SameMinutes(new, old) ==
  new.minutes = old.minutes /\ new.billed = old.billed /\ new.planMinutes = old.planMinutes /\ new.priorMinutes = old.priorMinutes
(* What is booked is a claim. *)
BookedIsClaimed == \A r \in Runs : ledger[r].stage # "none" => rows[r].state = "claimed"
(* What a reservation holds: nothing when it is given back. *)
EntryPaid(entry) == /\ entry.cost \in Nat /\ entry.minutes \in Nat
                    /\ entry.stage = "none" => entry.cost = 0 /\ entry.minutes = 0
SpendIInv == /\ TablesShaped /\ PollsPaid /\ BookedIsClaimed
             /\ \A r \in Runs : RowPaid(rows[r], paid[r]) /\ EntryPaid(ledger[r])

(* What is booked to write is what the row holds, and what a poll has      *)
(* listed still waits, with the files it was listed with.                  *)
BookedAsHeld == \A r \in Runs : ledger[r].stage \notin {"none", "plan"} => ledger[r].files = rows[r].files
ListedAsHeld ==
  \A k \in Pollers, r \in Runs :
    Listed(k, r) => rows[r].state \in CandidateStates /\ polls[k].cands[r].files = rows[r].files
WriteIInv == BookedAsHeld /\ ListedAsHeld /\ WriteSetsDisjoint

-----------------------------------------------------------------------------
(* What each step does *)

(* A poll's walk only strikes a run off its list, or ends the poll. *)
LEMMA NewPollShaped ==
  /\ Shaped(NewPoll, PollFields) /\ Shaped(NewPoll.cands, Runs)
  /\ NewPoll.pc = "admit" /\ EstimatesPaid(NewPoll.estimates)
<1>1. Shaped(NewPoll, PollFields) /\ Shaped(NewPoll.cands, Runs) /\ NewPoll.pc = "admit"
  BY DEF NewPoll, Shaped, PollFields
<1>2. NewPoll.estimates = <<>> /\ DOMAIN <<>> = {}
  BY DEF NewPoll
<1> QED BY <1>1, <1>2 DEF EstimatesPaid

LEMMA WalkedPoll ==
  ASSUME SpendIInv, NEW k \in Pollers, NEW r \in Runs, NEW e, NEW h, polls' = Walked(k, r, e, h)
  PROVE  /\ Shaped(polls', Pollers)
         /\ \A q \in Pollers : Shaped(polls'[q], PollFields) /\ Shaped(polls'[q].cands, Runs)
         /\ EstimatesPaid(e) => PollsPaid'
         /\ \A q \in Pollers, x \in Runs :
              Listed(q, x)' => /\ Listed(q, x) /\ polls'[q].cands[x] = polls[q].cands[x]
                               /\ q = k => x # r
<1> DEFINE left == [polls[k].cands EXCEPT ![r] = NotListed]
           walk == [polls[k] EXCEPT !.cands = left, !.estimates = e, !.history = h]
<1> HIDE DEF left, walk
<1>1. /\ Shaped(polls, Pollers)
      /\ \A q \in Pollers : Shaped(polls[q], PollFields) /\ Shaped(polls[q].cands, Runs)
  BY DEF SpendIInv, TablesShaped
<1>2. Shaped(left, Runs) /\ left[r] = NotListed /\ \A x \in Runs \ {r} : left[x] = polls[k].cands[x]
  BY <1>1 DEF left, Shaped
<1>3. Shaped(walk, PollFields) /\ walk.cands = left /\ walk.pc = polls[k].pc /\ walk.estimates = e
  BY <1>1 DEF walk, Shaped, PollFields
<1>4. PICK poll : /\ polls' = [polls EXCEPT ![k] = poll]
                  /\ poll = NewPoll \/ poll = walk
  BY DEF Walked, left, walk
<1>5. polls'[k] = poll /\ \A q \in Pollers \ {k} : polls'[q] = polls[q]
  BY <1>1, <1>4 DEF Shaped
<1>6. Shaped(polls', Pollers)
  BY <1>1, <1>4 DEF Shaped
<1>7. Shaped(poll, PollFields) /\ Shaped(poll.cands, Runs)
  BY <1>2, <1>3, <1>4, NewPollShaped
<1>8. ASSUME NEW q \in Pollers, NEW x \in Runs, Listed(q, x)'
      PROVE  Listed(q, x) /\ polls'[q].cands[x] = polls[q].cands[x] /\ (q = k => x # r)
  <2>1. polls'[q].pc = "walk" /\ polls'[q].cands[x] # NotListed
    BY <1>8 DEF Listed
  <2>2. CASE q # k
    BY <2>1, <2>2, <1>5 DEF Listed
  <2>3. CASE q = k
    BY <2>1, <2>3, <1>5, <1>4, <1>3, <1>2, NewPollShaped DEF Listed
  <2> QED BY <2>2, <2>3
<1>9. EstimatesPaid(e) => PollsPaid'
  BY <1>3, <1>4, <1>5, NewPollShaped DEF SpendIInv, PollsPaid
<1> QED BY <1>1, <1>5, <1>6, <1>7, <1>8, <1>9

(* A run is claimed only when no build under way in its repository writes  *)
(* a file it writes: the overlap condition of Admit.                       *)
LEMMA HeldClear ==
  ASSUME NEW r, NEW c, NEW model, NEW w, HeldBeforeBudget(r, c, model, w) = "none"
  PROVE  \A x \in Booked : Repo[x] = Repo[r] => ~writeSetsOverlap(ledger[x], c)
BY DEF HeldBeforeBudget

(* Estimates are costs: a mean of settled costs, or nothing. *)
LEMMA FirstSettledIsARun ==
  ASSUME SpendIInv
  PROVE  firstSettled \subseteq Runs
<1> DEFINE all == {r \in Runs : rows[r].settledAt # NoTime}
           times == {rows[r].settledAt : r \in all}
<1>1. times \in SUBSET Nat
  BY DEF SpendIInv, RowPaid
<1>2. CASE all = {}
  BY <1>2 DEF firstSettled
<1>3. ASSUME all # {} PROVE firstSettled \subseteq Runs
  <2>1. times # {}
    BY <1>3
  <2>2. PICK t \in times : \A u \in times : t <= u
    <3> HIDE DEF times
    <3> QED BY <1>1, <2>1, LeastNat
  <2>3. \E r \in all : \A x \in all : rows[r].settledAt <= rows[x].settledAt
    BY <2>2
  <2> QED BY <1>3, <2>3 DEF firstSettled
<1> QED BY <1>2, <1>3

LEMMA MeanPaid ==
  ASSUME NEW recs, recs \subseteq Runs, NEW f, DOMAIN f = recs, \A r \in recs : f[r] \in Nat
  PROVE  /\ Cardinality(recs) \in Nat
         /\ Cardinality(recs) # 0 => SumFunction(f) \div Cardinality(recs) \in Nat
<1>1. IsFiniteSet(recs) /\ Cardinality(recs) \in Nat
  BY AdmissionAssumption, FS_Subset, FS_CardinalityType
<1>2. SumFunctionOnSet(f, recs) \in Nat
  BY <1>1, SumType
<1>3. SumFunction(f) \in Nat
  BY <1>2 DEF SumFunction
<1>4. PICK n \in Nat, m \in Nat : n = Cardinality(recs) /\ m = SumFunction(f)
  BY <1>1, <1>3
<1>5. n # 0 => m \div n \in Nat
  OBVIOUS
<1> QED BY <1>4, <1>5

LEMMA EstimatePaid ==
  ASSUME SpendIInv, NEW size
  PROVE  Estimate(size).cost \in Nat /\ Estimate(size).minutes \in Nat
<1> DEFINE recs == IF settledBySize(size) # {} THEN settledBySize(size) ELSE firstSettled
           f == [r \in recs |-> rows[r].cost]
           g == [r \in recs |-> rows[r].billed]
<1>1. recs \subseteq Runs
  BY FirstSettledIsARun DEF settledBySize
<1>2. \A r \in recs : f[r] \in Nat /\ g[r] \in Nat
  BY <1>1 DEF SpendIInv, RowPaid
<1>3. DOMAIN f = recs /\ DOMAIN g = recs
  OBVIOUS
<1>4. Estimate(size) = IF Cardinality(recs) = 0 THEN [cost |-> 0, minutes |-> 0]
                       ELSE [cost |-> SumFunction(f) \div Cardinality(recs),
                             minutes |-> SumFunction(g) \div Cardinality(recs)]
  BY DEF Estimate
<1> HIDE DEF f, g, recs
<1>5. Cardinality(recs) # 0 => /\ SumFunction(f) \div Cardinality(recs) \in Nat
                               /\ SumFunction(g) \div Cardinality(recs) \in Nat
  BY <1>1, <1>2, <1>3, MeanPaid
<1> QED BY <1>4, <1>5

LEMMA EstimatesArePaid ==
  ASSUME SpendIInv, NEW k \in Pollers, NEW size, NEW stage, NEW e \in estimatesOf(k, size, stage)
  PROVE  /\ EstimatesPaid(e)
         /\ estimateFor(e, size, stage).cost \in Nat /\ estimateFor(e, size, stage).minutes \in Nat
<1> DEFINE run == <<"run", size>>
           plan == <<"plan", size>>
           known == polls[k].estimates
           keys == DOMAIN known \cup {run} \cup (IF stage = "plan" THEN {plan} ELSE {})
<1>1. PICK x \in PlanEstimates :
        e = [j \in keys |-> IF j \in DOMAIN known THEN known[j] ELSE IF j = run THEN Estimate(size) ELSE x]
  BY DEF estimatesOf, EstimatePlan
<1>2. /\ x.cost \in Nat /\ Estimate(size).cost \in Nat /\ x.minutes \in Nat /\ Estimate(size).minutes \in Nat
      /\ \A j \in DOMAIN known : known[j].cost \in Nat /\ known[j].minutes \in Nat
  BY AdmissionAssumption, EstimatePaid DEF SpendIInv, PollsPaid, EstimatesPaid
<1> HIDE DEF known
<1>3. \A j \in keys : e[j].cost \in Nat /\ e[j].minutes \in Nat
  BY <1>1, <1>2
<1>4. EstimatesPaid(e)
  BY <1>1, <1>3 DEF EstimatesPaid
<1>5. estimateFor(e, size, stage) = e[IF stage = "plan" THEN plan ELSE run]
  BY DEF estimateFor
<1> QED BY <1>3, <1>4, <1>5

LEMMA ReservationPaid ==
  ASSUME NEW r, NEW t, NEW est, est.cost \in Nat, est.minutes \in Nat
  PROVE  reservation(r, t, est).cost \in Nat /\ reservation(r, t, est).minutes \in Nat
BY DEF reservation

(* TryClaim, for the reader of its proof: the run is struck off the list,  *)
(* and claimed as listed only when nothing holds it.                       *)
Claimed(k, r) ==
  /\ rows[r].state \in CandidateStates
  /\ \E stage, cost, minutes, model, plan :
       /\ cost \in Nat /\ minutes \in Nat /\ stage # "none"
       /\ HeldBeforeBudget(r, [stage |-> stage, size |-> rows[r].size, files |-> rows[r].files],
                           model, polls[k].world) = "none"
       /\ ledger' = [ledger EXCEPT ![r] = [stage |-> stage, cost |-> cost, minutes |-> minutes,
                                           size |-> rows[r].size, files |-> polls[k].cands[r].files]]
       /\ rows' = [rows EXCEPT ![r] = [rows[r] EXCEPT !.state = "claimed", !.plan = plan]]

LEMMA ClaimedOf ==
  ASSUME NEW k, NEW r, rows[r].state \in CandidateStates, NEW stage, NEW cost \in Nat, NEW minutes \in Nat,
         NEW model, NEW plan, stage # "none",
         HeldBeforeBudget(r, [stage |-> stage, size |-> rows[r].size, files |-> rows[r].files],
                          model, polls[k].world) = "none",
         ledger' = [ledger EXCEPT ![r] = [stage |-> stage, cost |-> cost, minutes |-> minutes,
                                          size |-> rows[r].size, files |-> polls[k].cands[r].files]],
         rows' = [rows EXCEPT ![r] = [rows[r] EXCEPT !.state = "claimed", !.plan = plan]]
  PROVE  Claimed(k, r)
BY Zenon DEF Claimed

LEMMA TryClaimDoes ==
  ASSUME SpendIInv, NEW k \in Pollers, NEW r \in Runs, TryClaim(k, r)
  PROVE  /\ Listed(k, r) /\ paid' = paid
         /\ \E e, h : EstimatesPaid(e) /\ polls' = Walked(k, r, e, h)
         /\ UNCHANGED <<rows, ledger>> \/ Claimed(k, r)
<1> DEFINE c     == polls[k].cands[r]
           stage == claimStage(c)
           t     == tierOf(c, stage)
           model == t.model
           held  == HeldBeforeBudget(r, [stage |-> stage, size |-> rows[r].size, files |-> rows[r].files],
                                     t.model, polls[k].world)
           h     == settledFor(k)
           est(e) == reservation(r, t, estimateFor(e, c.size, stage))
<1>1. Listed(k, r) /\ paid' = paid
  BY DEF TryClaim
<1>2. PICK e \in estimatesOf(k, c.size, stage) :
        LET why == Decide(t.budget, t.model, Sums(h.rows, t.budget, t.model, now), est(e))
        IN \/ /\ rows[r].state \notin CandidateStates \/ held # "none"
              /\ polls' = Walked(k, r, e, polls[k].history)
              /\ UNCHANGED <<rows, ledger>>
           \/ /\ rows[r].state \in CandidateStates /\ held = "none" /\ why # "fits"
              /\ polls' = Walked(k, r, e, h)
              /\ UNCHANGED <<rows, ledger>>
           \/ /\ rows[r].state \in CandidateStates /\ held = "none" /\ why = "fits"
              /\ polls' = Walked(k, r, e, h)
              /\ ledger' = [ledger EXCEPT ![r] = [stage |-> stage, cost |-> est(e).cost,
                   minutes |-> est(e).minutes, size |-> rows[r].size, files |-> c.files]]
              /\ rows' = [rows EXCEPT ![r] = [rows[r] EXCEPT !.state = "claimed",
                   !.plan = IF stage = "build" THEN rows[r].plan ELSE PlanOf[t.model]]]
  BY Zenon DEF TryClaim
<1>3. PICK cost, minutes, plan :
        cost = est(e).cost /\ minutes = est(e).minutes
          /\ plan = (IF stage = "build" THEN rows[r].plan ELSE PlanOf[t.model])
  OBVIOUS
<1>6. EstimatesPaid(e) /\ cost \in Nat /\ minutes \in Nat
  BY <1>2, <1>3, EstimatesArePaid, ReservationPaid
<1>7. stage # "none"
  BY DEF claimStage
<1> HIDE DEF h, est, held, model, stage, t, c
<1>4. \E f, g : EstimatesPaid(f) /\ polls' = Walked(k, r, f, g)
  BY <1>2, <1>6
<1>5. UNCHANGED <<rows, ledger>> \/ Claimed(k, r)
  <2>1. \/ UNCHANGED <<rows, ledger>>
        \/ /\ rows[r].state \in CandidateStates /\ held = "none"
           /\ ledger' = [ledger EXCEPT ![r] = [stage |-> stage, cost |-> cost,
                   minutes |-> minutes, size |-> rows[r].size, files |-> c.files]]
           /\ rows' = [rows EXCEPT ![r] = [rows[r] EXCEPT !.state = "claimed", !.plan = plan]]
    BY <1>2, <1>3
  <2>2. held = HeldBeforeBudget(r, [stage |-> stage, size |-> rows[r].size, files |-> rows[r].files],
                                model, polls[k].world)
    BY Zenon DEF held, model
  <2>3. c = polls[k].cands[r]
    BY DEF c
  <2>4. ASSUME rows[r].state \in CandidateStates, held = "none",
               ledger' = [ledger EXCEPT ![r] = [stage |-> stage, cost |-> cost,
                   minutes |-> minutes, size |-> rows[r].size, files |-> c.files]],
               rows' = [rows EXCEPT ![r] = [rows[r] EXCEPT !.state = "claimed", !.plan = plan]]
        PROVE  Claimed(k, r)
    BY <2>2, <2>3, <2>4, <1>6, <1>7, ClaimedOf, Zenon
  <2> QED BY <2>1, <2>4
<1> QED BY <1>1, <1>4, <1>5

(* What a step that concerns one run r does to the tables: its row, its    *)
(* entry and what it has cost.  An entry that is not given back keeps the  *)
(* files its row still holds.                                              *)
PollsShaped ==
  /\ Shaped(polls, Pollers) /\ PollsPaid
  /\ \A k \in Pollers : Shaped(polls[k], PollFields) /\ Shaped(polls[k].cands, Runs)
OnRow(r, row, entry, cost) ==
  /\ rows' = [rows EXCEPT ![r] = row]
  /\ ledger' = [ledger EXCEPT ![r] = entry]
  /\ paid' = [paid EXCEPT ![r] = cost]
  /\ Shaped(row, RowFields) /\ RowPaid(row, cost)
  /\ EntryPaid(entry) /\ (entry.stage # "none" => row.state = "claimed")
GivesBack(r, row, entry) ==
  \/ entry = NoEntry
  \/ entry = ledger[r] /\ (entry.stage # "none" => row.files = rows[r].files)
Effect(r) == \E row, entry, cost : OnRow(r, row, entry, cost) /\ GivesBack(r, row, entry)

LEMMA OnRowKeepsSpend ==
  ASSUME SpendIInv, NEW r \in Runs, NEW row, NEW entry, NEW cost, OnRow(r, row, entry, cost), PollsShaped'
  PROVE  SpendIInv'
<1>1. /\ Shaped(rows, Runs) /\ Shaped(ledger, Runs) /\ Shaped(paid, Runs)
      /\ \A x \in Runs : Shaped(rows[x], RowFields) /\ RowPaid(rows[x], paid[x]) /\ EntryPaid(ledger[x])
      /\ BookedIsClaimed
  BY DEF SpendIInv, TablesShaped
<1>2. Shaped(rows', Runs) /\ Shaped(ledger', Runs) /\ Shaped(paid', Runs)
  BY <1>1 DEF OnRow, Shaped
<1>3. \A x \in Runs : /\ rows'[x] = IF x = r THEN row ELSE rows[x]
                      /\ ledger'[x] = IF x = r THEN entry ELSE ledger[x]
                      /\ paid'[x] = IF x = r THEN cost ELSE paid[x]
  BY <1>1 DEF OnRow, Shaped
<1>4. \A x \in Runs : Shaped(rows'[x], RowFields) /\ RowPaid(rows'[x], paid'[x]) /\ EntryPaid(ledger'[x])
  BY <1>1, <1>3 DEF OnRow
<1>5. BookedIsClaimed'
  BY <1>1, <1>3 DEF OnRow, BookedIsClaimed
<1> QED BY <1>2, <1>4, <1>5 DEF SpendIInv, TablesShaped, PollsShaped

LEMMA EffectKeepsSpend ==
  ASSUME SpendIInv, NEW r \in Runs, Effect(r), PollsShaped'
  PROVE  SpendIInv'
BY OnRowKeepsSpend DEF Effect

LEMMA EffectKeepsWrites ==
  ASSUME SpendIInv, WriteIInv, NEW r \in Runs, Effect(r),
         \A k \in Pollers, x \in Runs :
           Listed(k, x)' => x # r /\ Listed(k, x) /\ polls'[k].cands[x] = polls[k].cands[x]
  PROVE  WriteIInv'
<1>0. PICK row, entry, cost : OnRow(r, row, entry, cost) /\ GivesBack(r, row, entry)
  BY DEF Effect
<1>1. \A x \in Runs : /\ rows'[x] = IF x = r THEN row ELSE rows[x]
                      /\ ledger'[x] = IF x = r THEN entry ELSE ledger[x]
  BY <1>0 DEF OnRow, Shaped, SpendIInv, TablesShaped
<1>2. \A x \in Runs : ledger'[x].stage \notin {"none", "plan"} =>
        ledger'[x] = ledger[x] /\ rows'[x].files = rows[x].files
  BY <1>0, <1>1 DEF GivesBack, NoEntry
<1>3. BookedAsHeld'
  BY <1>2 DEF WriteIInv, BookedAsHeld
<1>4. ListedAsHeld'
  BY <1>1 DEF WriteIInv, ListedAsHeld
<1>5. WriteSetsDisjoint'
  <2> SUFFICES ASSUME NEW x \in Runs, NEW y \in Runs, x # y, Repo[x] = Repo[y],
                      {ledger'[x].stage, ledger'[y].stage} \cap {"none", "plan"} = {}
               PROVE  rows'[x].files \cap rows'[y].files = {}
    BY DEF WriteSetsDisjoint
  <2>1. ledger'[x].stage \notin {"none", "plan"} /\ ledger'[y].stage \notin {"none", "plan"}
    OBVIOUS
  <2>2. /\ ledger'[x] = ledger[x] /\ rows'[x].files = rows[x].files
        /\ ledger'[y] = ledger[y] /\ rows'[y].files = rows[y].files
    BY <1>2, <2>1
  <2> QED BY <2>1, <2>2 DEF WriteIInv, WriteSetsDisjoint
<1> QED BY <1>3, <1>4, <1>5 DEF WriteIInv

LEMMA RowFacts ==
  ASSUME SpendIInv, NEW r \in Runs
  PROVE  /\ Shaped(rows, Runs) /\ Shaped(ledger, Runs) /\ Shaped(paid, Runs) /\ PollsShaped
         /\ Shaped(rows[r], RowFields) /\ RowPaid(rows[r], paid[r]) /\ EntryPaid(ledger[r]) /\ EntryPaid(NoEntry)
         /\ ledger[r].stage # "none" => rows[r].state = "claimed"
         /\ ledger = [ledger EXCEPT ![r] = ledger[r]]
         /\ rows = [rows EXCEPT ![r] = rows[r]]
         /\ paid = [paid EXCEPT ![r] = paid[r]]
BY DEF SpendIInv, TablesShaped, PollsShaped, BookedIsClaimed, Shaped, EntryPaid, NoEntry

LEMMA ShapedRow ==
  ASSUME SpendIInv, NEW r \in Runs
  PROVE  Shaped(rows[r], RowFields)
BY DEF SpendIInv, TablesShaped

LEMMA EffectOf ==
  ASSUME NEW r \in Runs, NEW row, NEW entry, NEW cost,
         OnRow(r, row, entry, cost), GivesBack(r, row, entry)
  PROVE  Effect(r)
BY DEF Effect

LEMMA EnqueueEffect ==
  ASSUME SpendIInv, NEW k \in Pollers, NEW r \in Runs, NEW issue, Enqueue(k, r, issue)
  PROVE  Effect(r) /\ polls' = polls
<1> DEFINE row == [NoRow EXCEPT !.state = "queued", !.size = issue.size, !.labels = issue.labels]
<1>1. /\ rows[r].state = "absent" /\ polls' = polls /\ ledger' = ledger /\ paid' = paid
      /\ rows' = [rows EXCEPT ![r] = row] \/ rows' = rows
  BY DEF Enqueue
<1>2. Shaped(row, RowFields) /\ row.files = {} /\ row.cost = 0 /\ row.priorCost = 0 /\ row.ended = FALSE
        /\ row.state = "queued" /\ row.planCost = 0 /\ row.settledAt = NoTime
        /\ row.minutes = 0 /\ row.billed = 0 /\ row.planMinutes = 0 /\ row.priorMinutes = 0
  BY DEF NoRow, Shaped, RowFields
<1> HIDE DEF row
<1>3. ledger[r].stage = "none"
  BY <1>1, RowFacts
<1>4. CASE rows' = [rows EXCEPT ![r] = row]
  <2>1. paid[r] = 0
    BY <1>1, RowFacts DEF RowPaid
  <2>3. RowPaid(row, 0)
    <3>1. 0 \in Nat /\ FALSE \in BOOLEAN
      OBVIOUS
    <3> QED BY <1>2, <3>1, Zenon DEF RowPaid
  <2>2. OnRow(r, row, ledger[r], paid[r])
    BY <1>1, <1>2, <1>3, <1>4, <2>1, <2>3, RowFacts DEF OnRow
  <2> QED BY <2>2, <1>1, <1>3, EffectOf DEF GivesBack
<1>5. CASE rows' = rows
  <2>1. OnRow(r, rows[r], ledger[r], paid[r])
    BY <1>1, <1>3, <1>5, RowFacts DEF OnRow
  <2> QED BY <2>1, <1>1, EffectOf DEF GivesBack
<1> QED BY <1>1, <1>4, <1>5

(* The size a queued ticket takes, and the models a retried run is checked *)
(* for again, change nothing of what the run has cost or writes; a refusal *)
(* ends it.                                                                *)
LEMMA RefreshQueuedEffect ==
  ASSUME SpendIInv, NEW k \in Pollers, NEW r \in Runs, NEW issue, RefreshQueuedTicket(k, r, issue)
  PROVE  Effect(r) /\ polls' = polls
<1> DEFINE row == [rows[r] EXCEPT !.size = issue.size]
<1>1. /\ rows[r].state = "queued" /\ polls' = polls /\ ledger' = ledger /\ paid' = paid
      /\ rows' = [rows EXCEPT ![r] = row]
  BY DEF RefreshQueuedTicket, takesSize
<1>2. /\ Shaped(row, RowFields)
      /\ row.files = rows[r].files /\ row.cost = rows[r].cost /\ row.priorCost = rows[r].priorCost
      /\ row.ended = rows[r].ended /\ row.state = rows[r].state
      /\ row.planCost = rows[r].planCost /\ row.settledAt = rows[r].settledAt /\ SameMinutes(row, rows[r])
  BY ShapedRow DEF Shaped, RowFields, SameMinutes
<1> HIDE DEF row
<1>3. ledger[r].stage = "none"
  BY <1>1, RowFacts
<1>4. OnRow(r, row, ledger[r], paid[r])
  BY <1>1, <1>2, <1>3, RowFacts DEF OnRow, RowPaid, SameMinutes
<1> QED BY <1>1, <1>3, <1>4, EffectOf DEF GivesBack

LEMMA RefreshRetriedEffect ==
  ASSUME SpendIInv, NEW k \in Pollers, NEW r \in Runs, NEW issue, RefreshRetried(k, r, issue)
  PROVE  /\ Effect(r)
         /\ \/ polls' = polls
            \/ polls' = [polls EXCEPT ![k] = [polls[k] EXCEPT !.unchecked = polls[k].unchecked \cup {r}]]
<1> DEFINE row   == [rows[r] EXCEPT !.size = refreshedSize(rows[r], issue)]
           taken == [row EXCEPT !.labels = issue.labels]
           ends  == [row EXCEPT !.state = "stopped", !.ended = TRUE]
<1>1. /\ rows[r].state \in CandidateStates /\ ledger' = ledger /\ paid' = paid
      /\ \E s \in {row, taken, ends} : rows' = [rows EXCEPT ![r] = s]
      /\ \/ polls' = polls
         \/ polls' = [polls EXCEPT ![k] = [polls[k] EXCEPT !.unchecked = polls[k].unchecked \cup {r}]]
  BY DEF RefreshRetried, RetryAwaitingClaim
<1>2. /\ Shaped(row, RowFields)
      /\ row.files = rows[r].files /\ row.cost = rows[r].cost /\ row.priorCost = rows[r].priorCost
      /\ row.ended = rows[r].ended /\ row.state = rows[r].state
      /\ row.planCost = rows[r].planCost /\ row.settledAt = rows[r].settledAt /\ SameMinutes(row, rows[r])
  BY ShapedRow DEF Shaped, RowFields, SameMinutes
<1> HIDE DEF row
<1>3. /\ Shaped(taken, RowFields)
      /\ taken.files = rows[r].files /\ taken.cost = rows[r].cost /\ taken.priorCost = rows[r].priorCost
      /\ taken.ended = rows[r].ended /\ taken.state = rows[r].state
      /\ taken.planCost = rows[r].planCost /\ taken.settledAt = rows[r].settledAt /\ SameMinutes(taken, rows[r])
  BY <1>2 DEF Shaped, RowFields, SameMinutes
<1>4. /\ Shaped(ends, RowFields)
      /\ ends.cost = rows[r].cost /\ ends.priorCost = rows[r].priorCost
      /\ ends.ended = TRUE /\ ends.state = "stopped"
      /\ ends.planCost = rows[r].planCost /\ ends.settledAt = rows[r].settledAt /\ SameMinutes(ends, rows[r])
  BY <1>2 DEF Shaped, RowFields, SameMinutes
<1> HIDE DEF taken, ends
<1>5. ledger[r].stage = "none"
  BY <1>1, RowFacts DEF CandidateStates
<1>6. PICK s \in {row, taken, ends} : rows' = [rows EXCEPT ![r] = s]
  BY <1>1
<1>7. RowPaid(s, paid[r]) /\ Shaped(s, RowFields)
  <2>1. RowPaid(row, paid[r]) /\ RowPaid(taken, paid[r])
    BY <1>2, <1>3, RowFacts DEF RowPaid, SameMinutes
  <2>2. RowPaid(ends, paid[r])
    BY <1>4, RowFacts DEF RowPaid, SameMinutes
  <2> QED BY <1>2, <1>3, <1>4, <2>1, <2>2, <1>6
<1>8. OnRow(r, s, ledger[r], paid[r])
  BY <1>1, <1>5, <1>6, <1>7, RowFacts DEF OnRow
<1> QED BY <1>1, <1>5, <1>8, EffectOf DEF GivesBack

LEMMA ReleaseEffect ==
  ASSUME SpendIInv, NEW r \in Runs, Release(r)
  PROVE  Effect(r) /\ polls' = polls /\ rows[r].state = "claimed"
<1>1. PICK state \in CandidateStates : rows' = [rows EXCEPT ![r] = [rows[r] EXCEPT !.state = state]]
  BY DEF Release, CandidateStates
<1>2. /\ rows[r].state = "claimed" /\ ~rows[r].ended /\ polls' = polls /\ paid' = paid
      /\ ledger' = [ledger EXCEPT ![r] = NoEntry]
  BY DEF Release, InFlight
<1> DEFINE row == [rows[r] EXCEPT !.state = state]
<1>3. /\ Shaped(row, RowFields)
      /\ row.cost = rows[r].cost /\ row.priorCost = rows[r].priorCost
      /\ row.ended = rows[r].ended /\ row.state = state
      /\ row.planCost = rows[r].planCost /\ row.settledAt = rows[r].settledAt /\ SameMinutes(row, rows[r])
  BY ShapedRow DEF Shaped, RowFields, SameMinutes
<1>4. rows' = [rows EXCEPT ![r] = row]
  BY <1>1
<1> HIDE DEF row
<1>5. RowPaid(row, paid[r])
  BY <1>2, <1>3, RowFacts DEF RowPaid, SameMinutes, CandidateStates
<1>6. OnRow(r, row, NoEntry, paid[r])
  BY <1>2, <1>3, <1>4, <1>5, RowFacts DEF OnRow, NoEntry
<1> QED BY <1>2, <1>6, EffectOf DEF GivesBack

LEMMA SettlePlanEffect ==
  ASSUME SpendIInv, NEW r \in Runs, NEW files, SettlePlan(r, files)
  PROVE  Effect(r) /\ polls' = polls /\ rows[r].state = "claimed"
<1> DEFINE row == [rows[r] EXCEPT !.state = "planned", !.files = files, !.planAt = now,
                                  !.planCost = rows[r].planCost + ledger[r].cost,
                                  !.planMinutes = rows[r].planMinutes + ledger[r].minutes]
<1>1. /\ rows' = [rows EXCEPT ![r] = row]
      /\ rows[r].state = "claimed" /\ ~rows[r].ended /\ polls' = polls /\ paid' = paid
      /\ ledger' = [ledger EXCEPT ![r] = NoEntry]
  BY DEF SettlePlan, InFlight
<1>3. /\ Shaped(row, RowFields)
      /\ row.cost = rows[r].cost /\ row.priorCost = rows[r].priorCost
      /\ row.ended = rows[r].ended /\ row.state = "planned"
      /\ row.planCost = rows[r].planCost + ledger[r].cost /\ row.settledAt = rows[r].settledAt
      /\ row.minutes = rows[r].minutes /\ row.billed = rows[r].billed /\ row.priorMinutes = rows[r].priorMinutes
      /\ row.planMinutes = rows[r].planMinutes + ledger[r].minutes
  BY ShapedRow DEF Shaped, RowFields
<1> HIDE DEF row
<1>4. row.planCost \in Nat /\ row.planMinutes \in Nat
  BY <1>3, RowFacts DEF RowPaid, EntryPaid
<1>5. RowPaid(row, paid[r])
  BY <1>1, <1>3, <1>4, RowFacts DEF RowPaid
<1>6. OnRow(r, row, NoEntry, paid[r])
  BY <1>1, <1>3, <1>5, RowFacts DEF OnRow, NoEntry
<1> QED BY <1>1, <1>6, EffectOf DEF GivesBack

(* The record settles for the attempt's own spend and what earlier ones    *)
(* carried forward, which is what the run has cost by then.                *)
LEMMA PutRecordEffect ==
  ASSUME SpendIInv, now \in Nat, NEW r \in Runs, NEW s \in Spends, PutRecord(r, s)
  PROVE  Effect(r) /\ polls' = polls /\ rows[r].state = "claimed"
<1>0. s.cost \in Nat /\ s.minutes \in Nat
  BY AdmissionAssumption
<1>1. /\ rows' = [rows EXCEPT ![r] = settlement(rows[r], s, r \in Private)]
      /\ rows[r].state = "claimed" /\ ~rows[r].ended /\ polls' = polls /\ ledger' = ledger
      /\ paid' = [paid EXCEPT ![r] = paid[r] + s.cost]
  BY DEF PutRecord, InFlight
<1>2. PICK row : row = settlement(rows[r], s, r \in Private)
  OBVIOUS
<1>3. /\ Shaped(row, RowFields) /\ row.files = rows[r].files
      /\ row.cost = s.cost + rows[r].priorCost /\ row.priorCost = rows[r].priorCost
      /\ row.ended = TRUE /\ row.state = rows[r].state
      /\ row.planCost = rows[r].planCost /\ (row.settledAt = NoTime \/ row.settledAt = now)
      /\ row.minutes = (IF r \in Private THEN s.minutes ELSE 0) + rows[r].priorMinutes
      /\ row.billed = s.minutes
      /\ row.planMinutes = rows[r].planMinutes /\ row.priorMinutes = rows[r].priorMinutes
  BY <1>2, ShapedRow DEF Shaped, RowFields, settlement
<1>4. paid[r] = rows[r].priorCost /\ rows[r].priorCost \in Nat
  BY <1>1, RowFacts DEF RowPaid
<1>5. RowPaid(row, paid[r] + s.cost)
  <2>1. rows[r].state = "claimed"
    BY <1>1
  <2>2. PICK x \in Nat, y \in Nat : x = s.cost /\ y = rows[r].priorCost
    BY <1>0, <1>4
  <2>3. row.cost = x + y /\ paid[r] + s.cost = x + y /\ x + y \in Nat
    BY <1>3, <1>4, <2>2
  <2>4. row.cost \in Nat /\ row.priorCost \in Nat /\ paid[r] + s.cost \in Nat
    BY <1>3, <1>4, <2>3
  <2>5. row.planCost \in Nat /\ (row.settledAt = NoTime \/ row.settledAt \in Nat)
    BY <1>3, RowFacts DEF RowPaid
  <2>6. row.minutes \in Nat /\ row.billed \in Nat /\ row.planMinutes \in Nat /\ row.priorMinutes \in Nat
    <3>1. PICK z \in Nat, w \in Nat : z = (IF r \in Private THEN s.minutes ELSE 0) /\ w = rows[r].priorMinutes
      BY <1>0, RowFacts DEF RowPaid
    <3>2. rows[r].planMinutes \in Nat /\ z + w \in Nat
      BY RowFacts DEF RowPaid
    <3> QED BY <1>0, <1>3, <3>1, <3>2
  <2> QED BY <1>3, <2>1, <2>3, <2>4, <2>5, <2>6 DEF RowPaid
<1>6. OnRow(r, row, ledger[r], paid[r] + s.cost)
  BY <1>1, <1>2, <1>3, <1>5, RowFacts DEF OnRow
<1> QED BY <1>1, <1>3, <1>6, EffectOf DEF GivesBack

LEMMA SettleEffect ==
  ASSUME SpendIInv, NEW r \in Runs, Settle(r)
  PROVE  Effect(r) /\ polls' = polls /\ rows[r].state \in {"claimed", "stopped"}
<1>1. /\ rows' = rows /\ rows[r].ended /\ polls' = polls /\ paid' = paid
      /\ ledger' = [ledger EXCEPT ![r] = NoEntry]
  BY DEF Settle
<1>2. OnRow(r, rows[r], NoEntry, paid[r])
  BY <1>1, RowFacts DEF OnRow, NoEntry
<1>3. rows[r].state \in {"claimed", "stopped"}
  BY <1>1, RowFacts DEF RowPaid
<1> QED BY <1>1, <1>2, <1>3, EffectOf DEF GivesBack

(* A requeue starts the count again at what it carries forward. *)
LEMMA RequeuedEffect ==
  ASSUME SpendIInv, NEW r \in Runs, NEW row, Requeued(r, row),
         Shaped(row, RowFields), row.state \in CandidateStates,
         row.cost = rows[r].cost, row.priorCost \in {rows[r].cost, rows[r].priorCost},
         row.planCost = rows[r].planCost, row.settledAt = rows[r].settledAt,
         row.minutes = rows[r].minutes, row.billed = rows[r].billed, row.planMinutes = rows[r].planMinutes,
         row.priorMinutes \in {rows[r].minutes, rows[r].priorMinutes}
  PROVE  Effect(r) /\ polls' = polls /\ rows[r].state \in {"claimed", "stopped"}
<1> DEFINE back == [row EXCEPT !.ended = FALSE, !.attempt = row.attempt + 1]
<1>1. /\ rows' = [rows EXCEPT ![r] = back] /\ rows[r].ended /\ polls' = polls
      /\ ledger' = [ledger EXCEPT ![r] = NoEntry] /\ paid' = [paid EXCEPT ![r] = row.priorCost]
  BY DEF Requeued
<1>2. /\ Shaped(back, RowFields)
      /\ back.cost = row.cost /\ back.priorCost = row.priorCost
      /\ back.ended = FALSE /\ back.state = row.state
      /\ back.planCost = row.planCost /\ back.settledAt = row.settledAt /\ SameMinutes(back, row)
  BY DEF Shaped, RowFields, SameMinutes
<1> HIDE DEF back
<1>3. rows[r].cost \in Nat /\ rows[r].priorCost \in Nat /\ rows[r].state \in {"claimed", "stopped"}
  BY <1>1, RowFacts DEF RowPaid
<1>4. RowPaid(back, row.priorCost)
  <2>1. /\ back.planCost \in Nat /\ (back.settledAt = NoTime \/ back.settledAt \in Nat)
        /\ back.minutes \in Nat /\ back.billed \in Nat /\ back.planMinutes \in Nat /\ back.priorMinutes \in Nat
    BY <1>2, RowFacts DEF RowPaid, SameMinutes
  <2> QED BY <1>2, <1>3, <2>1 DEF RowPaid, CandidateStates
<1>5. OnRow(r, back, NoEntry, row.priorCost)
  BY <1>1, <1>2, <1>4, RowFacts DEF OnRow, NoEntry
<1> QED BY <1>1, <1>3, <1>5, EffectOf DEF GivesBack

LEMMA RequeuesEffect ==
  ASSUME SpendIInv, NEW r \in Runs,
         RequeueAfterConflict(r) \/ RetryWithNote(r) \/ RequeueTransient(r) \/ Requeue(r)
  PROVE  Effect(r) /\ polls' = polls /\ rows[r].state \in {"claimed", "stopped"}
<1> DEFINE over == supersedeUpdates(rows[r])
           back == requeueState(rows[r])
<1>1. Shaped(rows[r], RowFields)
  BY RowFacts
<1>2. /\ Shaped(over, RowFields)
      /\ over.cost = rows[r].cost /\ over.priorCost = rows[r].cost
      /\ over.planCost = rows[r].planCost /\ over.settledAt = rows[r].settledAt
      /\ over.minutes = rows[r].minutes /\ over.billed = rows[r].billed /\ over.planMinutes = rows[r].planMinutes
      /\ over.priorMinutes = rows[r].minutes
  BY <1>1 DEF Shaped, RowFields, supersedeUpdates
<1>3. back \in CandidateStates
  BY DEF requeueState, CandidateStates
<1> HIDE DEF over, back
<1>4. PICK row : /\ Requeued(r, row)
                 /\ \/ row = [over EXCEPT !.state = "queued"]
                    \/ row = [over EXCEPT !.state = "queued", !.retried = TRUE]
                    \/ row = [rows[r] EXCEPT !.state = back]
                    \/ row = [rows[r] EXCEPT !.state = back, !.retried = FALSE]
  BY DEF RequeueAfterConflict, RetryWithNote, RequeueTransient, Requeue, over, back
<1>5. /\ Shaped(row, RowFields) /\ row.state \in CandidateStates
      /\ row.cost = rows[r].cost /\ row.priorCost \in {rows[r].cost, rows[r].priorCost}
      /\ row.planCost = rows[r].planCost /\ row.settledAt = rows[r].settledAt
      /\ row.minutes = rows[r].minutes /\ row.billed = rows[r].billed /\ row.planMinutes = rows[r].planMinutes
      /\ row.priorMinutes \in {rows[r].minutes, rows[r].priorMinutes}
  <2>1. CASE row = [over EXCEPT !.state = "queued"]
    BY <2>1, <1>2 DEF Shaped, RowFields, CandidateStates
  <2>2. CASE row = [over EXCEPT !.state = "queued", !.retried = TRUE]
    BY <2>2, <1>2 DEF Shaped, RowFields, CandidateStates
  <2>3. CASE row = [rows[r] EXCEPT !.state = back]
    BY <2>3, <1>1, <1>3 DEF Shaped, RowFields
  <2>4. CASE row = [rows[r] EXCEPT !.state = back, !.retried = FALSE]
    BY <2>4, <1>1, <1>3 DEF Shaped, RowFields
  <2> QED BY <1>4, <2>1, <2>2, <2>3, <2>4
<1> QED BY <1>4, <1>5, RequeuedEffect

(* A claim changes a row's state and plan, and books it. *)
LEMMA ClaimKeepsSpend ==
  ASSUME SpendIInv, NEW k \in Pollers, NEW r \in Runs, Claimed(k, r), paid' = paid
  PROVE  \E row, entry : /\ OnRow(r, row, entry, paid[r]) /\ row.files = rows[r].files
                         /\ entry.files = polls[k].cands[r].files
                         /\ \E model, size : HeldBeforeBudget(r, [stage |-> entry.stage, size |-> size,
                              files |-> rows[r].files], model, polls[k].world) = "none"
<1>1. rows[r].state \in CandidateStates
  BY Zenon DEF Claimed
<1>2. PICK stage, cost, minutes, model, plan :
       /\ cost \in Nat /\ minutes \in Nat /\ stage # "none"
       /\ HeldBeforeBudget(r, [stage |-> stage, size |-> rows[r].size, files |-> rows[r].files],
                           model, polls[k].world) = "none"
       /\ ledger' = [ledger EXCEPT ![r] = [stage |-> stage, cost |-> cost, minutes |-> minutes,
                                           size |-> rows[r].size, files |-> polls[k].cands[r].files]]
       /\ rows' = [rows EXCEPT ![r] = [rows[r] EXCEPT !.state = "claimed", !.plan = plan]]
  BY Zenon DEF Claimed
<1>3. PICK row : row = [rows[r] EXCEPT !.state = "claimed", !.plan = plan]
  OBVIOUS
<1>4. PICK entry : entry = [stage |-> stage, cost |-> cost, minutes |-> minutes,
                            size |-> rows[r].size, files |-> polls[k].cands[r].files]
  OBVIOUS
<1>5. /\ Shaped(row, RowFields) /\ row.files = rows[r].files
      /\ row.cost = rows[r].cost /\ row.priorCost = rows[r].priorCost
      /\ row.ended = rows[r].ended /\ row.state = "claimed"
      /\ row.planCost = rows[r].planCost /\ row.settledAt = rows[r].settledAt /\ SameMinutes(row, rows[r])
  BY <1>3, ShapedRow DEF Shaped, RowFields, SameMinutes
<1>6. ~rows[r].ended /\ RowPaid(row, paid[r])
  BY <1>1, <1>5, RowFacts DEF RowPaid, SameMinutes, CandidateStates
<1>7. OnRow(r, row, entry, paid[r])
  <2>1. EntryPaid(entry)
    BY <1>2, <1>4 DEF EntryPaid
  <2> QED BY <1>2, <1>3, <1>4, <1>5, <1>6, <2>1, RowFacts DEF OnRow
<1>8. entry.files = polls[k].cands[r].files /\ entry.stage = stage
  BY <1>4
<1>9. HeldBeforeBudget(r, [stage |-> entry.stage, size |-> rows[r].size, files |-> rows[r].files],
                       model, polls[k].world) = "none"
  BY <1>2, <1>8
<1> QED BY <1>5, <1>7, <1>8, <1>9

(* The poll's own steps leave the runs alone. *)
LEMMA PollStep ==
  ASSUME SpendIInv, UNCHANGED <<rows, ledger, paid>>, PollsShaped'
  PROVE  SpendIInv'
BY DEF SpendIInv, TablesShaped, BookedIsClaimed, PollsShaped

LEMMA NewPollStep ==
  ASSUME SpendIInv, NEW k \in Pollers, NEW poll, polls' = [polls EXCEPT ![k] = poll],
         Shaped(poll, PollFields), Shaped(poll.cands, Runs), EstimatesPaid(poll.estimates)
  PROVE  PollsShaped' /\ \A q \in Pollers : polls'[q] = IF q = k THEN poll ELSE polls[q]
<1>1. PollsShaped
  BY DEF SpendIInv, TablesShaped, PollsShaped
<1>2. /\ Shaped(polls', Pollers)
      /\ \A q \in Pollers : polls'[q] = IF q = k THEN poll ELSE polls[q]
  BY <1>1 DEF PollsShaped, Shaped
<1> QED BY <1>1, <1>2 DEF PollsShaped, PollsPaid

(* What a poll lists is the runs that wait, as they are. *)
LEMMA ListCandidatesPoll ==
  ASSUME SpendIInv, NEW k \in Pollers, NEW w, ListCandidates(k, w)
  PROVE  /\ PollsShaped' /\ UNCHANGED <<rows, ledger, paid>>
         /\ \A q \in Pollers \ {k} : polls'[q] = polls[q]
         /\ \A x \in Runs : polls'[k].cands[x] = IF Waits(x) THEN Candidate(x) ELSE NotListed
<1> DEFINE list == [x \in Runs |-> IF Waits(x) THEN Candidate(x) ELSE NotListed]
           poll == [polls[k] EXCEPT !.pc = "walk", !.world = w, !.cands = list]
<1>1. polls' = [polls EXCEPT ![k] = poll] /\ UNCHANGED <<rows, ledger, paid>>
  BY DEF ListCandidates
<1>2. Shaped(list, Runs) /\ \A x \in Runs : list[x] = IF Waits(x) THEN Candidate(x) ELSE NotListed
  BY DEF Shaped
<1> HIDE DEF list
<1>3. Shaped(polls[k], PollFields)
  BY DEF SpendIInv, TablesShaped
<1>4. Shaped(poll, PollFields) /\ poll.cands = list /\ poll.estimates = polls[k].estimates
  BY <1>3 DEF Shaped, PollFields
<1> HIDE DEF poll
<1>6. EstimatesPaid(poll.estimates)
  BY <1>4 DEF SpendIInv, PollsPaid
<1>5. PollsShaped' /\ \A q \in Pollers : polls'[q] = IF q = k THEN poll ELSE polls[q]
  BY <1>1, <1>2, <1>4, <1>6, NewPollStep
<1> QED BY <1>1, <1>2, <1>4, <1>5

-----------------------------------------------------------------------------
(* The spend *)

LEMMA ClockStep ==
  ASSUME now \in Nat, [Next]_vars
  PROVE  now' \in Nat
<1>1. ASSUME NEW k \in Pollers, NEW w, PollEnds(k) \/ ListCandidates(k, w) PROVE now' = now
  BY <1>1 DEF PollEnds, ListCandidates
<1>2. ASSUME NEW k \in Pollers, NEW r \in Runs, NEW i,
             Enqueue(k, r, i) \/ RefreshQueuedTicket(k, r, i) \/ RefreshRetried(k, r, i)
      PROVE  now' = now
  BY <1>2 DEF Enqueue, RefreshQueuedTicket, RefreshRetried
<1>3. ASSUME NEW k \in Pollers, NEW r \in Runs, PassOver(k, r) \/ TryClaim(k, r) PROVE now' = now
  <2>1. ASSUME TryClaim(k, r) PROVE now' = now
    BY <2>1, Zenon DEF TryClaim
  <2> QED BY <1>3, <2>1 DEF PassOver
<1>4. ASSUME NEW r \in Runs, NEW f, Release(r) \/ Settle(r) \/ SettlePlan(r, f) PROVE now' = now
  BY <1>4 DEF Release, Settle, SettlePlan
<1>5. ASSUME NEW r \in Runs, NEW s, PutRecord(r, s) PROVE now' = now
  BY <1>5 DEF PutRecord
<1>6. ASSUME NEW r \in Runs, RequeueAfterConflict(r) \/ RetryWithNote(r) \/ RequeueTransient(r) \/ Requeue(r)
      PROVE  now' = now
  BY <1>6 DEF RequeueAfterConflict, RetryWithNote, RequeueTransient, Requeue, Requeued
<1>7. ASSUME Tick \/ UNCHANGED vars PROVE now' \in {now, now + 1}
  BY <1>7 DEF Tick, vars
<1>8. now' \in {now, now + 1}
  BY <1>1, <1>2, <1>3, <1>4, <1>5, <1>6, <1>7 DEF Next
<1> QED BY <1>8

LEMMA InitSpend == Init => SpendIInv
<1> SUFFICES ASSUME Init PROVE SpendIInv
  OBVIOUS
<1>1. Shaped(NoRow, RowFields) /\ RowPaid(NoRow, 0)
  BY DEF NoRow, Shaped, RowFields, RowPaid, NoTime
<1>2. /\ Shaped(rows, Runs) /\ Shaped(ledger, Runs) /\ Shaped(paid, Runs) /\ Shaped(polls, Pollers)
      /\ \A r \in Runs : rows[r] = NoRow /\ ledger[r] = NoEntry /\ paid[r] = 0
      /\ \A k \in Pollers : polls[k] = NewPoll
  BY DEF Init, Shaped
<1>3. NoEntry.stage = "none" /\ EntryPaid(NoEntry)
  BY DEF NoEntry, EntryPaid
<1> QED BY <1>1, <1>2, <1>3, NewPollShaped DEF SpendIInv, TablesShaped, BookedIsClaimed, PollsPaid

LEMMA SpendStep ==
  ASSUME SpendIInv, now \in Nat, [Next]_vars
  PROVE  SpendIInv'
<1>0. PollsShaped
  BY DEF SpendIInv, TablesShaped, PollsShaped
<1>1. ASSUME polls' = polls PROVE PollsShaped'
  BY <1>0, <1>1 DEF PollsShaped, PollsPaid
<1>2. ASSUME NEW k \in Pollers, PollEnds(k) PROVE SpendIInv'
  <2>1. polls' = [polls EXCEPT ![k] = NewPoll] /\ UNCHANGED <<rows, ledger, paid>>
    BY <1>2 DEF PollEnds
  <2> QED BY <2>1, NewPollShaped, NewPollStep, PollStep
<1>3. ASSUME NEW k \in Pollers, NEW w \in World, ListCandidates(k, w) PROVE SpendIInv'
  BY <1>3, ListCandidatesPoll, PollStep
<1>4. ASSUME NEW k \in Pollers, NEW r \in Runs, NEW i, Enqueue(k, r, i) PROVE SpendIInv'
  BY <1>1, <1>4, EnqueueEffect, EffectKeepsSpend
<1>5. ASSUME NEW k \in Pollers, NEW r \in Runs, NEW i, RefreshQueuedTicket(k, r, i) PROVE SpendIInv'
  BY <1>1, <1>5, RefreshQueuedEffect, EffectKeepsSpend
<1>6. ASSUME NEW k \in Pollers, NEW r \in Runs, NEW i, RefreshRetried(k, r, i) PROVE SpendIInv'
  <2> DEFINE poll == [polls[k] EXCEPT !.unchecked = polls[k].unchecked \cup {r}]
  <2>1. Effect(r) /\ (polls' = polls \/ polls' = [polls EXCEPT ![k] = poll])
    BY <1>6, RefreshRetriedEffect
  <2>2. Shaped(polls[k], PollFields) /\ Shaped(polls[k].cands, Runs)
    BY <1>0 DEF PollsShaped
  <2>3. Shaped(poll, PollFields) /\ poll.cands = polls[k].cands /\ poll.estimates = polls[k].estimates
    BY <2>2 DEF Shaped, PollFields
  <2> HIDE DEF poll
  <2>5. EstimatesPaid(poll.estimates)
    BY <2>3, <1>0 DEF PollsShaped, PollsPaid
  <2>4. PollsShaped'
    BY <1>1, <2>1, <2>2, <2>3, <2>5, NewPollStep
  <2> QED BY <2>1, <2>4, EffectKeepsSpend
<1>7. ASSUME NEW k \in Pollers, NEW r \in Runs, PassOver(k, r) PROVE SpendIInv'
  <2>1. polls' = Walked(k, r, polls[k].estimates, polls[k].history) /\ UNCHANGED <<rows, ledger, paid>>
    BY <1>7 DEF PassOver
  <2>3. EstimatesPaid(polls[k].estimates)
    BY <1>0 DEF PollsShaped, PollsPaid
  <2>2. PollsShaped'
    BY <2>1, <2>3, WalkedPoll DEF PollsShaped
  <2> QED BY <2>1, <2>2, PollStep
<1>8. ASSUME NEW k \in Pollers, NEW r \in Runs, TryClaim(k, r) PROVE SpendIInv'
  <2>1. PICK e, h : EstimatesPaid(e) /\ polls' = Walked(k, r, e, h)
    BY <1>8, TryClaimDoes
  <2>2. PollsShaped'
    BY <2>1, WalkedPoll DEF PollsShaped
  <2>3. paid' = paid /\ (UNCHANGED <<rows, ledger>> \/ Claimed(k, r))
    BY <1>8, TryClaimDoes
  <2>4. ASSUME UNCHANGED <<rows, ledger>> PROVE SpendIInv'
    BY <2>2, <2>3, <2>4, PollStep
  <2>5. ASSUME Claimed(k, r) PROVE SpendIInv'
    BY <2>2, <2>3, <2>5, ClaimKeepsSpend, OnRowKeepsSpend
  <2> QED BY <2>3, <2>4, <2>5
<1>9. ASSUME NEW r \in Runs, Release(r) PROVE SpendIInv'
  BY <1>1, <1>9, ReleaseEffect, EffectKeepsSpend
<1>10. ASSUME NEW r \in Runs, Settle(r) PROVE SpendIInv'
  BY <1>1, <1>10, SettleEffect, EffectKeepsSpend
<1>11. ASSUME NEW r \in Runs, NEW f, SettlePlan(r, f) PROVE SpendIInv'
  BY <1>1, <1>11, SettlePlanEffect, EffectKeepsSpend
<1>12. ASSUME NEW r \in Runs, NEW s \in Spends, PutRecord(r, s) PROVE SpendIInv'
  BY <1>1, <1>12, PutRecordEffect, EffectKeepsSpend
<1>13. ASSUME NEW r \in Runs,
              RequeueAfterConflict(r) \/ RetryWithNote(r) \/ RequeueTransient(r) \/ Requeue(r)
       PROVE  SpendIInv'
  BY <1>1, <1>13, RequeuesEffect, EffectKeepsSpend
<1>14. ASSUME Tick \/ UNCHANGED vars PROVE SpendIInv'
  <2>1. UNCHANGED <<rows, ledger, paid>> /\ polls' = polls
    BY <1>14 DEF Tick, vars
  <2> QED BY <2>1, <1>1, PollStep
<1> QED BY <1>2, <1>3, <1>4, <1>5, <1>6, <1>7, <1>8, <1>9, <1>10, <1>11, <1>12, <1>13, <1>14 DEF Next

LEMMA SpendAlways == Spec => [](SpendIInv /\ now \in Nat)
<1>1. Init => SpendIInv /\ now \in Nat
  BY InitSpend DEF Init
<1>2. SpendIInv /\ now \in Nat /\ [Next]_vars => (SpendIInv /\ now \in Nat)'
  BY SpendStep, ClockStep
<1> QED BY <1>1, <1>2, PTL DEF Spec

(* What a run that ended has settled for is what its attempts cost since   *)
(* it was last put back by a requeue that carries nothing, whatever polls, *)
(* settlements and requeues come in between (Finalize and the requeues'    *)
(* supersedeUpdates).                                                      *)
THEOREM SpendIsCarried == Spec => []CarriedSpendIsKept
<1>1. SpendIInv => CarriedSpendIsKept
  BY DEF SpendIInv, RowPaid, CarriedSpendIsKept
<1> QED BY <1>1, SpendAlways, PTL

-----------------------------------------------------------------------------
(* The write sets, where polls follow one another *)

OnePoll == \A k, q \in Pollers : k = q

LEMMA InitWrites == Init => WriteIInv
<1> SUFFICES ASSUME Init PROVE WriteIInv
  OBVIOUS
<1>1. \A r \in Runs : ledger[r].stage = "none"
  BY DEF Init, NoEntry
<1>2. \A k \in Pollers : polls[k].pc = "admit"
  BY NewPollShaped DEF Init
<1>3. BookedAsHeld
  BY <1>1 DEF BookedAsHeld
<1>4. ListedAsHeld
  BY <1>2 DEF ListedAsHeld, Listed
<1>5. WriteSetsDisjoint
  BY <1>1 DEF WriteSetsDisjoint
<1> QED BY <1>3, <1>4, <1>5 DEF WriteIInv

(* A step of a poll that leaves the rows and the ledger alone. *)
LEMMA PollKeepsWrites ==
  ASSUME WriteIInv, UNCHANGED <<rows, ledger>>, ListedAsHeld'
  PROVE  WriteIInv'
<1>1. BookedAsHeld'
  BY DEF WriteIInv, BookedAsHeld
<1>2. WriteSetsDisjoint'
  BY DEF WriteIInv, WriteSetsDisjoint
<1> QED BY <1>1, <1>2 DEF WriteIInv

(* A step on the row of a run in flight, or ended, concerns no run a poll  *)
(* has listed.                                                             *)
LEMMA FlightKeepsWrites ==
  ASSUME SpendIInv, WriteIInv, NEW r \in Runs, Effect(r), polls' = polls,
         rows[r].state \in {"claimed", "stopped"}
  PROVE  WriteIInv'
<1>1. \A k \in Pollers : ~Listed(k, r)
  BY DEF WriteIInv, ListedAsHeld, CandidateStates
<1>2. \A k \in Pollers, x \in Runs :
        Listed(k, x)' => x # r /\ Listed(k, x) /\ polls'[k].cands[x] = polls[k].cands[x]
  BY <1>1 DEF Listed
<1> QED BY <1>2, EffectKeepsWrites

(* The claim itself: what the run writes was checked against what every    *)
(* build under way in its repository writes, in the claim's transaction.   *)
LEMMA ClaimKeepsWrites ==
  ASSUME OnePoll, SpendIInv, WriteIInv, NEW k \in Pollers, NEW r \in Runs, Listed(k, r),
         NEW e, NEW h, polls' = Walked(k, r, e, h), Claimed(k, r), paid' = paid
  PROVE  WriteIInv'
<1>0. PICK row, entry :
        /\ OnRow(r, row, entry, paid[r]) /\ row.files = rows[r].files
        /\ entry.files = polls[k].cands[r].files
        /\ \E model, size : HeldBeforeBudget(r, [stage |-> entry.stage, size |-> size,
                              files |-> rows[r].files], model, polls[k].world) = "none"
  BY ClaimKeepsSpend, Zenon
<1>1. PICK model, size :
        /\ OnRow(r, row, entry, paid[r]) /\ row.files = rows[r].files
        /\ entry.files = polls[k].cands[r].files
        /\ HeldBeforeBudget(r, [stage |-> entry.stage, size |-> size, files |-> rows[r].files],
                            model, polls[k].world) = "none"
  BY <1>0, Zenon
<1>2. \A x \in Runs : /\ rows'[x] = IF x = r THEN row ELSE rows[x]
                      /\ ledger'[x] = IF x = r THEN entry ELSE ledger[x]
  BY <1>1 DEF OnRow, Shaped, SpendIInv, TablesShaped
<1>3. \A x \in Runs : rows'[x].files = rows[x].files
  BY <1>1, <1>2
<1>4. entry.files = rows[r].files
  BY <1>1 DEF WriteIInv, ListedAsHeld
<1>5. BookedAsHeld'
  BY <1>2, <1>3, <1>4 DEF WriteIInv, BookedAsHeld
<1>6. ListedAsHeld'
  <2> SUFFICES ASSUME NEW q \in Pollers, NEW x \in Runs, Listed(q, x)'
               PROVE  rows'[x].state \in CandidateStates /\ polls'[q].cands[x].files = rows'[x].files
    BY Zenon DEF ListedAsHeld, CandidateStates
  <2>1. Listed(q, x) /\ polls'[q].cands[x] = polls[q].cands[x] /\ x # r
    BY WalkedPoll DEF OnePoll
  <2> QED BY <2>1, <1>2 DEF WriteIInv, ListedAsHeld
<1>7. \A x \in Runs : x # r /\ Repo[x] = Repo[r] /\ ledger[x].stage \notin {"none", "plan"}
                        /\ entry.stage # "plan"
                      => ledger[x].files \cap rows[r].files = {}
  <2> SUFFICES ASSUME NEW x \in Runs, Repo[x] = Repo[r], ledger[x].stage \notin {"none", "plan"},
                      entry.stage # "plan"
               PROVE  ledger[x].files \cap rows[r].files = {}
    OBVIOUS
  <2> DEFINE c == [stage |-> entry.stage, size |-> size, files |-> rows[r].files]
  <2>1. x \in Booked
    BY DEF Booked
  <2>2. c.stage = entry.stage /\ c.files = rows[r].files
    OBVIOUS
  <2>3. ~writeSetsOverlap(ledger[x], c)
    BY <1>1, <2>1, HeldClear
  <2> HIDE DEF c
  <2> QED BY <2>2, <2>3 DEF writeSetsOverlap
<1>8. WriteSetsDisjoint'
  <2> SUFFICES ASSUME NEW x \in Runs, NEW y \in Runs, x # y, Repo[x] = Repo[y],
                      ledger'[x].stage \notin {"none", "plan"}, ledger'[y].stage \notin {"none", "plan"}
               PROVE  rows'[x].files \cap rows'[y].files = {}
    BY DEF WriteSetsDisjoint
  <2>1. CASE x # r /\ y # r
    BY <2>1, <1>2, <1>3 DEF WriteIInv, WriteSetsDisjoint
  <2>2. CASE x = r
    <3>1. y # r /\ Repo[y] = Repo[r] /\ ledger[y].stage \notin {"none", "plan"} /\ entry.stage # "plan"
      BY <2>2, <1>2
    <3>2. ledger[y].files = rows[y].files
      BY <3>1 DEF WriteIInv, BookedAsHeld
    <3> QED BY <2>2, <3>1, <3>2, <1>3, <1>7
  <2>3. CASE y = r
    <3>1. x # r /\ Repo[x] = Repo[r] /\ ledger[x].stage \notin {"none", "plan"} /\ entry.stage # "plan"
      BY <2>3, <1>2
    <3>2. ledger[x].files = rows[x].files
      BY <3>1 DEF WriteIInv, BookedAsHeld
    <3> QED BY <2>3, <3>1, <3>2, <1>3, <1>7
  <2> QED BY <2>1, <2>2, <2>3
<1> QED BY <1>5, <1>6, <1>8 DEF WriteIInv

LEMMA WriteStep ==
  ASSUME OnePoll, SpendIInv, now \in Nat, WriteIInv, [Next]_vars
  PROVE  WriteIInv'
<1>1. ASSUME NEW k \in Pollers, NEW r \in Runs, NEW e, NEW h, polls' = Walked(k, r, e, h),
             UNCHANGED <<rows, ledger>>
      PROVE  WriteIInv'
  <2>1. \A q \in Pollers, x \in Runs :
          Listed(q, x)' => Listed(q, x) /\ polls'[q].cands[x] = polls[q].cands[x]
    BY <1>1, WalkedPoll
  <2>2. ListedAsHeld'
    BY <1>1, <2>1 DEF WriteIInv, ListedAsHeld
  <2> QED BY <1>1, <2>2, PollKeepsWrites
<1>2. ASSUME NEW k \in Pollers, PollEnds(k) PROVE WriteIInv'
  <2>1. polls' = [polls EXCEPT ![k] = NewPoll] /\ UNCHANGED <<rows, ledger>>
    BY <1>2 DEF PollEnds
  <2>2. \A q \in Pollers : polls'[q] = IF q = k THEN NewPoll ELSE polls[q]
    BY <2>1, NewPollShaped, NewPollStep
  <2>3. ListedAsHeld'
    BY <2>1, <2>2, NewPollShaped DEF WriteIInv, ListedAsHeld, Listed
  <2> QED BY <2>1, <2>3, PollKeepsWrites
<1>3. ASSUME NEW k \in Pollers, NEW w \in World, ListCandidates(k, w) PROVE WriteIInv'
  <2>1. /\ UNCHANGED <<rows, ledger>>
        /\ \A x \in Runs : polls'[k].cands[x] = IF Waits(x) THEN Candidate(x) ELSE NotListed
    BY <1>3, ListCandidatesPoll
  <2>2. ASSUME NEW x \in Runs, Listed(k, x)'
        PROVE  rows[x].state \in CandidateStates /\ polls'[k].cands[x].files = rows[x].files
    <3>1. polls'[k].cands[x] # NotListed
      BY <2>2 DEF Listed
    <3>2. Waits(x) /\ polls'[k].cands[x] = Candidate(x)
      BY <2>1, <3>1
    <3> QED BY <3>2 DEF Waits, Candidate
  <2>3. ListedAsHeld'
    BY <2>1, <2>2 DEF ListedAsHeld, OnePoll, CandidateStates
  <2> QED BY <2>1, <2>3, PollKeepsWrites
<1>4. ASSUME NEW k \in Pollers, NEW r \in Runs, NEW i,
             Enqueue(k, r, i) \/ RefreshQueuedTicket(k, r, i) \/ RefreshRetried(k, r, i)
      PROVE  WriteIInv'
  <2>1. polls[k].pc = "admit"
    BY <1>4 DEF Enqueue, RefreshQueuedTicket, RefreshRetried
  <2>2. Effect(r) /\ (polls' = polls \/ polls' = [polls EXCEPT ![k] =
                        [polls[k] EXCEPT !.unchecked = polls[k].unchecked \cup {r}]])
    BY <1>4, EnqueueEffect, RefreshQueuedEffect, RefreshRetriedEffect
  <2>3. polls'[k].pc = "admit"
    <3>1. Shaped(polls, Pollers) /\ Shaped(polls[k], PollFields)
      BY DEF SpendIInv, TablesShaped
    <3>2. PICK poll : poll = [polls[k] EXCEPT !.unchecked = polls[k].unchecked \cup {r}]
      OBVIOUS
    <3>3. poll.pc = "admit"
      BY <2>1, <3>1, <3>2 DEF Shaped, PollFields
    <3> QED BY <2>1, <2>2, <3>1, <3>2, <3>3 DEF Shaped
  <2>4. \A q \in Pollers, x \in Runs : ~Listed(q, x)'
    BY <2>3 DEF OnePoll, Listed
  <2> QED BY <2>2, <2>4, EffectKeepsWrites
<1>5. ASSUME NEW k \in Pollers, NEW r \in Runs, PassOver(k, r) PROVE WriteIInv'
  <2>1. polls' = Walked(k, r, polls[k].estimates, polls[k].history) /\ UNCHANGED <<rows, ledger>>
    BY <1>5 DEF PassOver
  <2> QED BY <2>1, <1>1
<1>6. ASSUME NEW k \in Pollers, NEW r \in Runs, TryClaim(k, r) PROVE WriteIInv'
  <2>1. PICK e, h : polls' = Walked(k, r, e, h)
    BY <1>6, TryClaimDoes
  <2>2. Listed(k, r) /\ paid' = paid /\ (UNCHANGED <<rows, ledger>> \/ Claimed(k, r))
    BY <1>6, TryClaimDoes
  <2>3. ASSUME UNCHANGED <<rows, ledger>> PROVE WriteIInv'
    BY <2>1, <2>3, <1>1
  <2>4. ASSUME Claimed(k, r) PROVE WriteIInv'
    BY <2>1, <2>2, <2>4, ClaimKeepsWrites
  <2> QED BY <2>2, <2>3, <2>4
<1>7. ASSUME NEW r \in Runs, Release(r) PROVE WriteIInv'
  BY <1>7, ReleaseEffect, FlightKeepsWrites
<1>8. ASSUME NEW r \in Runs, Settle(r) PROVE WriteIInv'
  BY <1>8, SettleEffect, FlightKeepsWrites
<1>9. ASSUME NEW r \in Runs, NEW f, SettlePlan(r, f) PROVE WriteIInv'
  BY <1>9, SettlePlanEffect, FlightKeepsWrites
<1>10. ASSUME NEW r \in Runs, NEW s \in Spends, PutRecord(r, s) PROVE WriteIInv'
  BY <1>10, PutRecordEffect, FlightKeepsWrites
<1>11. ASSUME NEW r \in Runs,
              RequeueAfterConflict(r) \/ RetryWithNote(r) \/ RequeueTransient(r) \/ Requeue(r)
       PROVE  WriteIInv'
  BY <1>11, RequeuesEffect, FlightKeepsWrites
<1>12. ASSUME Tick \/ UNCHANGED vars PROVE WriteIInv'
  <2>1. UNCHANGED <<rows, ledger>> /\ polls' = polls
    BY <1>12 DEF Tick, vars
  <2>2. ListedAsHeld'
    BY <2>1 DEF WriteIInv, ListedAsHeld, Listed
  <2> QED BY <2>1, <2>2, PollKeepsWrites
<1> QED BY <1>2, <1>3, <1>4, <1>5, <1>6, <1>7, <1>8, <1>9, <1>10, <1>11, <1>12 DEF Next

(* Where polls follow one another, two builds under way in one repository  *)
(* never write the same file (the overlap condition of Admit, checked in   *)
(* TryClaim's transaction).                                                *)
THEOREM WritesAreDisjoint == ASSUME OnePoll PROVE Spec => []WriteSetsDisjoint
<1>1. SpendIInv /\ now \in Nat /\ WriteIInv /\ [Next]_vars => WriteIInv'
  BY WriteStep
<1>2. WriteIInv => WriteSetsDisjoint
  BY DEF WriteIInv
<1> QED BY <1>1, <1>2, SpendAlways, InitWrites, PTL DEF Spec

-----------------------------------------------------------------------------
(* The ceilings *)

(* A claim adds its estimate to what is reserved. *)
LEMMA TotalGrows ==
  ASSUME NEW f, NEW g, NEW r \in Runs, NEW m \in Nat, \A x \in Runs : f[x] \in Nat, f[r] = 0,
         g[r] = m, \A x \in Runs \ {r} : g[x] = f[x]
  PROVE  /\ SumFunctionOnSet(f, Runs) \in Nat
         /\ SumFunctionOnSet(g, Runs) = SumFunctionOnSet(f, Runs) + m
<1>1. IsFiniteSet(Runs) /\ \A x \in Runs : g[x] \in Nat
  BY AdmissionAssumption
<1>2. PICK rest : rest = Runs \ {r}
  OBVIOUS
<1>3. IsFiniteSet(rest) /\ \A x \in rest : f[x] \in Nat /\ f[x] = g[x]
  BY <1>1, <1>2, FS_RemoveElement
<1>4. SumFunctionOnSet(f, Runs) = f[r] + SumFunctionOnSet(f, rest)
  BY <1>1, <1>2, SumTakesOut
<1>5. SumFunctionOnSet(g, Runs) = g[r] + SumFunctionOnSet(g, rest)
  BY <1>1, <1>2, SumTakesOut
<1>6. SumFunctionOnSet(f, rest) = SumFunctionOnSet(g, rest)
  BY <1>3, SumsAgree
<1>7. PICK n \in Nat : n = SumFunctionOnSet(f, rest)
  BY <1>3, SumType
<1>8. SumFunctionOnSet(f, Runs) = 0 + n /\ SumFunctionOnSet(g, Runs) = m + n
  BY <1>4, <1>5, <1>6, <1>7
<1> QED BY <1>8

LEMMA ReservedGrows ==
  ASSUME SpendIInv, NEW r \in Runs, ledger[r].stage = "none", NEW cost \in Nat, NEW minutes \in Nat,
         ledger'[r].cost = cost, ledger'[r].minutes = minutes, \A x \in Runs \ {r} : ledger'[x] = ledger[x]
  PROVE  /\ reservedCost \in Nat /\ reservedCost' = reservedCost + cost
         /\ reservedMinutes \in Nat /\ reservedMinutes' = reservedMinutes + minutes
<1>1. \A x \in Runs : ledger[x].cost \in Nat /\ ledger[x].minutes \in Nat
  BY DEF SpendIInv, EntryPaid
<1>2. ledger[r].cost = 0 /\ ledger[r].minutes = 0
  BY DEF SpendIInv, EntryPaid
<1>3. reservedCost \in Nat /\ reservedCost' = reservedCost + cost
  <2>1. PICK f : f = [x \in Runs |-> ledger[x].cost]
    OBVIOUS
  <2>2. PICK g : g = [x \in Runs |-> ledger'[x].cost]
    OBVIOUS
  <2>3. reservedCost = SumFunctionOnSet(f, Runs) /\ reservedCost' = SumFunctionOnSet(g, Runs)
    BY <2>1, <2>2 DEF reservedCost, SumFunction
  <2>4. f[r] = 0 /\ \A x \in Runs : f[x] \in Nat
    BY <1>1, <1>2, <2>1
  <2>5. g[r] = cost /\ \A x \in Runs \ {r} : g[x] = f[x]
    BY <2>1, <2>2
  <2>6. /\ SumFunctionOnSet(f, Runs) \in Nat
        /\ SumFunctionOnSet(g, Runs) = SumFunctionOnSet(f, Runs) + cost
    BY <2>4, <2>5, TotalGrows, Zenon
  <2> QED BY <2>3, <2>6
<1>4. reservedMinutes \in Nat /\ reservedMinutes' = reservedMinutes + minutes
  <2>1. PICK f : f = [x \in Runs |-> ledger[x].minutes]
    OBVIOUS
  <2>2. PICK g : g = [x \in Runs |-> ledger'[x].minutes]
    OBVIOUS
  <2>3. reservedMinutes = SumFunctionOnSet(f, Runs) /\ reservedMinutes' = SumFunctionOnSet(g, Runs)
    BY <2>1, <2>2 DEF reservedMinutes, SumFunction
  <2>4. f[r] = 0 /\ \A x \in Runs : f[x] \in Nat
    BY <1>1, <1>2, <2>1
  <2>5. g[r] = minutes /\ \A x \in Runs \ {r} : g[x] = f[x]
    BY <2>1, <2>2
  <2>6. /\ SumFunctionOnSet(f, Runs) \in Nat
        /\ SumFunctionOnSet(g, Runs) = SumFunctionOnSet(f, Runs) + minutes
    BY <2>4, <2>5, TotalGrows, Zenon
  <2> QED BY <2>3, <2>6
<1> QED BY <1>3, <1>4

(* What has settled is a sum of costs, or of minutes. *)
LEMMA SettledSum ==
  ASSUME NEW S, S \subseteq Runs, NEW f, DOMAIN f = S, \A r \in S : f[r] \in Nat
  PROVE  SumFunction(f) \in Nat
<1>1. IsFiniteSet(S)
  BY AdmissionAssumption, FS_Subset
<1>2. SumFunctionOnSet(f, S) \in Nat
  BY <1>1, SumType
<1> QED BY <1>2 DEF SumFunction

LEMMA SettledSpendType ==
  ASSUME SpendIInv, NEW from, NEW since, NEW plan
  PROVE  /\ windowSpend(SettledHistory(from), since, plan) \in Nat
         /\ minutesSince(SettledHistory(from), since) \in Nat
<1>1. PICK h : h = SettledHistory(from)
  OBVIOUS
<1>2. /\ DOMAIN h \subseteq Runs
      /\ \A r \in DOMAIN h : /\ h[r].cost \in Nat /\ h[r].planCost \in Nat
                             /\ h[r].minutes \in Nat /\ h[r].planMinutes \in Nat
  BY <1>1 DEF SettledHistory, Settlement, SpendIInv, RowPaid
<1>3. \A p : settledSince(h, since, p) \subseteq DOMAIN h /\ planSince(h, since, p) \subseteq DOMAIN h
  BY DEF settledSince, planSince
<1>4. ASSUME NEW S, S \subseteq DOMAIN h
      PROVE  /\ SumFunction([r \in S |-> h[r].cost]) \in Nat
             /\ SumFunction([r \in S |-> h[r].planCost]) \in Nat
             /\ SumFunction([r \in S |-> h[r].minutes]) \in Nat
             /\ SumFunction([r \in S |-> h[r].planMinutes]) \in Nat
  <2>1. S \subseteq Runs /\ \A r \in S : r \in DOMAIN h
    BY <1>2, <1>4
  <2>2. SumFunction([r \in S |-> h[r].cost]) \in Nat
    BY <1>2, <2>1, SettledSum
  <2>3. SumFunction([r \in S |-> h[r].planCost]) \in Nat
    BY <1>2, <2>1, SettledSum
  <2>4. SumFunction([r \in S |-> h[r].minutes]) \in Nat
    BY <1>2, <2>1, SettledSum
  <2>5. SumFunction([r \in S |-> h[r].planMinutes]) \in Nat
    BY <1>2, <2>1, SettledSum
  <2> QED BY <2>2, <2>3, <2>4, <2>5
<1>5. PICK a \in Nat, b \in Nat : /\ a = SumFunction([r \in settledSince(h, since, plan) |-> h[r].cost])
                                 /\ b = SumFunction([r \in planSince(h, since, plan) |-> h[r].planCost])
  BY <1>3, <1>4
<1>6. PICK c \in Nat, d \in Nat : /\ c = SumFunction([r \in settledSince(h, since, "any") |-> h[r].minutes])
                                 /\ d = SumFunction([r \in planSince(h, since, "any") |-> h[r].planMinutes])
  BY <1>3, <1>4
<1>7. windowSpend(h, since, plan) = a + b /\ minutesSince(h, since) = c + d
  BY <1>5, <1>6 DEF windowSpend, minutesSince
<1>8. a + b \in Nat /\ c + d \in Nat
  OBVIOUS
<1> QED BY <1>1, <1>7, <1>8

(* The windows a claim is judged on are those of a plan, or none. *)
LEMMA TierWindows ==
  ASSUME NEW c, NEW stage
  PROVE  LET ws == tierOf(c, stage).budget.windows
         IN  DOMAIN ws \subseteq Nat /\ \A i \in DOMAIN ws : ws[i].name # "fits"
<1>1. ASSUME NEW plan \in Plans
      PROVE  /\ DOMAIN budgetOf(plan).windows \subseteq Nat
             /\ \A i \in DOMAIN budgetOf(plan).windows : budgetOf(plan).windows[i].name # "fits"
  <2>1. PICK ws : ws = Windows[plan]
    OBVIOUS
  <2>2. budgetOf(plan).windows = ws
    BY <2>1 DEF budgetOf
  <2>3. ws \in Seq([name: STRING, period: Nat, limit: Nat]) /\ \A i \in DOMAIN ws : ws[i].name # "fits"
    BY <2>1, AdmissionAssumption
  <2>4. DOMAIN ws \subseteq Nat
    BY <2>3
  <2> QED BY <2>2, <2>3, <2>4
<1>2. DOMAIN lastResort.windows = {}
  BY DEF lastResort
<1>3. \/ tierOf(c, stage).budget = lastResort
      \/ \E plan \in Plans : tierOf(c, stage).budget = budgetOf(plan)
  <2>1. PlanOf[DefaultModel] \in Plans /\ PlanBudgets \subseteq Plans
    BY AdmissionAssumption DEF Plans
  <2> QED BY <2>1 DEF tierOf, defaultTier
<1> QED BY <1>1, <1>2, <1>3

(* Decide says that an estimate fits only when it breaches no ceiling. *)
overOf(minutes, settled, est) ==
  IF est.minutes > 0 THEN Max({0, minutes + settled + est.minutes - FreeMinutes}) ELSE 0
cashOf(budget, cost, settled, est) ==
  IF budget.windows = <<>> /\ ~budget.free THEN cost + settled + est.cost ELSE 0

LEMMA FitsIsWithin ==
  ASSUME NEW budget, NEW model, NEW cost, NEW minutes, NEW settled, NEW est,
         DOMAIN budget.windows \subseteq Nat, \A i \in DOMAIN budget.windows : budget.windows[i].name # "fits",
         Ceiling(budget, model, cost, minutes, settled, est) = "fits"
  PROVE  /\ \A i \in DOMAIN budget.windows :
              ~(cost + settled.windows[i] + est.cost > budget.windows[i].limit)
         /\ model \in budget.capped => ~(cost + settled.modelCap + est.cost > ModelCaps[model].limit)
         /\ ~(overOf(minutes, settled.cashMinutes, est) > 0 /\ Rate = 0)
         /\ ~(cashOf(budget, cost, settled.cashCost, est)
                 + overOf(minutes, settled.cashMinutes, est) * Rate > CashLimit)
<1> DEFINE breached == {i \in DOMAIN budget.windows :
                          cost + settled.windows[i] + est.cost > budget.windows[i].limit}
<1>1. ASSUME breached # {} PROVE FALSE
  <2>1. breached \in SUBSET Nat
    OBVIOUS
  <2>2. Ceiling(budget, model, cost, minutes, settled, est) = budget.windows[Min(breached)].name
    BY <1>1 DEF Ceiling
  <2>3. Min(breached) \in breached
    <3> HIDE DEF breached
    <3>1. \E x \in breached : \A y \in breached : x <= y
      BY <1>1, <2>1, LeastNat
    <3> QED BY <3>1 DEF Min
  <2> QED BY <2>2, <2>3
<1>2. PICK over : over = overOf(minutes, settled.cashMinutes, est)
  OBVIOUS
<1>3. PICK cash : cash = cashOf(budget, cost, settled.cashCost, est)
  OBVIOUS
<1>4. Ceiling(budget, model, cost, minutes, settled, est) =
        IF model \in budget.capped /\ cost + settled.modelCap + est.cost > ModelCaps[model].limit
        THEN "model-cap"
        ELSE IF over > 0 /\ Rate = 0 THEN "runner-minutes"
        ELSE IF cash + over * Rate > CashLimit THEN "cash" ELSE "fits"
  BY <1>1, <1>2, <1>3, Zenon DEF Ceiling, overOf, cashOf
<1>5. /\ ~(model \in budget.capped /\ cost + settled.modelCap + est.cost > ModelCaps[model].limit)
      /\ ~(over > 0 /\ Rate = 0) /\ ~(cash + over * Rate > CashLimit)
  BY <1>4
<1> QED BY <1>1, <1>2, <1>3, <1>5

(* A claim is made within the ceilings its poll sees. *)
LEMMA ClaimFits ==
  ASSUME SpendIInv, NEW k \in Pollers, NEW r \in Runs, TryClaim(k, r), ledger[r].stage = "none",
         ledger'[r].stage # "none"
  PROVE  LET c == polls[k].cands[r]
             t == tierOf(c, claimStage(c))
         IN  \E est : /\ est.cost \in Nat /\ est.minutes \in Nat
                      /\ Decide(t.budget, t.model, Sums(settledFor(k).rows, t.budget, t.model, now), est) = "fits"
                      /\ ledger'[r].cost = est.cost /\ ledger'[r].minutes = est.minutes
                      /\ \A x \in Runs \ {r} : ledger'[x] = ledger[x]
<1> DEFINE c     == polls[k].cands[r]
           stage == claimStage(c)
           t     == tierOf(c, stage)
           sums  == Sums(settledFor(k).rows, t.budget, t.model, now)
           est(e) == reservation(r, t, estimateFor(e, c.size, stage))
<1>1. PICK e \in estimatesOf(k, c.size, stage) :
        \/ UNCHANGED <<rows, ledger>>
        \/ /\ Decide(t.budget, t.model, sums, est(e)) = "fits"
           /\ ledger' = [ledger EXCEPT ![r] = [stage |-> stage, cost |-> est(e).cost,
                minutes |-> est(e).minutes, size |-> rows[r].size, files |-> c.files]]
  BY Zenon DEF TryClaim
<1>2. est(e).cost \in Nat /\ est(e).minutes \in Nat
  BY EstimatesArePaid, ReservationPaid
<1>3. PICK booked : booked = est(e)
  OBVIOUS
<1>4. booked.cost \in Nat /\ booked.minutes \in Nat
  BY <1>2, <1>3
<1>5. Shaped(ledger, Runs)
  BY DEF SpendIInv, TablesShaped
<1>6. /\ Decide(t.budget, t.model, sums, booked) = "fits"
      /\ ledger' = [ledger EXCEPT ![r] = [stage |-> stage, cost |-> booked.cost,
                minutes |-> booked.minutes, size |-> rows[r].size, files |-> c.files]]
  BY <1>1, <1>3
<1> HIDE DEF c, stage, sums, est
<1>7. /\ ledger'[r].cost = booked.cost /\ ledger'[r].minutes = booked.minutes
      /\ \A x \in Runs \ {r} : ledger'[x] = ledger[x]
  BY <1>5, <1>6 DEF Shaped
<1> QED BY <1>4, <1>6, <1>7 DEF c, stage, sums

(* Only TryClaim books a run, and only the poll that lists it. *)
LEMMA ClaimsAreTried ==
  ASSUME SpendIInv, [Next]_vars, NEW k \in Pollers, NEW r \in Runs, Claims(k, r)
  PROVE  TryClaim(k, r)
<1>1. ledger[r].stage = "none" /\ ledger'[r].stage # "none"
  BY DEF Claims, Booked
<1>2. polls'[k] # polls[k]
  BY DEF Claims, Listed
<1>3. ~(polls' = polls) /\ ~UNCHANGED ledger
  BY <1>1, <1>2
<1>4. PICK q \in Pollers, x \in Runs : TryClaim(q, x)
  <2>1. \A q, x, i, w :
          PollEnds(q) \/ ListCandidates(q, w) \/ Enqueue(q, x, i) \/ RefreshQueuedTicket(q, x, i)
            \/ RefreshRetried(q, x, i) \/ PassOver(q, x) => UNCHANGED ledger
    BY DEF PollEnds, ListCandidates, Enqueue, RefreshQueuedTicket, RefreshRetried, PassOver
  <2>2. \A x, f, s : Release(x) \/ Settle(x) \/ SettlePlan(x, f) \/ PutRecord(x, s) => polls' = polls
    BY DEF Release, Settle, SettlePlan, PutRecord
  <2>3. \A x \in Runs :
          RequeueAfterConflict(x) \/ RetryWithNote(x) \/ RequeueTransient(x) \/ Requeue(x) => polls' = polls
    BY DEF RequeueAfterConflict, RetryWithNote, RequeueTransient, Requeue, Requeued
  <2>4. Tick \/ UNCHANGED vars => UNCHANGED ledger
    BY DEF Tick, vars
  <2> QED BY <1>3, <2>1, <2>2, <2>3, <2>4 DEF Next
<1>5. PICK e, h : polls' = Walked(q, x, e, h)
  BY <1>4, TryClaimDoes
<1>6. q = k
  <2>1. \E poll : polls' = [polls EXCEPT ![q] = poll]
    BY <1>5 DEF Walked
  <2> QED BY <1>2, <2>1 DEF SpendIInv, TablesShaped, Shaped
<1>7. x = r
  <2>1. Claimed(q, x)
    BY <1>3, <1>4, TryClaimDoes
  <2>2. \E entry : ledger' = [ledger EXCEPT ![x] = entry]
    BY <2>1 DEF Claimed
  <2> QED BY <1>1, <2>2 DEF SpendIInv, TablesShaped, Shaped
<1> QED BY <1>4, <1>6, <1>7

(* What a poll with a fresh history saw is what there is, so what fitted   *)
(* then passes nothing once it is booked.                                  *)
LEMMA OvershootStep ==
  ASSUME SpendIInv, [Next]_vars, NEW k \in Pollers, NEW r \in Runs, Claims(k, r), Overshoots(k, r)
  PROVE  Stale(k)
<1> SUFFICES ASSUME ~Stale(k) PROVE FALSE
  OBVIOUS
<1>1. PICK t : t = tierOf(polls[k].cands[r], claimStage(polls[k].cands[r]))
  OBVIOUS
<1>2. PICK past : past = SettledHistory(historySince(now))
  OBVIOUS
<1>3. PICK sums : sums = Sums(past, t.budget, t.model, now)
  OBVIOUS
<1>4. TryClaim(k, r) /\ ledger[r].stage = "none" /\ ledger'[r].stage # "none"
  BY ClaimsAreTried DEF Claims, Booked
<1>5. settledFor(k).rows = past
  BY <1>2 DEF Stale, settledFor
<1>6. PICK est : /\ est.cost \in Nat /\ est.minutes \in Nat
                 /\ Decide(t.budget, t.model, sums, est) = "fits"
                 /\ ledger'[r].cost = est.cost /\ ledger'[r].minutes = est.minutes
                 /\ \A x \in Runs \ {r} : ledger'[x] = ledger[x]
  BY <1>1, <1>3, <1>4, <1>5, ClaimFits, Zenon
<1>7. PICK cost \in Nat, minutes \in Nat, ec \in Nat, em \in Nat :
        /\ cost = reservedCost /\ minutes = reservedMinutes /\ ec = est.cost /\ em = est.minutes
        /\ reservedCost' = cost + ec /\ reservedMinutes' = minutes + em
  <2>1. /\ reservedCost \in Nat /\ reservedCost' = reservedCost + est.cost
        /\ reservedMinutes \in Nat /\ reservedMinutes' = reservedMinutes + est.minutes
    BY <1>4, <1>6, ReservedGrows, Zenon
  <2> QED BY <1>6, <2>1
<1>8. DOMAIN t.budget.windows \subseteq Nat /\ \A i \in DOMAIN t.budget.windows : t.budget.windows[i].name # "fits"
  BY <1>1, TierWindows
<1>9. /\ \A i \in DOMAIN t.budget.windows : ~(cost + sums.windows[i] + ec > t.budget.windows[i].limit)
      /\ t.model \in t.budget.capped => ~(cost + sums.modelCap + ec > ModelCaps[t.model].limit)
      /\ ~(overOf(minutes, sums.cashMinutes, est) > 0 /\ Rate = 0)
      /\ ~(cashOf(t.budget, cost, sums.cashCost, est)
              + overOf(minutes, sums.cashMinutes, est) * Rate > CashLimit)
  BY <1>6, <1>7, <1>8, FitsIsWithin DEF Decide
<1> DEFINE month == MonthStart(now)
           spent(period) == windowSpend(past, Since(period, now), PlanOf[t.model])
           over  == IF ledger'[r].minutes > 0
                    THEN Max({0, reservedMinutes' + minutesSince(past, month) - FreeMinutes}) ELSE 0
           cash  == IF t.budget.windows = <<>> /\ ~t.budget.free
                    THEN reservedCost' + windowSpend(past, month, "any") ELSE 0
<1>10. /\ \A i \in DOMAIN t.budget.windows : sums.windows[i] = spent(t.budget.windows[i].period)
       /\ t.model \in t.budget.capped => sums.modelCap = spent(ModelCaps[t.model].period)
       /\ sums.cashCost = windowSpend(past, month, "any") /\ sums.cashMinutes = minutesSince(past, month)
  BY <1>3 DEF Sums
<1>11. \A s \in Nat : cost + s + ec = reservedCost' + s /\ minutes + s + em = reservedMinutes' + s
  BY <1>7
<1>12. /\ \A period : spent(period) \in Nat
       /\ windowSpend(past, month, "any") \in Nat /\ minutesSince(past, month) \in Nat
  BY <1>2, SettledSpendType
<1>13. over = overOf(minutes, sums.cashMinutes, est)
  <2>1. ledger'[r].minutes = est.minutes /\ est.minutes = em
    BY <1>6, <1>7
  <2>2. PICK s \in Nat, free \in Nat : s = sums.cashMinutes /\ s = minutesSince(past, month) /\ free = FreeMinutes
    BY <1>10, <1>12, AdmissionAssumption
  <2>3. minutes + s + em - free = (minutes + em) + s - free
    OBVIOUS
  <2>4. minutes + sums.cashMinutes + est.minutes - FreeMinutes = reservedMinutes' + minutesSince(past, month) - FreeMinutes
    BY <1>7, <2>2, <2>3, Zenon
  <2>5. over = IF est.minutes > 0 THEN Max({0, reservedMinutes' + minutesSince(past, month) - FreeMinutes}) ELSE 0
    BY <2>1
  <2> HIDE DEF over
  <2> QED BY <2>4, <2>5, Zenon DEF overOf
<1>14. cash = cashOf(t.budget, cost, sums.cashCost, est)
  <2>1. cost + sums.cashCost + est.cost = reservedCost' + windowSpend(past, month, "any")
    BY <1>7, <1>10, <1>11, <1>12
  <2> QED BY <2>1 DEF cashOf
<1>15. \/ \E i \in DOMAIN t.budget.windows :
              reservedCost' + spent(t.budget.windows[i].period) > t.budget.windows[i].limit
       \/ t.model \in t.budget.capped /\ reservedCost' + spent(ModelCaps[t.model].period) > ModelCaps[t.model].limit
       \/ over > 0 /\ Rate = 0
       \/ cash + over * Rate > CashLimit
  BY <1>1, <1>2, Zenon DEF Overshoots
<1> HIDE DEF spent, over, cash, month
<1>16. CASE \E i \in DOMAIN t.budget.windows :
              reservedCost' + spent(t.budget.windows[i].period) > t.budget.windows[i].limit
  <2>1. PICK i \in DOMAIN t.budget.windows :
          reservedCost' + spent(t.budget.windows[i].period) > t.budget.windows[i].limit
    BY <1>16
  <2>2. cost + sums.windows[i] + ec = reservedCost' + spent(t.budget.windows[i].period)
    BY <1>10, <1>11, <1>12
  <2> QED BY <1>9, <2>1, <2>2
<1>17. CASE t.model \in t.budget.capped /\ reservedCost' + spent(ModelCaps[t.model].period) > ModelCaps[t.model].limit
  <2>1. cost + sums.modelCap + ec = reservedCost' + spent(ModelCaps[t.model].period)
    BY <1>10, <1>11, <1>12, <1>17
  <2> QED BY <1>9, <1>17, <2>1
<1>18. CASE (over > 0 /\ Rate = 0) \/ cash + over * Rate > CashLimit
  BY <1>9, <1>13, <1>14, <1>18
<1> QED BY <1>15, <1>16, <1>17, <1>18

(* A claim that takes a ceiling past its limit, be it a window of its      *)
(* plan, the cap of its model, or the cash a plan without windows and the  *)
(* private minutes cost, counting what is booked and what has settled by   *)
(* now, is one whose poll read its history before some of that settled,    *)
(* however many polls and runs there are (TryClaim, Decide, settledFor).   *)
THEOREM OvershootsAreUnseen == Spec => OvershootIsUnseen
<1> DEFINE Unseen == \A p \in Pollers, r \in Runs : Claims(p, r) /\ Overshoots(p, r) => Stale(p)
<1>1. SpendIInv /\ [Next]_vars => Unseen
  BY OvershootStep, Zenon
<1> HIDE DEF Unseen
<1>2. SpendIInv /\ [Next]_vars => [Unseen]_vars
  BY <1>1
<1>3. Spec => [][Unseen]_vars
  BY <1>2, SpendAlways, PTL DEF Spec
<1> QED BY <1>3 DEF OvershootIsUnseen, Unseen

-----------------------------------------------------------------------------
(* The caps and the slots *)

(* What a step that claims nothing does to run r: its entry stays or is    *)
(* dropped, and only with the drop may its next attempt begin.             *)
Moves(r) ==
  \E row, entry :
    /\ rows' = [rows EXCEPT ![r] = row] /\ ledger' = [ledger EXCEPT ![r] = entry]
    /\ entry \in {ledger[r], NoEntry}
    /\ row = rows[r] \/ row.state # "absent"
    /\ \/ row.attempt = rows[r].attempt
       \/ row.attempt = rows[r].attempt + 1 /\ entry = NoEntry

(* A ticket nobody has admitted is on its first attempt. *)
AbsentIsNew == \A r \in Runs : rows[r].state = "absent" => rows[r].attempt = 0

LEMMA MovesOf ==
  ASSUME NEW r \in Runs, NEW row, NEW entry,
         rows' = [rows EXCEPT ![r] = row], ledger' = [ledger EXCEPT ![r] = entry],
         entry \in {ledger[r], NoEntry}, row = rows[r] \/ row.state # "absent",
         \/ row.attempt = rows[r].attempt
         \/ row.attempt = rows[r].attempt + 1 /\ entry = NoEntry
  PROVE  Moves(r)
BY DEF Moves

LEMMA PollMoves ==
  ASSUME SpendIInv, AbsentIsNew, NEW k \in Pollers, NEW r \in Runs, NEW i,
         Enqueue(k, r, i) \/ RefreshQueuedTicket(k, r, i) \/ RefreshRetried(k, r, i)
  PROVE  Moves(r)
<1>0. ledger' = [ledger EXCEPT ![r] = ledger[r]] /\ rows = [rows EXCEPT ![r] = rows[r]]
  BY RowFacts DEF Enqueue, RefreshQueuedTicket, RefreshRetried
<1>1. CASE Enqueue(k, r, i)
  <2> DEFINE row == [NoRow EXCEPT !.state = "queued", !.size = i.size, !.labels = i.labels]
  <2>1. rows' = [rows EXCEPT ![r] = row] \/ rows' = rows
    BY <1>1 DEF Enqueue
  <2>2. row.state = "queued" /\ row.attempt = 0
    BY DEF NoRow
  <2>3. rows[r].attempt = 0
    BY <1>1 DEF Enqueue, AbsentIsNew
  <2> HIDE DEF row
  <2> QED BY <1>0, <2>1, <2>2, <2>3, MovesOf
<1>2. CASE RefreshQueuedTicket(k, r, i)
  <2> DEFINE row == [rows[r] EXCEPT !.size = i.size]
  <2>1. rows' = [rows EXCEPT ![r] = row] /\ rows[r].state = "queued"
    BY <1>2 DEF RefreshQueuedTicket, takesSize
  <2>2. row.state = rows[r].state /\ row.attempt = rows[r].attempt
    BY ShapedRow DEF Shaped, RowFields
  <2> HIDE DEF row
  <2> QED BY <1>0, <2>1, <2>2, MovesOf
<1>3. CASE RefreshRetried(k, r, i)
  <2> DEFINE row   == [rows[r] EXCEPT !.size = refreshedSize(rows[r], i)]
             taken == [row EXCEPT !.labels = i.labels]
             ends  == [row EXCEPT !.state = "stopped", !.ended = TRUE]
  <2>1. rows[r].state \in CandidateStates /\ \E s \in {row, taken, ends} : rows' = [rows EXCEPT ![r] = s]
    BY <1>3 DEF RefreshRetried, RetryAwaitingClaim
  <2>2. Shaped(row, RowFields) /\ row.state = rows[r].state /\ row.attempt = rows[r].attempt
    BY ShapedRow DEF Shaped, RowFields
  <2> HIDE DEF row
  <2>3. /\ taken.state = rows[r].state /\ taken.attempt = rows[r].attempt
        /\ ends.state = "stopped" /\ ends.attempt = rows[r].attempt
    BY <2>2 DEF Shaped, RowFields
  <2> HIDE DEF taken, ends
  <2>4. \A s \in {row, taken, ends} : s.state # "absent" /\ s.attempt = rows[r].attempt
    BY <2>1, <2>2, <2>3 DEF CandidateStates
  <2> QED BY <1>0, <2>1, <2>4, MovesOf
<1> QED BY <1>1, <1>2, <1>3

LEMMA JobMoves ==
  ASSUME SpendIInv, NEW r \in Runs, NEW f, NEW s,
         Release(r) \/ Settle(r) \/ SettlePlan(r, f) \/ PutRecord(r, s)
  PROVE  Moves(r)
<1>1. CASE Release(r)
  <2>1. PICK state \in CandidateStates : rows' = [rows EXCEPT ![r] = [rows[r] EXCEPT !.state = state]]
    BY <1>1 DEF Release, CandidateStates
  <2> DEFINE row == [rows[r] EXCEPT !.state = state]
  <2>2. row.state # "absent" /\ row.attempt = rows[r].attempt
    BY <2>1, ShapedRow DEF Shaped, RowFields, CandidateStates
  <2>3. rows' = [rows EXCEPT ![r] = row] /\ ledger' = [ledger EXCEPT ![r] = NoEntry]
    BY <1>1, <2>1 DEF Release
  <2> HIDE DEF row
  <2> QED BY <2>2, <2>3, MovesOf
<1>2. CASE Settle(r)
  <2>1. rows' = [rows EXCEPT ![r] = rows[r]] /\ ledger' = [ledger EXCEPT ![r] = NoEntry]
    BY <1>2, RowFacts DEF Settle
  <2> QED BY <2>1, MovesOf
<1>3. CASE SettlePlan(r, f)
  <2> DEFINE row == [rows[r] EXCEPT !.state = "planned", !.files = f, !.planAt = now,
                                    !.planCost = rows[r].planCost + ledger[r].cost,
                                    !.planMinutes = rows[r].planMinutes + ledger[r].minutes]
  <2>1. rows' = [rows EXCEPT ![r] = row] /\ ledger' = [ledger EXCEPT ![r] = NoEntry]
    BY <1>3 DEF SettlePlan
  <2>2. row.state = "planned" /\ row.attempt = rows[r].attempt
    BY ShapedRow DEF Shaped, RowFields
  <2> HIDE DEF row
  <2> QED BY <2>1, <2>2, MovesOf
<1>4. CASE PutRecord(r, s)
  <2> DEFINE row == settlement(rows[r], s, r \in Private)
  <2>1. rows' = [rows EXCEPT ![r] = row] /\ ledger' = [ledger EXCEPT ![r] = ledger[r]]
        /\ rows[r].state = "claimed"
    BY <1>4, RowFacts DEF PutRecord, InFlight
  <2>2. row.state = rows[r].state /\ row.attempt = rows[r].attempt
    BY ShapedRow DEF Shaped, RowFields, settlement
  <2> HIDE DEF row
  <2> QED BY <2>1, <2>2, MovesOf
<1> QED BY <1>1, <1>2, <1>3, <1>4

LEMMA RequeueMoves ==
  ASSUME SpendIInv, NEW r \in Runs,
         RequeueAfterConflict(r) \/ RetryWithNote(r) \/ RequeueTransient(r) \/ Requeue(r)
  PROVE  Moves(r)
<1> DEFINE over == supersedeUpdates(rows[r])
           back == requeueState(rows[r])
<1>1. /\ Shaped(rows[r], RowFields)
      /\ Shaped(over, RowFields) /\ over.attempt = rows[r].attempt
  BY ShapedRow DEF Shaped, RowFields, supersedeUpdates
<1>2. back \in CandidateStates
  BY DEF requeueState, CandidateStates
<1> HIDE DEF over, back
<1>3. PICK row : /\ Requeued(r, row)
                 /\ \/ row = [over EXCEPT !.state = "queued"]
                    \/ row = [over EXCEPT !.state = "queued", !.retried = TRUE]
                    \/ row = [rows[r] EXCEPT !.state = back]
                    \/ row = [rows[r] EXCEPT !.state = back, !.retried = FALSE]
  BY DEF RequeueAfterConflict, RetryWithNote, RequeueTransient, Requeue, over, back
<1>4. Shaped(row, RowFields) /\ row.state \in CandidateStates /\ row.attempt = rows[r].attempt
  <2>1. CASE row = [over EXCEPT !.state = "queued"]
    BY <2>1, <1>1 DEF Shaped, RowFields, CandidateStates
  <2>2. CASE row = [over EXCEPT !.state = "queued", !.retried = TRUE]
    BY <2>2, <1>1 DEF Shaped, RowFields, CandidateStates
  <2>3. CASE row = [rows[r] EXCEPT !.state = back]
    BY <2>3, <1>1, <1>2 DEF Shaped, RowFields
  <2>4. CASE row = [rows[r] EXCEPT !.state = back, !.retried = FALSE]
    BY <2>4, <1>1, <1>2 DEF Shaped, RowFields
  <2> QED BY <1>3, <2>1, <2>2, <2>3, <2>4
<1> DEFINE next == [row EXCEPT !.ended = FALSE, !.attempt = row.attempt + 1]
<1>5. rows' = [rows EXCEPT ![r] = next] /\ ledger' = [ledger EXCEPT ![r] = NoEntry]
  BY <1>3 DEF Requeued
<1>6. next.state # "absent" /\ next.attempt = rows[r].attempt + 1
  BY <1>4 DEF Shaped, RowFields, CandidateStates
<1> HIDE DEF next
<1> QED BY <1>5, <1>6, MovesOf

(* Every step moves one run, is a claim, or leaves rows and ledger alone. *)
LEMMA StepsMoveOneRun ==
  ASSUME SpendIInv, AbsentIsNew, [Next]_vars
  PROVE  \/ \E r \in Runs : Moves(r) \/ \E k \in Pollers : Claimed(k, r)
         \/ UNCHANGED <<rows, ledger>>
<1>1. ASSUME NEW k \in Pollers, NEW r \in Runs, TryClaim(k, r)
      PROVE  Claimed(k, r) \/ UNCHANGED <<rows, ledger>>
  BY <1>1, TryClaimDoes
<1>2. ASSUME NEW k \in Pollers, NEW w \in World, PollEnds(k) \/ ListCandidates(k, w)
      PROVE  UNCHANGED <<rows, ledger>>
  BY <1>2 DEF PollEnds, ListCandidates
<1>3. ASSUME NEW k \in Pollers, NEW r \in Runs, PassOver(k, r)
      PROVE  UNCHANGED <<rows, ledger>>
  BY <1>3 DEF PassOver
<1>4. CASE Tick \/ UNCHANGED vars
  BY <1>4 DEF Tick, vars
<1>5. ASSUME NEW k \in Pollers, PollEnds(k) PROVE UNCHANGED <<rows, ledger>>
  BY <1>5 DEF PollEnds
<1> QED BY <1>1, <1>2, <1>3, <1>4, <1>5, PollMoves, JobMoves, RequeueMoves DEF Next

(* What a step does to the tables, run by run. *)
LEMMA MovedTables ==
  ASSUME SpendIInv, NEW r \in Runs, Moves(r)
  PROVE  /\ \A x \in Runs \ {r} : rows'[x] = rows[x] /\ ledger'[x] = ledger[x]
         /\ ledger'[r] \in {ledger[r], NoEntry}
         /\ rows'[r] = rows[r] \/ rows'[r].state # "absent"
         /\ \/ rows'[r].attempt = rows[r].attempt
            \/ rows'[r].attempt = rows[r].attempt + 1 /\ ledger'[r] = NoEntry
BY DEF Moves, SpendIInv, TablesShaped, Shaped

LEMMA ClaimedTables ==
  ASSUME SpendIInv, NEW k \in Pollers, NEW r \in Runs, Claimed(k, r)
  PROVE  /\ \A x \in Runs \ {r} : rows'[x] = rows[x] /\ ledger'[x] = ledger[x]
         /\ r \notin Booked /\ ledger'[r].stage # "none" /\ ledger'[r].size = rows[r].size
         /\ rows'[r].state = "claimed" /\ rows'[r].attempt = rows[r].attempt
         /\ \E c, model, w : c.size = rows[r].size /\ HeldBeforeBudget(r, c, model, w) = "none"
<1>1. PICK stage, cost, minutes, model, plan :
       /\ cost \in Nat /\ minutes \in Nat /\ stage # "none"
       /\ HeldBeforeBudget(r, [stage |-> stage, size |-> rows[r].size, files |-> rows[r].files],
                           model, polls[k].world) = "none"
       /\ ledger' = [ledger EXCEPT ![r] = [stage |-> stage, cost |-> cost, minutes |-> minutes,
                                           size |-> rows[r].size, files |-> polls[k].cands[r].files]]
       /\ rows' = [rows EXCEPT ![r] = [rows[r] EXCEPT !.state = "claimed", !.plan = plan]]
  BY Zenon DEF Claimed
<1>2. PICK row : row = [rows[r] EXCEPT !.state = "claimed", !.plan = plan]
  OBVIOUS
<1>3. row.state = "claimed" /\ row.attempt = rows[r].attempt
  BY <1>2, ShapedRow DEF Shaped, RowFields
<1>4. \A x \in Runs : rows'[x] = IF x = r THEN row ELSE rows[x]
  BY <1>1, <1>2 DEF SpendIInv, TablesShaped, Shaped
<1>5. PICK entry : entry = [stage |-> stage, cost |-> cost, minutes |-> minutes,
                            size |-> rows[r].size, files |-> polls[k].cands[r].files]
  OBVIOUS
<1>6. \A x \in Runs : ledger'[x] = IF x = r THEN entry ELSE ledger[x]
  BY <1>1, <1>5 DEF SpendIInv, TablesShaped, Shaped
<1>7. r \notin Booked
  BY DEF Claimed, CandidateStates, SpendIInv, BookedIsClaimed, Booked
<1>8. PICK c : c = [stage |-> stage, size |-> rows[r].size, files |-> rows[r].files]
  OBVIOUS
<1>9. c.size = rows[r].size /\ HeldBeforeBudget(r, c, model, polls[k].world) = "none"
  BY <1>1, <1>8
<1> QED BY <1>1, <1>3, <1>4, <1>5, <1>6, <1>7, <1>9

LEMMA RunsAtOnceIs ==
  /\ RunsAtOnce \in Nat
  /\ \A n \in Nat : n < PlatformCap /\ n < Max({N, 1}) => n < RunsAtOnce
<1>1. PlatformCap \in Nat /\ N \in Nat
  BY AdmissionAssumption
<1>2. PICK m \in Nat : m = Max({N, 1})
  BY <1>1 DEF Max
<1>3. RunsAtOnce = IF PlatformCap <= m THEN PlatformCap ELSE m
  BY <1>1, <1>2 DEF RunsAtOnce, Min
<1> QED BY <1>1, <1>2, <1>3

(* What the conditions count, by set: what is booked, of a size, of a      *)
(* repository.                                                             *)
BookedLarge    == {x \in Booked : ledger[x].size = "L"}
BookedIn(repo) == {x \in Booked : Repo[x] = repo}

LEMMA BookedFinite ==
  /\ Booked \subseteq Runs /\ IsFiniteSet(Booked) /\ IsFiniteSet(BookedLarge)
  /\ \A repo : IsFiniteSet(BookedIn(repo))
  /\ Cardinality(Booked) \in Nat
<1>1. Booked \subseteq Runs /\ BookedLarge \subseteq Runs /\ \A repo : BookedIn(repo) \subseteq Runs
  BY DEF Booked, BookedLarge, BookedIn
<1> QED BY <1>1, FS_Subset, FS_CardinalityType, AdmissionAssumption

LEMMA HeldBelowCaps ==
  ASSUME NEW r \in Runs, NEW c, NEW model, NEW w, HeldBeforeBudget(r, c, model, w) = "none"
  PROVE  /\ Cardinality(Booked) < RunsAtOnce
         /\ c.size = "L" => ~(countSize("L") >= LargeCap)
         /\ ~(inFlightInRepo(Repo[r]) >= RepoCap)
<1>1. /\ ~(Cardinality(Booked) >= PlatformCap) /\ ~(Cardinality(Booked) >= Max({N, 1}))
      /\ c.size = "L" => ~(countSize("L") >= LargeCap)
      /\ ~(inFlightInRepo(Repo[r]) >= RepoCap)
  BY DEF HeldBeforeBudget
<1>2. PlatformCap \in Nat /\ N \in Nat
  BY AdmissionAssumption
<1>3. Max({N, 1}) \in Nat
  BY <1>2 DEF Max
<1>4. PICK n \in Nat : n = Cardinality(Booked)
  BY BookedFinite
<1>5. n < PlatformCap /\ n < Max({N, 1})
  BY <1>1, <1>2, <1>3, <1>4
<1> QED BY <1>1, <1>4, <1>5, RunsAtOnceIs

(* A set that loses members, or gains one below its cap, stays within it. *)
LEMMA StaysWithin ==
  ASSUME NEW S, NEW T, NEW x, NEW cap \in Nat, IsFiniteSet(S), Cardinality(S) <= cap,
         T \subseteq S \/ (T \subseteq S \cup {x} /\ ~(Cardinality(S) >= cap))
  PROVE  Cardinality(T) <= cap
<1>1. /\ IsFiniteSet(S \cup {x}) /\ Cardinality(S) \in Nat
      /\ Cardinality(S \cup {x}) <= Cardinality(S) + 1 /\ Cardinality(S \cup {x}) \in Nat
  BY FS_AddElement, FS_CardinalityType
<1>2. CASE T \subseteq S
  <2>1. IsFiniteSet(T) /\ Cardinality(T) <= Cardinality(S)
    BY <1>2, FS_Subset
  <2>2. Cardinality(T) \in Nat
    BY <2>1, FS_CardinalityType
  <2> QED BY <1>1, <2>1, <2>2
<1>3. CASE T \subseteq S \cup {x} /\ ~(Cardinality(S) >= cap)
  <2>1. IsFiniteSet(T) /\ Cardinality(T) <= Cardinality(S \cup {x})
    BY <1>1, <1>3, FS_Subset
  <2>2. Cardinality(T) \in Nat
    BY <2>1, FS_CardinalityType
  <2> QED BY <1>1, <1>3, <2>1, <2>2
<1> QED BY <1>2, <1>3

LEMMA CapsBySet ==
  CapsHold <=> /\ Cardinality(Booked) <= RunsAtOnce /\ Cardinality(BookedLarge) <= LargeCap
               /\ \A repo \in {Repo[x] : x \in Runs} : Cardinality(BookedIn(repo)) <= RepoCap
BY DEF CapsHold, countSize, inFlightInRepo, BookedLarge, BookedIn

LEMMA CapsStep ==
  ASSUME SpendIInv, AbsentIsNew, CapsHold, [Next]_vars
  PROVE  CapsHold' /\ AbsentIsNew'
<1>0. /\ IsFiniteSet(Booked) /\ IsFiniteSet(BookedLarge) /\ \A repo : IsFiniteSet(BookedIn(repo))
      /\ RunsAtOnce \in Nat /\ LargeCap \in Nat /\ RepoCap \in Nat
  BY BookedFinite, RunsAtOnceIs, AdmissionAssumption
<1>3. /\ Cardinality(Booked) <= RunsAtOnce /\ Cardinality(BookedLarge) <= LargeCap
      /\ \A repo \in {Repo[x] : x \in Runs} : Cardinality(BookedIn(repo)) <= RepoCap
  BY CapsBySet
<1>1. ASSUME NEW r \in Runs, Moves(r) PROVE CapsHold' /\ AbsentIsNew'
  <2>1. \A x \in Runs : ledger'[x] \in {ledger[x], NoEntry}
    BY <1>1, MovedTables
  <2>2. Booked' \subseteq Booked /\ BookedLarge' \subseteq BookedLarge
    BY <2>1 DEF Booked, BookedLarge, NoEntry
  <2>3. \A repo : BookedIn(repo)' \subseteq BookedIn(repo)
    BY <2>2 DEF BookedIn
  <2>6. Cardinality(Booked') <= RunsAtOnce
    BY <1>0, <1>3, <2>2, StaysWithin
  <2>7. Cardinality(BookedLarge') <= LargeCap
    BY <1>0, <1>3, <2>2, StaysWithin
  <2>8. ASSUME NEW repo \in {Repo[x] : x \in Runs} PROVE Cardinality(BookedIn(repo)') <= RepoCap
    BY <1>0, <1>3, <2>3, StaysWithin
  <2>4. CapsHold'
    BY <2>6, <2>7, <2>8 DEF CapsHold, countSize, inFlightInRepo, BookedLarge, BookedIn
  <2>5. AbsentIsNew'
    BY <1>1, MovedTables DEF AbsentIsNew
  <2> QED BY <2>4, <2>5
<1>2. ASSUME NEW k \in Pollers, NEW r \in Runs, Claimed(k, r) PROVE CapsHold' /\ AbsentIsNew'
  <2>1. /\ \A x \in Runs \ {r} : rows'[x] = rows[x] /\ ledger'[x] = ledger[x]
        /\ ledger'[r].size = rows[r].size /\ rows'[r].state = "claimed"
    BY <1>2, ClaimedTables
  <2>2. PICK c, model, w : c.size = rows[r].size /\ HeldBeforeBudget(r, c, model, w) = "none"
    BY <1>2, ClaimedTables
  <2>3. /\ Cardinality(Booked) < RunsAtOnce /\ ~(Cardinality(Booked) >= RunsAtOnce)
        /\ rows[r].size = "L" => ~(Cardinality(BookedLarge) >= LargeCap)
        /\ ~(Cardinality(BookedIn(Repo[r])) >= RepoCap)
    <3>1. /\ Cardinality(Booked) < RunsAtOnce
          /\ c.size = "L" => ~(countSize("L") >= LargeCap)
          /\ ~(inFlightInRepo(Repo[r]) >= RepoCap)
      BY <2>2, HeldBelowCaps
    <3>2. countSize("L") = Cardinality(BookedLarge) /\ inFlightInRepo(Repo[r]) = Cardinality(BookedIn(Repo[r]))
      BY DEF countSize, inFlightInRepo, BookedLarge, BookedIn
    <3> QED BY <1>0, <2>2, <3>1, <3>2, BookedFinite
  <2>4. Booked' \subseteq Booked \cup {r}
    BY <2>1 DEF Booked
  <2>5. BookedLarge' \subseteq BookedLarge \/ (rows[r].size = "L" /\ BookedLarge' \subseteq BookedLarge \cup {r})
    <3>1. ASSUME NEW x, x \in BookedLarge', x # r PROVE x \in BookedLarge
      BY <2>1, <3>1 DEF BookedLarge, Booked
    <3>2. r \in BookedLarge' => rows[r].size = "L"
      BY <2>1 DEF BookedLarge
    <3> QED BY <3>1, <3>2
  <2>6. \A repo : IF repo = Repo[r] THEN BookedIn(repo)' \subseteq BookedIn(repo) \cup {r}
                                    ELSE BookedIn(repo)' \subseteq BookedIn(repo)
    BY <2>4 DEF BookedIn
  <2>7. Cardinality(Booked') <= RunsAtOnce
    BY <1>0, <1>3, <2>3, <2>4, StaysWithin
  <2>8. Cardinality(BookedLarge') <= LargeCap
    BY <1>0, <1>3, <2>3, <2>5, StaysWithin
  <2>9. ASSUME NEW repo \in {Repo[x] : x \in Runs} PROVE Cardinality(BookedIn(repo)') <= RepoCap
    <3>1. CASE repo = Repo[r]
      BY <1>0, <1>3, <2>3, <2>6, <3>1, StaysWithin
    <3>2. CASE repo # Repo[r]
      BY <1>0, <1>3, <2>6, <3>2, StaysWithin
    <3> QED BY <3>1, <3>2
  <2>10. CapsHold'
    BY <2>7, <2>8, <2>9 DEF CapsHold, countSize, inFlightInRepo, BookedLarge, BookedIn
  <2>11. AbsentIsNew'
    BY <2>1 DEF AbsentIsNew
  <2> QED BY <2>10, <2>11
<1>4. ASSUME UNCHANGED <<rows, ledger>> PROVE CapsHold' /\ AbsentIsNew'
  BY <1>4 DEF CapsHold, AbsentIsNew, Booked, countSize, inFlightInRepo
<1> QED BY <1>1, <1>2, <1>4, StepsMoveOneRun

LEMMA InitCaps == Init => CapsHold /\ AbsentIsNew
<1> SUFFICES ASSUME Init PROVE CapsHold /\ AbsentIsNew
  OBVIOUS
<1>1. \A r \in Runs : ledger[r].stage = "none" /\ rows[r].attempt = 0
  BY DEF Init, NoEntry, NoRow
<1>2. Booked = {} /\ BookedLarge = {} /\ \A repo : BookedIn(repo) = {}
  BY <1>1 DEF Booked, BookedLarge, BookedIn
<1>3. Cardinality({}) = 0
  BY FS_EmptySet
<1>4. RunsAtOnce \in Nat /\ LargeCap \in Nat /\ RepoCap \in Nat
  BY RunsAtOnceIs, AdmissionAssumption
<1>5. CapsHold
  BY <1>2, <1>3, <1>4 DEF CapsHold, countSize, inFlightInRepo, BookedLarge, BookedIn
<1> QED BY <1>1, <1>5 DEF AbsentIsNew

LEMMA CapsAlways == Spec => [](CapsHold /\ AbsentIsNew)
<1>1. SpendIInv /\ CapsHold /\ AbsentIsNew /\ [Next]_vars => (CapsHold /\ AbsentIsNew)'
  BY CapsStep
<1> QED BY <1>1, InitCaps, SpendAlways, PTL DEF Spec

(* No claim passes the caps on runs at once, on large tickets or on a      *)
(* repository's runs, whatever polls overlap, sizes change and runs are    *)
(* put back (Admit's conditions in TryClaim's transaction).                *)
THEOREM ClaimsAreCapped == Spec => []CapsHold
BY CapsAlways, PTL

(* Admission implements the pool of slots the queue implements: a step     *)
(* takes one slot below the limit, gives one back, begins an attempt       *)
(* without one, or moves none (TryClaim, Settle, Release, Requeued).       *)
THEOREM ClaimsAreSlots == Spec => OneSlotPerClaim
<1>1. ASSUME Init PROVE Slots!Init
  <2>1. \A r \in Runs : ledger[r].stage = "none" /\ rows[r].attempt = 0
    BY <1>1 DEF Init, NoEntry, NoRow
  <2> QED BY <2>1 DEF Slots!Init, Booked
<1>2. ASSUME SpendIInv, AbsentIsNew, [Next]_vars PROVE [Slots!Next]_(Slots!slotVars)
  <2>1. ASSUME NEW r \in Runs, Moves(r) PROVE [Slots!Next]_(Slots!slotVars)
    <3>1. /\ \A x \in Runs \ {r} : rows'[x].attempt = rows[x].attempt /\ ledger'[x] = ledger[x]
          /\ ledger'[r] \in {ledger[r], NoEntry}
          /\ \/ rows'[r].attempt = rows[r].attempt
             \/ rows'[r].attempt = rows[r].attempt + 1 /\ ledger'[r] = NoEntry
      BY <1>2, <2>1, MovedTables
    <3>2. Booked' = Booked \/ Booked' = Booked \ {r}
      <4>1. CASE ledger'[r] = ledger[r]
        BY <3>1, <4>1 DEF Booked
      <4>2. CASE ledger'[r] = NoEntry
        BY <3>1, <4>2 DEF Booked, NoEntry
      <4> QED BY <3>1, <4>1, <4>2
    <3>3. CASE rows'[r].attempt = rows[r].attempt /\ Booked' = Booked
      BY <3>1, <3>3 DEF Slots!slotVars
    <3>4. CASE rows'[r].attempt = rows[r].attempt /\ r \in Booked /\ Booked' = Booked \ {r}
      <4>1. Slots!GiveBack(r)
        BY <3>1, <3>4 DEF Slots!GiveBack
      <4> QED BY <4>1 DEF Slots!Next
    <3>5. CASE rows'[r].attempt = rows[r].attempt + 1 /\ ledger'[r] = NoEntry
      <4>1. Booked' = Booked \ {r}
        BY <3>1, <3>5 DEF Booked, NoEntry
      <4>2. [x \in Runs |-> rows'[x].attempt]
              = [[x \in Runs |-> rows[x].attempt] EXCEPT ![r] = @ + 1]
        BY <3>1, <3>5
      <4>3. Slots!NextAttempt(r)
        BY <4>1, <4>2 DEF Slots!NextAttempt
      <4> QED BY <4>3 DEF Slots!Next
    <3> QED BY <3>1, <3>2, <3>3, <3>4, <3>5
  <2>2. ASSUME NEW k \in Pollers, NEW r \in Runs, Claimed(k, r) PROVE [Slots!Next]_(Slots!slotVars)
    <3>1. /\ \A x \in Runs : rows'[x].attempt = rows[x].attempt
          /\ \A x \in Runs \ {r} : ledger'[x] = ledger[x]
          /\ r \notin Booked /\ ledger'[r].stage # "none"
          /\ \E c, model, w : HeldBeforeBudget(r, c, model, w) = "none"
      BY <1>2, <2>2, ClaimedTables
    <3>2. Booked' = Booked \cup {r}
      BY <3>1 DEF Booked
    <3>3. Cardinality(Booked) < RunsAtOnce
      BY <3>1, HeldBelowCaps
    <3>4. Slots!Cardinality(Booked) = Cardinality(Booked)
      BY DEF Slots!Cardinality, Cardinality
    <3>5. Slots!Take(r)
      BY <3>1, <3>2, <3>3, <3>4 DEF Slots!Take
    <3> QED BY <3>5 DEF Slots!Next
  <2>3. ASSUME UNCHANGED <<rows, ledger>> PROVE UNCHANGED Slots!slotVars
    BY <2>3 DEF Slots!slotVars, Booked
  <2> QED BY <1>2, <2>1, <2>2, <2>3, StepsMoveOneRun
<1> QED BY <1>1, <1>2, SpendAlways, CapsAlways, PTL DEF Spec, OneSlotPerClaim, Slots!Spec

=============================================================================
