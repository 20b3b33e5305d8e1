------------------------------ MODULE RunSlots ------------------------------
(***************************************************************************)
(* What the queue promises of the runs it lets work at once: a pool of N   *)
(* slots.  A run takes one slot when it is claimed and holds no other,     *)
(* gives it back once, and begins its next attempt without one.            *)
(***************************************************************************)
EXTENDS Integers, FiniteSets

CONSTANTS Runs, N

VARIABLES holding,  \* the runs that hold a slot
          attempt   \* the attempt each run is on

slotVars == <<holding, attempt>>

Init == holding = {} /\ attempt = [r \in Runs |-> 0]

Take(r) ==
  /\ r \notin holding
  /\ Cardinality(holding) < N
  /\ holding' = holding \cup {r}
  /\ UNCHANGED attempt

GiveBack(r) ==
  /\ r \in holding
  /\ holding' = holding \ {r}
  /\ UNCHANGED attempt

NextAttempt(r) ==
  /\ attempt' = [attempt EXCEPT ![r] = @ + 1]
  /\ holding' = holding \ {r}

Next == \E r \in Runs : Take(r) \/ GiveBack(r) \/ NextAttempt(r)

Spec == Init /\ [][Next]_slotVars
=============================================================================
