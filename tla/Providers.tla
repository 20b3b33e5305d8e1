----------------------------- MODULE Providers -----------------------------
(***************************************************************************)
(* A provider's halt: the record job of a run that stopped on an           *)
(* unavailable model counts a stop against the provider of its last step,  *)
(* the threshold halts dispatch to it, and a run that succeeded on it      *)
(* clears the count, as the operator's enable-provider does.               *)
(***************************************************************************)
EXTENDS Integers, FiniteSets

CONSTANTS ProviderNames, haltThreshold,
          MaxFlying,  \* runs in flight at once
          MaxClaims   \* runs claimed in all

ASSUME ProvidersAssumption == haltThreshold \in Nat \ {0} /\ MaxFlying \in Nat /\ MaxClaims \in Nat

VARIABLES health,   \* the document of each provider
          flying,   \* the runs in flight: the provider each was claimed on
          claims,   \* runs claimed so far
          lifted    \* who ended the last halt

providerVars == <<health, flying, claims, lifted>>

ProviderHealth == [stops |-> 0, halted |-> FALSE]

ProvidersInit ==
  /\ health = [p \in ProviderNames |-> ProviderHealth]
  /\ flying = [r \in 1..MaxFlying |-> "none"]
  /\ claims = 0
  /\ lifted = "nobody"

(* A halt that cannot be read is no halt.                                  *)
providerHalted(p, readable) == readable /\ health[p].halted
ClaimOn(r, p, readable) ==
  /\ flying[r] = "none" /\ claims < MaxClaims
  /\ ~providerHalted(p, readable)
  /\ flying' = [flying EXCEPT ![r] = p]
  /\ claims' = claims + 1
  /\ UNCHANGED <<health, lifted>>

RecordInfraStop(p) ==
  health' = [health EXCEPT ![p] = [stops |-> @.stops + 1, halted |-> @.halted \/ @.stops + 1 >= haltThreshold]]
(* A success and the operator alike set the document to its zero value.    *)
resetProvider(p, by) ==
  /\ health' = [health EXCEPT ![p] = ProviderHealth]
  /\ lifted' = IF health[p].halted THEN by ELSE lifted
RecordSuccess(p) == resetProvider(p, "run")
ClearHalt(p) ==
  /\ health[p].halted
  /\ resetProvider(p, "operator")
  /\ UNCHANGED <<flying, claims>>

(* The record job of a run whose last step was on p.  A write that fails   *)
(* is only logged, and other ends say nothing of the provider.             *)
RecordOutcome(r, p, end, fails) ==
  /\ flying[r] # "none"
  /\ flying' = [flying EXCEPT ![r] = "none"]
  /\ CASE fails -> UNCHANGED <<health, lifted>>
       [] ~fails /\ end = "model-unavailable" -> RecordInfraStop(p) /\ UNCHANGED lifted
       [] ~fails /\ end = "succeeded" -> RecordSuccess(p)
  /\ UNCHANGED claims

ProvidersNext ==
  \/ \E r \in 1..MaxFlying, p \in ProviderNames, readable \in BOOLEAN : ClaimOn(r, p, readable)
  \/ \E r \in 1..MaxFlying, p \in ProviderNames, end \in {"model-unavailable", "succeeded"}, fails \in BOOLEAN :
       RecordOutcome(r, p, end, fails)
  \/ \E p \in ProviderNames : ClearHalt(p)

-----------------------------------------------------------------------------
(* Properties *)

(* A halted provider is admitted again by the operator, never by itself.   *)
HaltIsTheOperators == lifted # "run"
=============================================================================
