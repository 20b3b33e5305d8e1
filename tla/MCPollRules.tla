----------------------------- MODULE MCPollRules -----------------------------
(* Instances of RunsAtOnce and Decisions for TLC: two of the rules a poll  *)
(* follows, how many runs go at once and what becomes of a run's           *)
(* questions.  Each behaviour is of one of the two.                        *)
EXTENDS RunsAtOnce, Decisions

VARIABLE part

RulesInit == part \in {"runsAtOnce", "decisions"} /\ Init /\ DecisionsInit
RulesNext == /\ \/ part = "runsAtOnce" /\ Next /\ UNCHANGED decisionVars
                \/ part = "decisions" /\ DecisionsNext /\ UNCHANGED vars
             /\ UNCHANGED part
RulesSpec == RulesInit /\ [][RulesNext]_<<part, vars, decisionVars>>

(* Under its own rule's fairness, and as long as Linear takes a question in *)
(* the end, every wait of a run for the owner ends (decide, stopWaiting).   *)
WaitsEnd == DecisionsFair /\ LinearTakes => WaitEnds
=============================================================================
