----------------------------- MODULE MCServices -----------------------------
(* Instances of Webhook, Tokens and PlanFacts for TLC: the deliveries of a *)
(* delegation, of two replies or of two edits of a priority, the tokens    *)
(* two sources mint for calls made at once, and a plan's facts and its     *)
(* owner's commands.  A behaviour is of one of them.                       *)
EXTENDS Webhook, Tokens, PlanFacts

CONSTANT Parts

VARIABLE part

MCDelegation == {[kind |-> "created", session |-> "s1", n |-> 0]}
MCWorld == [page |-> "a", models |-> {"m1", "m2"}, board |-> [m1 |-> 1, m2 |-> 0],
            feed |-> [listed |-> TRUE, price |-> 10, models |-> {"m1"}]]

servicesVars == <<part, webhookVars, tokenVars, planFactsVars>>
Init ==
  /\ part \in Parts /\ WebhookInit /\ TokensInit /\ PlanFactsInit
  /\ part # "webhook" => scene = MCDelegation /\ secret.held = 1
  /\ scene # MCDelegation => secret.held = 1
  /\ part # "facts" => was = <<MCWorld>>
Next == /\ \/ part = "webhook" /\ WebhookNext /\ UNCHANGED <<tokenVars, planFactsVars>>
           \/ part = "tokens" /\ TokensNext /\ UNCHANGED <<webhookVars, planFactsVars>>
           \/ part = "facts" /\ FactsNext /\ UNCHANGED <<webhookVars, tokenVars>>
           \/ part = "plans" /\ OwnerPlanNext /\ UNCHANGED <<webhookVars, tokenVars>>
        /\ UNCHANGED part
Spec == Init /\ [][Next]_servicesVars /\ WebhookFair

MCScenes == {
  MCDelegation,
  {[kind |-> "prompted", session |-> "s1", n |-> n] : n \in {1, 2}},
  {[kind |-> "priority", session |-> "none", n |-> n] : n \in {2, 3}},
  {[kind |-> k, session |-> "s2", n |-> 1] : k \in {"ignored", "malformed", "prompted"}}}
MCEdits == <<2, 0, 1>>

MCSourceOf == [c \in {"c1", "c2", "p1", "p2"} |-> IF c \in {"c1", "c2"} THEN "cached" ELSE "poll"]

MCFirstWorlds == {MCWorld, [MCWorld EXCEPT !.models = {"m1"}]}
MCChanges == [page |-> {"b"}, models |-> {{"m1"}, {"m1", "m2"}},
              board |-> {[m1 |-> 2, m2 |-> 1], [m1 |-> 0, m2 |-> 1]},
              feed |-> {[listed |-> FALSE, price |-> 0, models |-> {}],
                        [listed |-> TRUE, price |-> 20, models |-> {"m1", "m2"}]}]
MCDefinitions == {[billing |-> b, harnesses |-> h] : b \in {"allowance", "per-token"}, h \in {{"x"}, {}}}
=============================================================================
