---------------------------- MODULE MCAdmission -----------------------------
(* Instances of Admission for TLC. *)
EXTENDS Admission, TLC

CONSTANTS a, b, p, q

MCRepo == [r \in {a, b} |-> "app"]
Ticket(size, build, review) == [size |-> size, labels |-> [build |-> build, review |-> review, plan |-> "none"]]
MCIssues == [r \in {a, b} |->
  IF r = a THEN {Ticket("M", "none", "none"), Ticket("L", "bad", "none")}
           ELSE {Ticket("M", "gpt", "none"), Ticket("S", "free", "free2")}]
OneTicket == [r \in {a, b} |-> {Ticket("M", "none", "none")}]
MCPlanOf == [m \in {"sonnet", "opus", "gpt", "free", "free2"} |->
               CASE m \in {"sonnet", "opus"} -> "anthropic" [] m = "gpt" -> "openai" [] OTHER -> "gratis"]
MCWindows == [plan \in {"anthropic", "openai", "gratis"} |->
               IF plan = "gratis" THEN <<>>
               ELSE <<[name |-> "five-hour", period |-> 0, limit |-> 2], [name |-> "weekly", period |-> 1, limit |-> 4]>>]
MCModelCaps == [m \in {"sonnet"} |-> [period |-> 1, limit |-> 3]]
Calm == [breaker |-> "no", paused |-> "no", halted |-> "none", peak |-> "none", mode |-> "default",
         optIn |-> "yes", prs |-> 0, prsKnown |-> TRUE, blockedOpen |-> {}]
PollsAlike == Permutations({p, q})
MCMaxAttempt == [r \in {a, b} |-> IF r = a THEN 1 ELSE 0]
MCWorld == {Calm, [Calm EXCEPT !.prsKnown = FALSE], [Calm EXCEPT !.paused = "app", !.peak = "sonnet"],
            [Calm EXCEPT !.halted = "openai", !.optIn = "no"], [Calm EXCEPT !.blockedOpen = {a}]}
CalmWorld == {Calm}
MCFileSets == [r \in {a, b} |-> IF r = a THEN {{1}, {1, 2}} ELSE {{2}}]
MCSpends == {[reached |-> TRUE, cost |-> 1, minutes |-> 1], [reached |-> FALSE, cost |-> 0, minutes |-> 0]}
MCPlanEstimates == {[cost |-> 1, minutes |-> 1]}
=============================================================================
