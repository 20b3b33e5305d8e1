---------------------------- MODULE MCPollPhases ----------------------------
(* Instances of Notices, Rewrites and Figures for TLC: two of the phases   *)
(* of a poll, the notices it posts and the merges it measures, and the     *)
(* page that draws what was measured.  Each behaviour is of one of the     *)
(* three; the page's samples stand for what the poll wrote.                *)
EXTENDS Notices, Rewrites, Figures

VARIABLE part

PhasesInit == part \in {"notices", "measuring", "page"} /\ Init /\ RewritesInit /\ FiguresInit
PhasesNext == /\ \/ part = "notices" /\ Next /\ UNCHANGED <<rewriteVars, figureVars>>
                 \/ part = "measuring" /\ RewritesNext /\ UNCHANGED <<vars, figureVars>>
                 \/ part = "page" /\ FiguresNext /\ UNCHANGED <<vars, rewriteVars>>
              /\ UNCHANGED part
PhasesSpec == PhasesInit /\ [][PhasesNext]_<<part, vars, rewriteVars, figureVars>>

(* Under its own phase's fairness, every notice raised is posted in the     *)
(* end (postNotices).                                                       *)
NoticesArePosted == Fairness => RaisedIsPosted

(* Under its own phase's fairness, a merged revert ends with the row of the *)
(* run it takes back flagged for good (flagReverted).                       *)
RevertsAreFlagged == RewritesFair => RevertsEndFlagged

Pull(repo, number, head, reverts) ==
  [repo |-> repo, number |-> number, head |-> head, reverts |-> reverts, quotes |-> "none", title |-> head]
MCAbout == [x \in {"opened", "revert", "byHand"} |->
  CASE x = "opened" -> Pull("app", 1, "run/a", NoPull)
    [] x = "revert" -> Pull("app", 2, "main", [repo |-> "app", number |-> 1])
    [] x = "byHand" -> Pull("web", 1, "run/x", NoPull)]
MCAttempts == [r \in {"a"} |-> <<"opened">>]
MCRepos == <<"app", "web">>

Commit(login, trailer, lines) ==
  [login |-> login, trailer |-> trailer, additions |-> lines, deletions |-> 0, unmeasured |-> FALSE]
Step(phase, model) == [phase |-> phase, model |-> model]
Merge(repo, size, plan, steps, commits, capped, auto) ==
  [repo |-> repo, size |-> size, plan |-> plan, steps |-> steps, commits |-> commits,
   capped |-> capped, auto |-> auto]
MCMeasurements == {
  Merge("app", "S", "opus", <<Step("build", "opus"), Step("review", "gpt")>>,
        <<Commit("runner", "none", 4)>>, FALSE, TRUE),
  Merge("App", "M", "gpt", <<Step("build", "opus"), Step("build", "gpt")>>,
        <<Commit("runner", "none", 2), Commit("owner", "review-found", 1)>>, FALSE, FALSE),
  Merge("web", "huge", "none", <<Step("build", "gpt")>>,
        <<Commit("other", "none", 1), Commit("owner", "owner-change", 1)>>, FALSE, TRUE),
  Merge("", "L", "opus", <<>>, <<[Commit("runner", "none", 0) EXCEPT !.unmeasured = TRUE]>>, TRUE, FALSE)}
MCFold == [r \in {"app", "App", "web", ""} |-> IF r = "App" THEN "app" ELSE r]
=============================================================================
