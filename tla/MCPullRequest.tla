--------------------------- MODULE MCPullRequest ---------------------------
(* Instances of Delivery, Evidence, Owner and Providers for TLC: a pull     *)
(* request on its way to a merge, the screenshots several of them push, a  *)
(* run's row among the jobs and people that write it, and the count its    *)
(* record job keeps of a provider.  A behaviour is of one of them.         *)
EXTENDS Delivery, Evidence, Owner, Providers

CONSTANT Parts

(* A case the owner need not see, and each thing that makes him see one.   *)
Clear == [size |-> "M", repo |-> "app", sampled |-> FALSE, labelled |-> FALSE, plan |-> {"a", "page"},
          changed |-> {"a"}, flight |-> {}, prefixes |-> {"ui"}, provisional |-> {}, ready |-> TRUE,
          stop |-> "none", gate |-> FALSE, unread |-> {}]
Flight == {[repo |-> "app", size |-> "L", files |-> {"a"}]}

VARIABLE part

Init == part \in Parts /\ DeliveryInit /\ EvidenceInit /\ OwnerInit /\ ProvidersInit
Next == /\ \/ part = "delivery" /\ DeliveryNext /\ UNCHANGED <<evidenceVars, ownerVars, providerVars>>
           \/ part = "evidence" /\ EvidenceNext /\ UNCHANGED <<deliveryVars, ownerVars, providerVars>>
           \/ part = "owner" /\ OwnerNext /\ UNCHANGED <<deliveryVars, evidenceVars, providerVars>>
           \/ part = "provider" /\ ProvidersNext /\ UNCHANGED <<deliveryVars, evidenceVars, ownerVars>>
        /\ UNCHANGED part
Spec == Init /\ [][Next]_<<part, deliveryVars, evidenceVars, ownerVars, providerVars>>

MCCases == {
  Clear,
  [Clear EXCEPT !.provisional = {[confirmed |-> FALSE]}],
  [Clear EXCEPT !.unread = {"provisional"}],
  [Clear EXCEPT !.unread = {"prefixes"}],
  [Clear EXCEPT !.ready = FALSE],
  [Clear EXCEPT !.changed = {}, !.unread = {"changed"}],
  [Clear EXCEPT !.changed = {}, !.unread = {"changed"}, !.stop = "workflow"],
  [Clear EXCEPT !.plan = {}],
  [Clear EXCEPT !.changed = {"a", "other"}],
  [Clear EXCEPT !.size = "S", !.flight = Flight],
  [Clear EXCEPT !.flight = Flight],
  [Clear EXCEPT !.changed = {"page"}],
  [Clear EXCEPT !.labelled = TRUE],
  [Clear EXCEPT !.size = "L"],
  [Clear EXCEPT !.sampled = TRUE],
  [Clear EXCEPT !.gate = TRUE],
  [Clear EXCEPT !.changed = {"ci.yml"}, !.plan = {"ci.yml"}]}
MCOwnerCases == {[Clear EXCEPT !.ready = FALSE]}
MCUnder == [p \in {"ui"} |-> {"page"}]
MCModels == <<"opus", "gpt">>

Shot(width, page) ==
  [png |-> TRUE, regular |-> TRUE, oversize |-> FALSE, width |-> width, page |-> page, showable |-> TRUE]
MCArtifact == [p \in {1, 2, 3, 4} |->
  CASE p = 1 -> {Shot("s", <<"home">>), Shot("xl", <<"home">>)}
    [] p = 2 -> {Shot("m", <<"board", "index">>), [Shot("m", <<"log">>) EXCEPT !.png = FALSE]}
    [] p = 3 -> {Shot("s", <<"home">>), Shot("s", <<"home", "index">>)}
    [] p = 4 -> {Shot("s", <<"run">>)}]
=============================================================================
