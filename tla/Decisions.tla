----------------------------- MODULE Decisions -----------------------------
(***************************************************************************)
(* The decisions of one run: what its plans asked, what auto-pilot took    *)
(* and what the owner said of it, as the run's row keeps them, and the     *)
(* polls that post the questions and settle the replies at their end.      *)
(*                                                                         *)
(* A poll lists, reads the clock and acts later, in three sections: the    *)
(* run that waits, the decisions auto-pilot took that are not yet posted,  *)
(* and the owner's replies to those.  A time is the number of replies the  *)
(* owner had given by then, plus one; 0 is the zero time.  Ends of the run *)
(* other than a decision's are RunQueue's.                                 *)
(***************************************************************************)
EXTENDS Integers, Sequences, FiniteSets

CONSTANTS Deciders,         \* polls that may overlap
          Labels,           \* the options of a decision, by label
          Recommended,      \* the first of them
          MaxAutopilot,     \* DefaultMaxAutopilotDecisions
          MaxDecisions,     \* bound: decisions on the row
          MaxReplies,       \* bound: replies of the owner
          MaxSessions,      \* bound: agent sessions opened on the ticket
          MaxRequeues,      \* bound: requeues other than a supersede
          MaxFaults         \* bound: polls cut off and calls that fail

ASSUME DecisionsAssumption ==
  /\ Recommended \in Labels /\ "none" \notin Labels /\ "words" \notin Labels
  /\ MaxAutopilot \in Nat /\ MaxDecisions \in Nat /\ MaxReplies \in Nat
  /\ MaxSessions \in Nat /\ MaxRequeues \in Nat /\ MaxFaults \in Nat

VARIABLES decisions,  \* the row's decisions
          run,        \* the rest of the row
          bound,      \* the session the ticket's delegation marked, 0 for none
          time,       \* the time
          quiet,      \* has the wait passed since the last word on the question?
          requeues,   \* requeues so far
          faults,     \* faults so far
          acts        \* how far each poll has got, with what it listed

decisionVars == <<decisions, run, bound, time, quiet, requeues, faults, acts>>
rest == <<bound, time, requeues, faults>>

(* What the owner may write: a label, or words that name no option. *)
Texts == Labels \cup {"words"}

DecisionEntry == [answer: Labels \cup {"none"}, session: 0..MaxSessions,
                  posted: 0..(MaxReplies + 1), reply: Texts \cup {"none"},
                  replied: 0..(MaxReplies + 1), provisional: BOOLEAN, confirmed: BOOLEAN]
NewEntry(answer, provisional) ==
  [answer |-> answer, session |-> 0, posted |-> 0, reply |-> "none", replied |-> 0,
   provisional |-> provisional, confirmed |-> FALSE]

RunRow == [state: {"queued", "claimed", "waiting", "stopped", "abandoned"}, ended: BOOLEAN,
           mode: {"none", "guided", "autopilot"}, unposted: BOOLEAN, replied: BOOLEAN]

(* A poll: its next step, the decision it listed and its copy of it, when  *)
(* it read the clock, and whether the wait was over by its listing.        *)
ActSteps == {"off", "waiting", "decide", "ask", "stamp", "stop", "unposted", "askProvisional",
             "stampProvisional", "replied", "settle", "clear"}
Act == [step: ActSteps, index: 0..MaxDecisions, entry: DecisionEntry,
        clock: 0..(MaxReplies + 1), due: BOOLEAN, session: 0..MaxSessions]
NoAct == [step |-> "off", index |-> 0, entry |-> NewEntry("none", FALSE),
          clock |-> 0, due |-> FALSE, session |-> 0]

DecisionsInit ==
  /\ decisions = <<>>
  /\ run = [state |-> "queued", ended |-> FALSE, mode |-> "none", unposted |-> FALSE, replied |-> FALSE]
  /\ bound = 0
  /\ time = 1
  /\ quiet = FALSE
  /\ requeues = 0
  /\ faults = 0
  /\ acts = [p \in Deciders |-> NoAct]

-----------------------------------------------------------------------------
(* The decision an operation is about, 0 for none *)

Latest(S) ==
  IF \E i \in S : \A j \in S : j <= i THEN CHOOSE i \in S : \A j \in S : j <= i ELSE 0
Earliest(S) ==
  IF \E i \in S : \A j \in S : i <= j THEN CHOOSE i \in S : \A j \in S : i <= j ELSE 0

lastUnanswered == Latest({i \in DOMAIN decisions : decisions[i].answer = "none"})

(* The newest posted decision, when auto-pilot took it and the owner has   *)
(* not confirmed it.                                                       *)
unconfirmedPosted ==
  LET i == Latest({j \in DOMAIN decisions : decisions[j].posted # 0})
  IN IF i # 0 /\ decisions[i].provisional /\ ~decisions[i].confirmed THEN i ELSE 0

firstUnpostedProvisional(ds) ==
  Earliest({i \in DOMAIN ds : ds[i].provisional /\ ds[i].posted = 0})

repliedProvisional(ds) ==
  Latest({i \in DOMAIN ds : ds[i].provisional /\ ~ds[i].confirmed /\ ds[i].replied # 0})

Waits == run.state = "waiting" /\ ~run.ended /\ lastUnanswered # 0

(* Does reply name an option?  Match folds case, width and accents. *)
Matches(reply) == reply \in Labels

-----------------------------------------------------------------------------
(* The run *)

(* The claim that starts an attempt records how its decisions are settled. *)
ClaimRun ==
  /\ run.state = "queued" /\ ~run.ended
  /\ \E mode \in {"guided", "autopilot"} :
       run' = [run EXCEPT !.state = "claimed", !.mode = IF @ = "none" THEN mode ELSE @]
  /\ UNCHANGED <<decisions, quiet, acts, rest>>

TakesRecommendation ==
  /\ run.mode = "autopilot"
  /\ Cardinality({i \in DOMAIN decisions : decisions[i].answer # "none"}) < MaxAutopilot

(* The plan asks: auto-pilot takes the first option, or the run waits.  A  *)
(* record that cannot be read leaves the question to the owner.            *)
TakeRecommendation ==
  /\ run.state = "claimed" /\ ~run.ended /\ Len(decisions) < MaxDecisions
  /\ TakesRecommendation
  /\ decisions' = Append(decisions, NewEntry(Recommended, TRUE))
  /\ run' = [run EXCEPT !.state = "queued", !.unposted = TRUE]
  /\ UNCHANGED <<quiet, acts, rest>>

Suspend ==
  /\ run.state = "claimed" /\ ~run.ended /\ Len(decisions) < MaxDecisions
  /\ decisions' = Append(decisions, NewEntry("none", FALSE))
  /\ run' = [run EXCEPT !.state = "waiting"]
  /\ quiet' = FALSE
  /\ UNCHANGED <<acts, rest>>

RunEnds ==
  /\ run.state = "claimed" /\ ~run.ended
  /\ run' = [run EXCEPT !.ended = TRUE]
  /\ UNCHANGED <<decisions, quiet, acts, rest>>

AbandonRun ==
  /\ run.state = "queued" /\ ~run.ended
  /\ run' = [run EXCEPT !.state = "abandoned"]
  /\ UNCHANGED <<decisions, quiet, acts, rest>>

(* What every requeue writes of these fields: the decisions stay. *)
Requeued == [run EXCEPT !.state = "queued", !.ended = FALSE, !.mode = "none"]

RequeueRun ==
  /\ requeues < MaxRequeues
  /\ run.ended \/ run.state \in {"stopped", "abandoned"}
  /\ run' = Requeued
  /\ requeues' = requeues + 1
  /\ UNCHANGED <<decisions, bound, time, quiet, acts, faults>>

-----------------------------------------------------------------------------
(* The owner *)

(* A delegation marks its session on the ticket. *)
Delegate ==
  /\ bound < MaxSessions
  /\ bound' = bound + 1
  /\ UNCHANGED <<decisions, run, time, quiet, requeues, faults, acts>>

(* The owner writes in a session; only the question asked in it takes it.  *)
ReplyIndex ==
  IF run.state # "waiting" THEN unconfirmedPosted ELSE IF run.ended THEN 0 ELSE lastUnanswered

ReplyTo(session, text) ==
  LET i == ReplyIndex
  IN /\ time <= MaxReplies
     /\ i # 0 /\ decisions[i].session = session
     /\ time' = time + 1
     /\ decisions' = [decisions EXCEPT ![i].reply = text, ![i].replied = time + 1]
     /\ run' = [run EXCEPT !.replied = @ \/ run.state # "waiting"]
     /\ quiet' = (quiet /\ run.state # "waiting")
     /\ UNCHANGED <<bound, requeues, faults, acts>>

(* Nothing is said for the decision timeout.  It is longer than a poll, so *)
(* the polls of before are over.                                           *)
TimePasses ==
  /\ Waits /\ ~quiet
  /\ quiet' = TRUE
  /\ acts' = [p \in Deciders |-> NoAct]
  /\ UNCHANGED <<decisions, run, rest>>

-----------------------------------------------------------------------------
(* A poll: the run that waits *)

Goes(p, step) == acts' = [acts EXCEPT ![p] = [NoAct EXCEPT !.step = step, !.clock = acts[p].clock]]
Continues(p, step) == acts' = [acts EXCEPT ![p].step = step]

(* Waiting lists the run with a copy of the decision it waits on. *)
ListWaiting(p) ==
  /\ acts[p].step = "off"
  /\ acts' = [acts EXCEPT ![p] =
       IF Waits THEN [NoAct EXCEPT !.step = "waiting", !.index = lastUnanswered,
                                   !.entry = decisions[lastUnanswered], !.due = quiet]
       ELSE [NoAct EXCEPT !.step = "waiting"]]
  /\ UNCHANGED <<decisions, run, quiet, rest>>

ReadClock(p) ==
  /\ acts[p].step = "waiting"
  /\ acts' = [acts EXCEPT ![p].clock = time, ![p].step = IF acts[p].index = 0 THEN "unposted" ELSE "decide"]
  /\ UNCHANGED <<decisions, run, quiet, rest>>

(* A reply newer than the post; the variant takes one that is not older. *)
NotOlder(e) == e.replied >= e.posted
NewReply(e) == e.replied > e.posted

(* decide, in its order: a reply newer than the post, the deadline, an     *)
(* unposted question.  A reply that names an option is the answer.         *)
Answer(p) ==
  /\ acts[p].step = "decide" /\ NewReply(acts[p].entry) /\ Matches(acts[p].entry.reply)
  /\ \/ /\ Waits
        /\ decisions' = [decisions EXCEPT ![lastUnanswered].answer = acts[p].entry.reply]
        /\ run' = [run EXCEPT !.state = "queued"]
     \/ /\ ~Waits
        /\ UNCHANGED <<decisions, run>>
  /\ Goes(p, "unposted")
  /\ UNCHANGED <<quiet, rest>>

(* When the poll asks: again after words that name no option, and once.    *)
Asks(w) == /\ w.step = "decide"
           /\ \/ NewReply(w.entry) /\ ~Matches(w.entry.reply)
              \/ ~NewReply(w.entry) /\ ~w.due /\ w.entry.posted = 0

(* postDecision looks the session up; without one the question waits. *)
FindSession(p) ==
  /\ Asks(acts[p])
  /\ \/ bound # 0 /\ acts' = [acts EXCEPT ![p].step = "ask", ![p].session = bound]
     \/ bound = 0 /\ Goes(p, "unposted")
  /\ UNCHANGED <<decisions, run, quiet, rest>>

(* Linear takes the question; ElicitRefused is a call that fails. *)
Elicit(p) ==
  /\ acts[p].step = "ask"
  /\ Continues(p, "stamp")
  /\ UNCHANGED <<decisions, run, quiet, rest>>

ElicitRefused(p) ==
  /\ acts[p].step = "ask"
  /\ Goes(p, "unposted")
  /\ UNCHANGED <<decisions, run, quiet, rest>>

(* Posted stamps the last unanswered decision, whatever the row's state. *)
PostedDecision(p) ==
  /\ acts[p].step = "stamp"
  /\ \/ /\ lastUnanswered # 0
        /\ decisions' = [decisions EXCEPT ![lastUnanswered].session = acts[p].session,
                                          ![lastUnanswered].posted = acts[p].clock]
        /\ quiet' = FALSE
     \/ lastUnanswered = 0 /\ UNCHANGED <<decisions, quiet>>
  /\ Goes(p, "unposted")
  /\ UNCHANGED <<run, rest>>

(* The deadline: the notice is raised first, then the row is stopped,      *)
(* whatever it says by then.                                               *)
RaiseWaiting(p) ==
  /\ acts[p].step = "decide" /\ ~NewReply(acts[p].entry) /\ acts[p].due
  /\ Continues(p, "stop")
  /\ UNCHANGED <<decisions, run, quiet, rest>>

StopWaiting(p) ==
  /\ acts[p].step = "stop"
  /\ run' = [run EXCEPT !.state = "stopped", !.ended = TRUE]
  /\ Goes(p, "unposted")
  /\ UNCHANGED <<decisions, quiet, rest>>

(* Posted already, nothing said and time left: nothing to do. *)
NothingDue(p) ==
  /\ acts[p].step = "decide"
  /\ ~NewReply(acts[p].entry) /\ ~acts[p].due /\ acts[p].entry.posted # 0
  /\ Goes(p, "unposted")
  /\ UNCHANGED <<decisions, run, quiet, rest>>

-----------------------------------------------------------------------------
(* A poll: the decisions auto-pilot took *)

(* ProvisionalUnposted and the look for a session. *)
ListUnposted(p) ==
  LET i == firstUnpostedProvisional(decisions)
  IN /\ acts[p].step = "unposted"
     /\ \/ /\ run.unposted /\ i # 0 /\ ~run.ended /\ bound # 0
           /\ acts' = [acts EXCEPT ![p].step = "askProvisional", ![p].index = i, ![p].session = bound]
        \/ /\ ~(run.unposted /\ i # 0 /\ ~run.ended /\ bound # 0)
           /\ Goes(p, "replied")
     /\ UNCHANGED <<decisions, run, quiet, rest>>

ElicitProvisional(p) ==
  /\ acts[p].step = "askProvisional"
  /\ Continues(p, "stampProvisional") \/ Goes(p, "replied")
  /\ UNCHANGED <<decisions, run, quiet, rest>>

(* PostedProvisional stamps the first unposted one, and drops the mark     *)
(* with the last.                                                          *)
PostedProvisional(p) ==
  LET i == firstUnpostedProvisional(decisions)
  IN /\ acts[p].step = "stampProvisional"
     /\ \/ /\ i # 0
           /\ decisions' = [decisions EXCEPT ![i].session = acts[p].session, ![i].posted = acts[p].clock]
           /\ run' = [run EXCEPT !.unposted = @ /\ firstUnpostedProvisional(decisions') # 0]
        \/ i = 0 /\ UNCHANGED <<decisions, run>>
     /\ Goes(p, "replied")
     /\ UNCHANGED <<quiet, rest>>

(* ProvisionalReplied lists the last decision with a reply to handle. *)
ListReplied(p) ==
  LET i == repliedProvisional(decisions)
  IN /\ acts[p].step = "replied"
     /\ \/ /\ run.replied /\ i # 0
           /\ acts' = [acts EXCEPT ![p] = [NoAct EXCEPT !.step = "settle", !.index = i, !.entry = decisions[i]]]
        \/ /\ ~(run.replied /\ i # 0)
           /\ acts' = [acts EXCEPT ![p] = NoAct]
     /\ UNCHANGED <<decisions, run, quiet, rest>>

PollDone(p) == acts' = [acts EXCEPT ![p] = NoAct]

(* Is decision i still as the poll listed it?  The variant does not look   *)
(* at when the reply was given.                                            *)
IsProvisional(i, e) == decisions[i].provisional
SameReply(i, e) == decisions[i].provisional /\ decisions[i].replied = e.replied

(* The option auto-pilot took: the owner confirms it. *)
ConfirmProvisional(p) ==
  LET a == acts[p]
  IN /\ a.step = "settle" /\ Matches(a.entry.reply) /\ a.entry.reply = a.entry.answer
     /\ \/ /\ SameReply(a.index, a.entry) /\ ~decisions[a.index].confirmed
           /\ decisions' = [decisions EXCEPT ![a.index].confirmed = TRUE]
           /\ run' = [run EXCEPT !.replied = @ /\ repliedProvisional(decisions') # 0]
        \/ /\ ~SameReply(a.index, a.entry) \/ decisions[a.index].confirmed
           /\ UNCHANGED <<decisions, run>>
     /\ PollDone(p)
     /\ UNCHANGED <<quiet, rest>>

(* Another option: the run is queued again with the owner's answer.  A run *)
(* still to run or in flight keeps the reply for a later poll, and so does *)
(* a reply replaced since; a run abandoned or waiting never takes it.      *)
Unusable(i) == run.state \in {"abandoned", "waiting"} \/ ~decisions[i].provisional
NotEnded == run.state \in {"queued", "claimed"} /\ ~run.ended

Supersede(p) ==
  LET a == acts[p]
  IN /\ a.step = "settle" /\ Matches(a.entry.reply) /\ a.entry.reply # a.entry.answer
     /\ \/ /\ ~NotEnded /\ Unusable(a.index)
           /\ Continues(p, "clear")
           /\ UNCHANGED <<decisions, run>>
        \/ /\ NotEnded \/ (~Unusable(a.index) /\ ~SameReply(a.index, a.entry))
           /\ PollDone(p)
           /\ UNCHANGED <<decisions, run>>
        \/ /\ ~NotEnded /\ ~Unusable(a.index) /\ SameReply(a.index, a.entry)
           /\ decisions' = [decisions EXCEPT ![a.index].answer = a.entry.reply, ![a.index].provisional = FALSE]
           /\ run' = [Requeued EXCEPT !.replied = @ /\ repliedProvisional(decisions') # 0]
           /\ PollDone(p)
     /\ UNCHANGED <<quiet, rest>>

(* Words that name no option, or a reply that cannot be acted on, are      *)
(* dropped from the polls' sight unless a newer one came.                  *)
ClearProvisionalReply(p) ==
  LET a == acts[p]
      i == repliedProvisional(decisions)
  IN /\ a.step = "clear" \/ (a.step = "settle" /\ ~Matches(a.entry.reply))
     /\ LET latest == i # 0 /\ decisions[i].replied = a.entry.replied
        IN run' = [run EXCEPT !.replied = @ /\ ~latest]
     /\ PollDone(p)
     /\ UNCHANGED <<decisions, quiet, rest>>

(* A poll is cut off, or a call of the store or of the notices fails: the  *)
(* poll joins the error and goes on to its next section.                   *)
Faulty == faults < MaxFaults /\ faults' = faults + 1

CutOff(p) ==
  /\ acts[p].step # "off"
  /\ Faulty
  /\ PollDone(p)
  /\ UNCHANGED <<decisions, run, bound, time, quiet, requeues>>

CallFails(p) ==
  /\ \/ acts[p].step \in {"decide", "stamp", "stop"} /\ Goes(p, "unposted")
     \/ acts[p].step \in {"unposted", "stampProvisional"} /\ Goes(p, "replied")
  /\ Faulty
  /\ UNCHANGED <<decisions, run, bound, time, quiet, requeues>>

DecidesWaiting(p) ==
  \/ ListWaiting(p) \/ ReadClock(p) \/ Answer(p) \/ FindSession(p) \/ Elicit(p) \/ ElicitRefused(p)
  \/ PostedDecision(p) \/ RaiseWaiting(p) \/ StopWaiting(p) \/ NothingDue(p)

DecidesProvisional(p) ==
  \/ ListUnposted(p) \/ ElicitProvisional(p) \/ PostedProvisional(p) \/ ListReplied(p)
  \/ ConfirmProvisional(p) \/ Supersede(p) \/ ClearProvisionalReply(p)

DecisionsNext ==
  \/ ClaimRun \/ TakeRecommendation \/ Suspend \/ RunEnds \/ AbandonRun \/ RequeueRun
  \/ Delegate \/ TimePasses
  \/ \E s \in 1..MaxSessions, text \in Texts : ReplyTo(s, text)
  \/ \E p \in Deciders : DecidesWaiting(p) \/ DecidesProvisional(p)
                         \/ CutOff(p) \/ CallFails(p)

DecisionsSpec == DecisionsInit /\ [][DecisionsNext]_decisionVars

-----------------------------------------------------------------------------
(* The row, the marks and the polls keep their types.                       *)
DecisionsTypeOK ==
  /\ decisions \in Seq(DecisionEntry) /\ Len(decisions) <= MaxDecisions
  /\ run \in RunRow /\ bound \in 0..MaxSessions /\ time \in 1..(MaxReplies + 1)
  /\ quiet \in BOOLEAN /\ requeues \in 0..MaxRequeues /\ faults \in 0..MaxFaults
  /\ acts \in [Deciders -> Act]

SettledByLastWord ==
  \A i \in DOMAIN decisions :
    decisions[i].provisional /\ ~decisions[i].confirmed
      /\ (decisions'[i].confirmed \/ ~decisions'[i].provisional)
    => decisions'[i].answer = decisions[i].reply

(* The owner's last word settles what auto-pilot took: a decision is        *)
(* confirmed, or its run superseded, only with the option that the reply on *)
(* the row names then, however late the poll that read an earlier reply     *)
(* comes (ConfirmProvisional, Supersede).                                   *)
LastWordSettles == [][SettledByLastWord]_decisionVars

(* What keeps it true: auto-pilot's decisions have an answer, no reply is   *)
(* of the future, and the copy a poll settles by is of the reply it names.  *)
TakenHasAnswer ==
  \A i \in DOMAIN decisions : decisions[i].provisional => decisions[i].answer # "none"

RepliesArePast ==
  \A i \in DOMAIN decisions : decisions[i].replied <= time

CopyAgrees(a) ==
  /\ a.index \in DOMAIN decisions
  /\ a.entry.replied <= time
  /\ decisions[a.index].replied = a.entry.replied => decisions[a.index].reply = a.entry.reply
  /\ decisions[a.index].provisional => decisions[a.index].answer = a.entry.answer

CopiesAgree ==
  \A p \in Deciders : acts[p].step = "settle" => CopyAgrees(acts[p])

DecisionsIInv == DecisionsTypeOK /\ TakenHasAnswer /\ RepliesArePast /\ CopiesAgree

(* A wait ends: with an answer or at its deadline ("nothing hangs           *)
(* silently", postDecision).                                                *)
WaitEnds == Waits ~> ~Waits

(* Fairness: polls start and, cut off only so often, go on to their end,    *)
(* and time passes.  Nothing is assumed of Linear, which may refuse every   *)
(* question; LinearTakes is that it does not refuse for ever.               *)
DecisionsFair ==
  /\ WF_decisionVars(TimePasses)
  /\ \A p \in Deciders : WF_decisionVars(DecidesWaiting(p) \/ DecidesProvisional(p))

LinearTakes == \A p \in Deciders : SF_decisionVars(Elicit(p))

DecisionsFairSpec    == DecisionsSpec /\ DecisionsFair /\ LinearTakes
DecisionsRefusedSpec == DecisionsSpec /\ DecisionsFair
=============================================================================
