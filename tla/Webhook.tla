------------------------------ MODULE Webhook ------------------------------
(***************************************************************************)
(* The service Linear delivers to: a delegation, an owner's reply or an    *)
(* edited priority arrives as a delivery, is checked against the signing   *)
(* secret, written down and followed by one start of the dispatcher.       *)
(* Linear sends a delivery again until one is answered 200, and does not   *)
(* wait for the handler of the one before.  Beside it, the dispatcher's    *)
(* own poll, which reads the issue and the reply again.                    *)
(***************************************************************************)
EXTENDS Integers, FiniteSets

CONSTANTS Slots,        \* deliveries handled at once
          Scenes,       \* the sets of events a behaviour may be about
          Edits,        \* the priorities the issue has, one after another
          MaxSends,     \* deliveries of one event
          MaxRestarts,  \* times the service is replaced
          MaxPollFaults \* refreshes a poll fails at

ASSUME WebhookAssumption ==
  /\ MaxSends \in Nat /\ MaxRestarts \in Nat /\ MaxPollFaults \in Nat /\ DOMAIN Edits # {}
  \* Linear creates a session once, however often it delivers that
  /\ \A events \in Scenes : \A e, f \in events :
       e.kind = "created" /\ f.kind = "created" /\ e.session = f.session => e = f

VARIABLES scene,      \* the events of this behaviour
          secret,     \* [stored, held, resting]: the signing secret's versions, 0 for no value
          handling,   \* the delivery each slot is at
          sends,      \* deliveries sent of each event
          answered,   \* events answered 200
          markers,    \* sessions with a marker
          bound,      \* the session the issue is bound to
          woke,       \* events a start of the dispatcher was accepted for
          acked,      \* sessions acknowledged
          doubled,    \* sessions answered as taken while the delivery that took them was at work
          stranded,   \* sessions whose marker outlived a delivery that woke nothing
          row,        \* the run: its state and rank
          decision,   \* the run's question: its session, its reply, the newest reply recorded
          edit,       \* the priority the issue has now
          poll,       \* the poll: idle, or the priority it listed the issue with
          restarts, pollFaults

webhookVars == <<scene, secret, handling, sends, answered, markers, bound, woke, acked, doubled, stranded,
                 row, decision, edit, poll, restarts, pollFaults>>
recorded == <<markers, bound, woke, acked, doubled, stranded, row, decision>>
world == <<scene, edit, poll, restarts, pollFaults>>

Idle == [at |-> "idle"]
NoPoll == -1

(* Linear's priority as the queue orders it, 0 for any it does not hold.   *)
PriorityRank(p) == CASE p = 0 -> 5 [] p \in 1..4 -> p [] OTHER -> 0

WebhookInit ==
  /\ scene \in Scenes
  /\ secret \in {[stored |-> v, held |-> v, resting |-> FALSE] : v \in {0, 1}}
  /\ handling = [d \in Slots |-> Idle]
  /\ sends = [e \in scene |-> 0]
  /\ answered = {} /\ markers = {} /\ bound = "none" /\ woke = {} /\ acked = {}
  /\ doubled = {} /\ stranded = {}
  /\ row = [state |-> "queued", rank |-> PriorityRank(Edits[1])]
  /\ decision = [session |-> "s1", open |-> TRUE, reply |-> 0, newest |-> 0]
  /\ edit = 1 /\ poll = NoPoll /\ restarts = 0 /\ pollFaults = 0

-----------------------------------------------------------------------------
(* A delivery and its answer *)

(* An event is delivered once it has happened: an edit once it is made.    *)
Happened(e) == e.kind = "priority" => e.n <= edit

(* The secret is read again while it has no value, and then only once the  *)
(* last read is old enough.                                                *)
Reloads == secret.held = 0 /\ ~secret.resting
Deliver(d, e, late) ==
  /\ handling[d] = Idle
  /\ Happened(e) /\ e \notin answered /\ sends[e] < MaxSends
  /\ sends' = [sends EXCEPT ![e] = @ + 1]
  /\ secret' = [secret EXCEPT !.resting = @ \/ Reloads]
  /\ handling' = [handling EXCEPT ![d] =
       [at |-> IF Reloads THEN "reload" ELSE "check", ev |-> e, late |-> late, signed |-> secret.stored,
        ack |-> "running", wake |-> "running"]]
  /\ UNCHANGED <<answered, recorded, world>>

Reload(d, fails) ==
  /\ handling[d].at = "reload"
  /\ secret' = [secret EXCEPT !.held = IF fails \/ secret.stored = 0 THEN @ ELSE secret.stored]
  /\ handling' = [handling EXCEPT ![d].at = "check"]
  /\ UNCHANGED <<sends, answered, recorded, world>>

(* Leaving the handler with an answer.                                     *)
Answer(d, status) ==
  /\ handling' = [handling EXCEPT ![d] = Idle]
  /\ answered' = IF status = 200 THEN answered \union {handling[d].ev} ELSE answered
Onward(d, at) ==
  /\ handling' = [handling EXCEPT ![d].at = at]
  /\ UNCHANGED answered

(* No value verifies nothing, and only the secret it was signed with does. *)
verify(held, signed) == held # 0 /\ held = signed

(* A delivery stamped too long ago, or ahead, is refused.                  *)
fresh(h) == ~h.late

(* Where an event goes once verified and fresh: an edit that changes no    *)
(* rank is ignored, an event that names nothing is refused.                *)
SameRank(e) == e.n = 1 \/ PriorityRank(Edits[e.n]) \in {0, PriorityRank(Edits[e.n - 1])}
Route(e) ==
  CASE e.kind = "created" -> "mark"
    [] e.kind = "prompted" -> "reply"
    [] e.kind = "priority" -> IF SameRank(e) THEN "ok" ELSE "rank"
    [] e.kind = "ignored" -> "ok"
    [] OTHER -> "bad"

ServeHTTP(d) ==
  LET h == handling[d] IN
  /\ h.at = "check"
  /\ CASE ~verify(secret.held, h.signed) \/ ~fresh(h) -> Answer(d, 401)
       [] OTHER -> CASE Route(h.ev) = "ok" -> Answer(d, 200)
                     [] Route(h.ev) = "bad" -> Answer(d, 400)
                     [] OTHER -> Onward(d, Route(h.ev))
  /\ UNCHANGED <<secret, sends, recorded, world>>

-----------------------------------------------------------------------------
(* A new session *)

(* The deliveries at work on a session they marked.                        *)
Holders(s) == {d \in Slots : handling[d].at \in {"act", "unmark"} /\ handling[d].ev.session = s}

(* A transaction, or Cloud Run, takes a call, refuses it, or takes it with *)
(* the reply lost, which the handler reads as a refusal.                   *)
Outcomes == {"taken", "refused", "lost"}

(* One transaction: the marker, and the issue bound to the session.        *)
Mark(d, outcome) ==
  LET s == handling[d].ev.session
      written == s \notin markers /\ outcome # "refused"
  IN
  /\ handling[d].at = "mark"
  /\ \/ outcome # "taken" /\ Answer(d, 500) /\ UNCHANGED doubled
     \/ /\ outcome = "taken" /\ s \in markers
        /\ Answer(d, 200)
        /\ doubled' = IF Holders(s) # {} THEN doubled \union {s} ELSE doubled
     \/ outcome = "taken" /\ s \notin markers /\ Onward(d, "act") /\ UNCHANGED doubled
  /\ markers' = IF written THEN markers \union {s} ELSE markers
  /\ bound' = IF written THEN s ELSE bound
  /\ stranded' = IF written /\ outcome = "lost" THEN stranded \union {s} ELSE stranded
  /\ UNCHANGED <<secret, sends, woke, acked, row, decision, world>>

(* The acknowledgement and the wake run side by side.                      *)
Acknowledge(d, ok) ==
  /\ handling[d].at = "act" /\ handling[d].ack = "running"
  /\ acked' = IF ok THEN acked \union {handling[d].ev.session} ELSE acked
  /\ handling' = [handling EXCEPT ![d].ack = "done"]
  /\ UNCHANGED <<secret, sends, answered, markers, bound, woke, doubled, stranded, row, decision, world>>

(* A start Cloud Run took, whether or not its reply arrived.               *)
Woken(d, outcome) == woke' = IF outcome = "refused" THEN woke ELSE woke \union {handling[d].ev}
Wake(d, outcome) ==
  /\ handling[d].at = "act" /\ handling[d].wake = "running"
  /\ Woken(d, outcome)
  /\ handling' = [handling EXCEPT ![d].wake = IF outcome = "taken" THEN "done" ELSE "failed"]
  /\ UNCHANGED <<secret, sends, answered, markers, bound, acked, doubled, stranded, row, decision, world>>

ackAndWake(d) ==
  /\ handling[d].at = "act" /\ handling[d].ack = "done" /\ handling[d].wake # "running"
  /\ IF handling[d].wake = "done" THEN Answer(d, 200) ELSE Onward(d, "unmark")
  /\ UNCHANGED <<secret, sends, recorded, world>>

MarkerKept(s, fails) == markers
Unmarked(s, fails) == IF fails THEN markers ELSE markers \ {s}
unmark(d, fails) ==
  LET s == handling[d].ev.session IN
  /\ handling[d].at = "unmark"
  /\ markers' = Unmarked(s, fails)
  /\ stranded' = IF fails THEN stranded \union {s} ELSE stranded
  /\ Answer(d, 500)
  /\ UNCHANGED <<secret, sends, bound, woke, acked, doubled, row, decision, world>>

-----------------------------------------------------------------------------
(* A reply and an edited priority: one write, then the wake *)

(* A reply is recorded on the open question of its own session.            *)
Reply(d, outcome) ==
  LET e == handling[d].ev IN
  /\ handling[d].at = "reply"
  /\ IF outcome = "taken" THEN Onward(d, "wake") ELSE Answer(d, 500)
  /\ decision' = IF outcome # "refused" /\ decision.open /\ decision.session = e.session
                   THEN [decision EXCEPT !.reply = e.n, !.newest = IF e.n > @ THEN e.n ELSE @]
                   ELSE decision
  /\ UNCHANGED <<secret, sends, markers, bound, woke, acked, doubled, stranded, row, world>>

(* Only a run waiting for a claim takes a new rank.                        *)
Waits == row.state = "queued"
UpdateQueuedPriority(rank) == row' = IF Waits THEN [row EXCEPT !.rank = rank] ELSE row
reprioritize(d, outcome) ==
  /\ handling[d].at = "rank"
  /\ IF outcome = "refused" THEN UNCHANGED row ELSE UpdateQueuedPriority(PriorityRank(Edits[handling[d].ev.n]))
  /\ IF outcome # "taken" THEN Answer(d, 500) ELSE IF Waits THEN Onward(d, "wake") ELSE Answer(d, 200)
  /\ UNCHANGED <<secret, sends, markers, bound, woke, acked, doubled, stranded, decision, world>>

WakeAfter(d, outcome) ==
  /\ handling[d].at = "wake"
  /\ Woken(d, outcome)
  /\ Answer(d, IF outcome = "taken" THEN 200 ELSE 500)
  /\ UNCHANGED <<secret, sends, markers, bound, acked, doubled, stranded, row, decision, world>>

-----------------------------------------------------------------------------
(* The service's own life, the owner and the poll *)

(* A revision ends with what it was handling, and the next one reads the   *)
(* secret before it serves.                                                *)
Restart ==
  /\ restarts < MaxRestarts
  /\ restarts' = restarts + 1
  /\ secret' = [secret EXCEPT !.held = secret.stored, !.resting = FALSE]
  /\ stranded' = stranded \union {s \in markers : Holders(s) # {}}
  /\ handling' = [d \in Slots |-> Idle]
  /\ UNCHANGED <<scene, sends, answered, markers, bound, woke, acked, doubled, row, decision, edit, poll, pollFaults>>

SecretRests ==
  /\ secret.resting
  /\ secret' = [secret EXCEPT !.resting = FALSE]
  /\ UNCHANGED <<handling, sends, answered, recorded, world>>
(* The operator adds the secret's value.                                   *)
StoreSecret ==
  /\ secret.stored = 0
  /\ secret' = [secret EXCEPT !.stored = 1]
  /\ UNCHANGED <<handling, sends, answered, recorded, world>>

(* The owner and the poll act on what the behaviour's events are about.    *)
Concerns(kind) == \E e \in scene : e.kind = kind
EditPriority ==
  /\ Concerns("priority") /\ edit + 1 \in DOMAIN Edits
  /\ edit' = edit + 1
  /\ UNCHANGED <<scene, secret, handling, sends, answered, recorded, poll, restarts, pollFaults>>

(* A poll lists the issue as it is, then refreshes the rank of its run; a  *)
(* refresh that fails is logged.                                           *)
PollList ==
  /\ Concerns("priority") /\ poll = NoPoll
  /\ poll' = Edits[edit]
  /\ UNCHANGED <<scene, secret, handling, sends, answered, recorded, edit, restarts, pollFaults>>
RankKept(fails) == UNCHANGED row
RefreshRank(fails) == IF fails THEN UNCHANGED row ELSE UpdateQueuedPriority(PriorityRank(poll))
PollRefresh(fails) ==
  /\ poll # NoPoll
  /\ fails => pollFaults < MaxPollFaults
  /\ pollFaults' = IF fails THEN pollFaults + 1 ELSE pollFaults
  /\ poll' = NoPoll
  /\ RefreshRank(fails)
  /\ UNCHANGED <<scene, secret, handling, sends, answered, markers, bound, woke, acked, doubled, stranded,
                 decision, edit, restarts>>

(* The run is claimed, which keeps the rank it was claimed under.          *)
Claim ==
  /\ Concerns("priority") /\ row.state = "queued" /\ row' = [row EXCEPT !.state = "claimed"]
  /\ UNCHANGED <<secret, handling, sends, answered, markers, bound, woke, acked, doubled, stranded, decision, world>>
(* The poll takes the reply it finds as the answer.                        *)
TakeReply ==
  /\ decision.open /\ decision.reply # 0
  /\ decision' = [decision EXCEPT !.open = FALSE]
  /\ UNCHANGED <<secret, handling, sends, answered, markers, bound, woke, acked, doubled, stranded, row, world>>

WebhookNext ==
  \/ \E d \in Slots :
       \/ \E e \in scene, late \in BOOLEAN : Deliver(d, e, late)
       \/ \E fails \in BOOLEAN :
            Reload(d, fails) \/ unmark(d, fails)
       \/ \E ok \in BOOLEAN : Acknowledge(d, ok)
       \/ \E outcome \in Outcomes :
            Mark(d, outcome) \/ Reply(d, outcome) \/ reprioritize(d, outcome) \/ Wake(d, outcome) \/ WakeAfter(d, outcome)
       \/ ServeHTTP(d) \/ ackAndWake(d)
  \/ Restart \/ SecretRests \/ StoreSecret \/ EditPriority
  \/ PollList \/ (\E fails \in BOOLEAN : PollRefresh(fails)) \/ Claim \/ TakeReply

WebhookSpec == WebhookInit /\ [][WebhookNext]_webhookVars
(* The poll is started on a schedule, woken or not, and runs to its end.   *)
WebhookFair == WF_webhookVars(PollList) /\ WF_webhookVars(\E fails \in BOOLEAN : PollRefresh(fails))

-----------------------------------------------------------------------------
(* Properties *)

(* A delegation answered 200 started the dispatcher.  It did not only when *)
(* the session's marker outlived its delivery (a marker written with its   *)
(* reply lost, a failed unmark, a revision replaced at work), or when it   *)
(* was answered as already taken while the delivery that took it was still *)
(* to fail.                                                                *)
AnsweredSessionsWoke ==
  \A e \in answered : e.kind = "created" => e \in woke \/ e.session \in doubled \union stranded

(* What keeps it true: a delivery goes where its event sends it, one whose *)
(* wake was taken has woken, and a session marked is at work, stranded, or *)
(* one its own event has started the dispatcher for.                       *)
Handled == [at: {"reload", "check", "mark", "act", "unmark", "reply", "rank", "wake"}, ev: scene, late: BOOLEAN,
            signed: {0, 1}, ack: {"running", "done"}, wake: {"running", "done", "failed"}]
WebhookTypeOK ==
  /\ scene \in Scenes /\ woke \subseteq scene
  /\ secret \in [stored: {0, 1}, held: {0, 1}, resting: BOOLEAN]
  /\ handling \in [Slots -> {Idle} \union Handled]
InPlace(h) ==
  /\ h.at \in {"mark", "act", "unmark"} => h.ev.kind = "created"
  /\ h.at \in {"reply", "rank", "wake"} => h.ev.kind # "created"
  /\ h.at \in {"reload", "check", "mark"} => h.wake = "running"
  /\ h.at = "act" /\ h.wake = "done" => h.ev \in woke
MarkersExplained ==
  \A s \in markers : \/ Holders(s) # {} \/ s \in stranded
                     \/ \E e \in woke : e.kind = "created" /\ e.session = s
WebhookIInv == WebhookTypeOK /\ (\A d \in Slots : InPlace(handling[d])) /\ MarkersExplained /\ AnsweredSessionsWoke

(* A reply delivered again is harmless: the reply on record is the newest  *)
(* one recorded.                                                           *)
NewestReplyStands == decision.reply = decision.newest

(* However edits are delivered, late, twice or in the wrong order, a run   *)
(* left waiting ends with the rank of the priority its issue has.          *)
RankSettles == <>[](row.state = "queued" => row.rank = PriorityRank(Edits[edit]))
=============================================================================
