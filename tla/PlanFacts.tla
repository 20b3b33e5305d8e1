----------------------------- MODULE PlanFacts -----------------------------
(***************************************************************************)
(* The refresh of a provider plan's facts: it reads the vendor's page and  *)
(* model list, the leaderboard and the free feed, any of which may fail,   *)
(* diffs them against the newest document and writes one dated document    *)
(* more.  And the owner's own record of the plan, which no refresh writes: *)
(* its definition, its verdict and the consents given on it.               *)
(***************************************************************************)
EXTENDS Integers, FiniteSets, FiniteSetsExt

CONSTANTS FirstWorlds, \* what the sources may say on the first day
          Changes,     \* what a source may say instead, by source
          Days,        \* days in all
          RecordedPrice,
          Definitions, Harnesses,
          MaxDefines   \* times the plan is defined

(* Each source says something of its own; a feed that does not list the    *)
(* plan names no model of it.                                              *)
ASSUME PlanFactsAssumption ==
  /\ Days \in Nat \ {0} /\ MaxDefines \in Nat
  /\ \A w \in FirstWorlds : /\ w = [page |-> w.page, models |-> w.models, board |-> w.board, feed |-> w.feed]
                            /\ ~w.feed.listed => w.feed.models = {}
  /\ \A v \in Changes["feed"] : ~v.listed => v.models = {}

VARIABLES was,        \* what the sources say, day by day
          reading,    \* the document a refresh has read and not yet written
          facts,      \* the documents written, by date
          definition, \* the plan's definition
          verdict,    \* the verdict on its terms, and the replies it was given
          consent,    \* the consents on record
          given,      \* the billing each consent was given for
          offered,    \* a harness whose opt-in has been checked and not yet written
          defines

factsVars == <<was, reading, facts>>
ownerPlanVars == <<definition, verdict, consent, given, offered, defines>>
planFactsVars == <<factsVars, ownerPlanVars>>

Sources == {"page", "models", "board", "feed"}
NoFacts == [readOn |-> 0]
Unread == [state |-> "none", on |-> 0]
NoFeed == [price |-> 0, models |-> {}, disagrees |-> FALSE]
Undefined == [billing |-> "", harnesses |-> {}]
Blank == [readOn |-> 0, page |-> "", models |-> <<>>, feed |-> NoFeed, source |-> [s \in Sources |-> Unread]]

PlanFactsInit ==
  /\ was \in {<<w>> : w \in FirstWorlds}
  /\ reading = NoFacts
  /\ facts = [d \in 1..Days |-> NoFacts]
  /\ definition = Undefined /\ verdict = [is |-> "unconfirmed", replies |-> 0]
  /\ consent = [opted |-> FALSE, private |-> FALSE, harness |-> {}]
  /\ given = [opted |-> "", private |-> ""]
  /\ offered = "none" /\ defines = 0

-----------------------------------------------------------------------------
(* The refresh *)

Today == Cardinality(DOMAIN was)
World == was[Today]

(* What each source says when it can be read: the words of the page's      *)
(* region, the vendor's own list, the score of a model under its own name, *)
(* and what the feed says of the plan.                                     *)
Page == World.page
VendorModels == World.models
BoardScore(m) == World.board[m]
FeedPlan == World.feed
(* A status other than 200, a reply too long or one that does not decode   *)
(* is a source unread, and any of them may be.                             *)
Failures == SUBSET Sources

Dates == {d \in 1..Days : facts[d] # NoFacts}
LatestFacts == IF Dates = {} THEN Blank ELSE facts[Max(Dates)]

(* A source that was read has today's date and whether it moved, one that  *)
(* was not keeps the date it was last read.                                *)
classify(unread, changed, before) ==
  IF unread THEN [state |-> "could-not-read", on |-> before.on]
  ELSE [state |-> IF changed THEN "changed" ELSE "unchanged", on |-> Today]

listsModel(m) == m \in FeedPlan.models

(* A source that could not be read keeps what the last document holds of   *)
(* a model; a model that document does not hold has nothing to keep.       *)
FreshModel(m, last, unread) ==
  [feed |-> "feed" \notin unread /\ listsModel(m), score |-> IF "board" \in unread THEN 0 ELSE BoardScore(m)]
model(m, last, unread) ==
  LET seen == m \in DOMAIN last.models IN
  [feed |-> IF seen /\ "feed" \in unread THEN last.models[m].feed ELSE "feed" \notin unread /\ listsModel(m),
   score |-> IF seen /\ "board" \in unread THEN last.models[m].score
             ELSE IF "board" \in unread THEN 0 ELSE BoardScore(m)]
models(last, unread) ==
  [m \in IF "models" \in unread THEN DOMAIN last.models ELSE VendorModels |-> model(m, last, unread)]

(* The page's words, kept when it could not be read.                       *)
carriedPage(last, unread) == IF "page" \in unread THEN last.page ELSE Page

(* The feed's report of the plan, which it may not list; its figures never *)
(* replace the recorded plan's, and where they differ the report says so.  *)
disagreements(price) == price # RecordedPrice
feed(last, unread) ==
  CASE "feed" \in unread -> last.feed
    [] "feed" \notin unread /\ ~FeedPlan.listed -> NoFeed
    [] OTHER -> [price |-> FeedPlan.price, models |-> FeedPlan.models,
                 disagrees |-> disagreements(FeedPlan.price)]

modelChanges(last, now) == DOMAIN last.models # DOMAIN now
(* A model scored that was not, no longer scored, or scored differently.   *)
scoreChanges(last, now) ==
  \E m \in DOMAIN now : now[m].score # (IF m \in DOMAIN last.models THEN last.models[m].score ELSE 0)
pageChanges(last, now) == last.source["page"].state = "none" \/ last.page # now
feedChanges(last, now) == last.feed.price # now.price \/ last.feed.models # now.models

RefreshPlan(last, unread) ==
  LET page == carriedPage(last, unread)
      list == models(last, unread)
      report == feed(last, unread)
      changed == [page |-> pageChanges(last, page), models |-> modelChanges(last, list),
                  board |-> scoreChanges(last, list), feed |-> feedChanges(last, report)] IN
  [readOn |-> Today, page |-> page, models |-> list, feed |-> report,
   source |-> [s \in Sources |-> classify(s \in unread, changed[s], last.source[s])]]

(* One refresh a day: it reads every source, then writes the document.     *)
ReadPlan(unread) ==
  /\ reading = NoFacts /\ facts[Today] = NoFacts
  /\ reading' = RefreshPlan(LatestFacts, unread)
  /\ UNCHANGED <<was, facts, ownerPlanVars>>
PutFacts(fails) ==
  /\ reading # NoFacts
  /\ facts' = IF fails THEN facts ELSE [facts EXCEPT ![reading.readOn] = reading]
  /\ reading' = NoFacts
  /\ UNCHANGED <<was, ownerPlanVars>>
(* The next day, on which one source may say something else.               *)
NextDay(s, v) ==
  /\ Today < Days /\ reading = NoFacts
  /\ was' = [d \in 1..Today + 1 |-> IF d <= Today THEN was[d] ELSE [World EXCEPT ![s] = v]]
  /\ UNCHANGED <<reading, facts, ownerPlanVars>>

FactsNext ==
  \/ \E unread \in Failures : ReadPlan(unread)
  \/ \E fails \in BOOLEAN : PutFacts(fails)
  \/ \E s \in Sources : \E v \in Changes[s] : NextDay(s, v)

-----------------------------------------------------------------------------
(* The owner's commands *)

Defined == definition # Undefined

(* One transaction: another billing withdraws the consents given for it.   *)
ConsentKept(def) == consent
Reconsent(def) ==
  IF def.billing # definition.billing THEN [consent EXCEPT !.opted = FALSE, !.private = FALSE] ELSE consent
PutDefinition(def) ==
  /\ defines < MaxDefines /\ defines' = defines + 1
  /\ definition' = def
  /\ consent' = Reconsent(def)
  /\ UNCHANGED <<verdict, given, offered, factsVars>>

RecordVerdict(v) ==
  /\ Defined /\ verdict' = [verdict EXCEPT !.is = v]
  /\ UNCHANGED <<definition, consent, given, offered, defines, factsVars>>
AddReply(v) ==
  /\ Defined /\ verdict.replies = 0 /\ verdict' = [is |-> v, replies |-> 1]
  /\ UNCHANGED <<definition, consent, given, offered, defines, factsVars>>

(* A consent is one field of the record, written without reading it.       *)
setConsent(field, yes) ==
  /\ Defined
  /\ consent' = [consent EXCEPT ![field] = yes]
  /\ given' = [given EXCEPT ![field] = definition.billing]
  /\ UNCHANGED <<definition, verdict, offered, defines, factsVars>>

(* A harness is opted in after a look at what the plan offers.             *)
OffersHarness(h) ==
  /\ offered = "none" /\ Defined /\ h \in definition.harnesses
  /\ offered' = h
  /\ UNCHANGED <<definition, verdict, consent, given, defines, factsVars>>
SetHarnessOptIn ==
  /\ offered # "none"
  /\ consent' = [consent EXCEPT !.harness = @ \union {offered}]
  /\ offered' = "none"
  /\ UNCHANGED <<definition, verdict, given, defines, factsVars>>
WithdrawHarness(h) ==
  /\ Defined /\ consent' = [consent EXCEPT !.harness = @ \ {h}]
  /\ UNCHANGED <<definition, verdict, given, offered, defines, factsVars>>

OwnerPlanNext ==
  \/ \E def \in Definitions : PutDefinition(def)
  \/ \E v \in {"allowed", "restricted"} : RecordVerdict(v) \/ AddReply(v)
  \/ \E field \in {"opted", "private"}, yes \in BOOLEAN : setConsent(field, yes)
  \/ \E h \in Harnesses : OffersHarness(h) \/ WithdrawHarness(h)
  \/ SetHarnessOptIn

PlanFactsSpec == PlanFactsInit /\ [][FactsNext \/ OwnerPlanNext]_planFactsVars

-----------------------------------------------------------------------------
(* Properties *)

(* A source that goes quiet never moves a figure: whatever failed on the   *)
(* days before, what a document holds of a source is what that source said *)
(* on the date the document gives for it.  A model's score may be missing  *)
(* only if a document since that date did not hold the model.              *)
Faithful(f, d) ==
  LET on(s) == f.source[s].on
      saidOf(s) == was[on(s)] IN
  /\ on("page") # 0 => f.page = saidOf("page").page
  /\ on("models") # 0 => DOMAIN f.models = saidOf("models").models
  /\ on("feed") # 0 => f.feed.models = saidOf("feed").feed.models
  /\ on("board") # 0 => \A m \in DOMAIN f.models :
       \/ f.models[m].score = saidOf("board").board[m]
       \/ f.models[m].score = 0 /\ \E e \in Dates : e \in on("board")..d /\ m \notin DOMAIN facts[e].models
FactsAreWhatWasSaid == \A d \in Dates : Faithful(facts[d], d)

(* What keeps it true: a document dates its sources no later than itself,  *)
(* and so does the one a refresh has read, which is of today and the first *)
(* of today.                                                               *)
Dated(f, d) == \A s \in Sources : f.source[s].on \in 0..d
FactsTypeOK ==
  /\ \E n \in 1..Days : DOMAIN was = 1..n
  /\ \A d \in DOMAIN was :
       /\ was[d] = [page |-> was[d].page, models |-> was[d].models, board |-> was[d].board, feed |-> was[d].feed]
       /\ ~was[d].feed.listed => was[d].feed.models = {}
  /\ facts = [d \in 1..Days |-> facts[d]]
  /\ \A d \in Dates : d <= Today
FactsIInv ==
  /\ FactsTypeOK
  /\ \A d \in Dates : Dated(facts[d], d) /\ Faithful(facts[d], d)
  /\ reading # NoFacts => /\ reading.readOn = Today /\ facts[Today] = NoFacts
                          /\ Dated(reading, Today) /\ Faithful(reading, Today)

(* Consent given for one kind of billing never carries to another.         *)
ConsentIsForThisBilling ==
  \A field \in {"opted", "private"} : consent[field] => given[field] = definition.billing

(* The types the owner's commands keep.                                    *)
Billings == {""} \union {def.billing : def \in Definitions}
OwnerPlanTypeOK ==
  /\ definition \in Definitions \union {Undefined}
  /\ consent \in [opted: BOOLEAN, private: BOOLEAN, harness: SUBSET Harnesses]
  /\ given \in [opted: Billings, private: Billings]
  /\ offered \in Harnesses \union {"none"}
=============================================================================
