------------------------------ MODULE Figures -------------------------------
(***************************************************************************)
(* The rewrite figures of the merged pull requests, as the Autonomy page   *)
(* draws them: rates pooled over trailing windows, the rolling series, and *)
(* the splits by size, model and repository, beside the owner's auto-merge *)
(* switch and the rate's own verdict.                                      *)
(*                                                                         *)
(* The state is what the page reads: the measured merges, newest first,    *)
(* and the switch.  A rate is an exact fraction; a rate over none of the   *)
(* agent's lines is Inf.                                                   *)
(***************************************************************************)
EXTENDS Integers, Sequences, FiniteSets, FiniteSetsExt, SequencesExt

CONSTANTS TrailingPRs, ShortPRs, SeriesPoints, MinPRsForSpread,
          BarPercent,     \* AutoMergeRate, in percent
          MeasuredShown,  \* how many merges the page reads
          Measurements,   \* what a merge may be measured as
          KnownRepos,     \* the repositories a request may name
          Fold,           \* [repositories -> their name without regard to case]
          MaxMerges, MaxReverts

(* What GitHub says of a commit: the account it resolved, the Rework        *)
(* trailer and the lines, which it does not give for every commit.          *)
CommitRows == [login : {"runner", "owner", "other", "none"}, trailer : {"review-found", "owner-change", "none"},
               additions : Nat, deletions : Nat, unmeasured : BOOLEAN]

ASSUME FiguresAssumption ==
  /\ {TrailingPRs, SeriesPoints, MinPRsForSpread, MeasuredShown} \subseteq Nat \ {0}
  /\ BarPercent \in Nat /\ ShortPRs \in 1..TrailingPRs /\ TrailingPRs <= MeasuredShown
  /\ {MaxMerges, MaxReverts} \subseteq Nat
  /\ {"", "refused"} \cap KnownRepos = {}
  /\ \A mm \in Measurements : mm.commits \in Seq(CommitRows)

VARIABLES samples,  \* the measured merges, newest first
          switch    \* the dispatch/auto-merge document: "absent", "on", "off"

figureVars == <<samples, switch>>

-----------------------------------------------------------------------------
(* Lines and rates *)

LineKinds == {"agent", "owner", "reviewFound", "ownerChange", "unlabelled", "unmeasured"}

reworkOf(c) == IF c.trailer \in {"review-found", "owner-change"} THEN c.trailer ELSE "none"

(* A commit is the agent's only by the account GitHub resolved it to; any  *)
(* other commit is the owner's, under what its Rework trailer marks.       *)
LinesOf(c) ==
  LET kinds == IF c.login = "runner" THEN {"agent"}
               ELSE {"owner", CASE reworkOf(c) = "review-found" -> "reviewFound"
                                [] reworkOf(c) = "owner-change" -> "ownerChange"
                                [] OTHER -> "unlabelled"}
  IN [k \in LineKinds |-> CASE k \in kinds       -> c.additions + c.deletions
                            [] k = "unmeasured"  -> IF c.unmeasured THEN 1 ELSE 0
                            [] OTHER             -> 0]

(* Commits: GitHub gives no line counts for some commits, and a listing    *)
(* cut at the page cap ends in an unmeasured one.                          *)
Uncounted(c) == [c EXCEPT !.unmeasured = TRUE, !.additions = 0, !.deletions = 0]
Commits(listed, capped) ==
  [i \in DOMAIN listed |-> IF listed[i].unmeasured THEN Uncounted(listed[i]) ELSE listed[i]]
    \o IF capped THEN <<[login |-> "none", trailer |-> "none", additions |-> 0, deletions |-> 0,
                         unmeasured |-> TRUE]>> ELSE <<>>

RewriteOf(commits) ==
  [k \in LineKinds |-> SumFunction([i \in DOMAIN commits |-> LinesOf(commits[i])[k]])]

(* The lines of the merges at some places of a list, and of all of it. *)
LinesAt(s, places) == [k \in LineKinds |-> SumFunction([i \in places |-> s[i].lines[k]])]
Lines(s)           == LinesAt(s, DOMAIN s)

Inf == [n |-> 1, d |-> 0]
Rate(l) == IF l.agent > 0 THEN [n |-> l.owner, d |-> l.agent]
           ELSE IF l.owner > 0 THEN Inf ELSE [n |-> 0, d |-> 1]
Less(x, y) == x.n * y.d < y.n * x.d
Mean(x, y) == [n |-> x.n * y.d + y.n * x.d, d |-> 2 * x.d * y.d]

(* printedTenths: a rate in tenths of a percent, to the nearest and a tie  *)
(* to the even one, as PercentText prints it.                              *)
printedTenths(rate) ==
  LET q == (1000 * rate.n) \div rate.d
      r == 2 * ((1000 * rate.n) % rate.d)
  IN IF r > rate.d \/ (r = rate.d /\ q % 2 = 1) THEN q + 1 ELSE q

(* The page's words: "none" over none of the agent's lines, else a figure. *)
rateText(rate)             == IF rate = Inf THEN "none" ELSE ToString(printedTenths(rate))
linesRateText(agent, rate) == IF agent <= 0 THEN "none" ELSE rateText(rate)

-----------------------------------------------------------------------------
(* Windows, the series and trends *)

FirstFew(s, n) == SubSeq(s, 1, Min({n, Len(s)}))

WindowRate(s, n) ==
  LET covered == FirstFew(s, n)
  IN [prs |-> [i \in DOMAIN covered |-> covered[i].pr], asked |-> n,
      lines |-> Lines(covered), rate |-> Rate(Lines(covered))]

trendOf(rate, previous, earlier) ==
  LET latest == printedTenths(rate) - printedTenths(previous)
      before == printedTenths(previous) - printedTenths(earlier)
  IN CASE latest >= 5 /\ before > 0  -> "up"
       [] latest <= -5 /\ before < 0 -> "down"
       [] OTHER -> "flat"

(* A trend needs three full windows, each with lines of the agent's. *)
trendedWindow(s, n) ==
  LET w     == [i \in 0..2 |-> WindowRate(SubSeq(s, i + 1, Len(s)), n)]
      shown == Len(s) >= n + 2 /\ \A i \in 0..2 : w[i].lines.agent > 0
  IN [window |-> w[0], hasPrevious |-> shown, previous |-> w[1].rate,
      trend |-> IF shown THEN trendOf(w[0].rate, w[1].rate, w[2].rate) ELSE "flat"]

Tiles(s) == <<trendedWindow(s, TrailingPRs), trendedWindow(s, ShortPRs), trendedWindow(s, 1)>>

(* A variant of RollingSeries that keeps its oldest points. *)
OldestSeries(s, n, points) ==
  LET at(i)  == LET w == WindowRate(SubSeq(s, i, Len(s)), n)
                IN [repo |-> s[i].repo, pr |-> s[i].pr, agent |-> w.lines.agent, rate |-> w.rate]
      count  == IF Len(s) < n THEN 0 ELSE Min({points, Len(s) - n + 1})
  IN [j \in 1..count |-> at(Len(s) - n + 2 - j)]

(* RollingSeries: one point per merge with n merges up to and including    *)
(* it, oldest first, the newest points of them.                            *)
RollingSeries(s, n, points) ==
  LET at(i)  == LET w == WindowRate(SubSeq(s, i, Len(s)), n)
                IN [repo |-> s[i].repo, pr |-> s[i].pr, agent |-> w.lines.agent, rate |-> w.rate]
      count  == IF Len(s) < n THEN 0 ELSE Min({points, Len(s) - n + 1})
  IN [j \in 1..count |-> at(count - j + 1)]

-----------------------------------------------------------------------------
(* Groups *)

(* A group is a set of places in the list of merges.  Ranked is the order  *)
(* of its places by their rates, ascending.                                *)
RateAt(s, i) == Rate(s[i].lines)
Ranked(s, places) ==
  CHOOSE p \in [1..Cardinality(places) -> places] :
    \A j, k \in DOMAIN p : j < k => p[j] # p[k] /\ ~Less(RateAt(s, p[k]), RateAt(s, p[j]))

(* The rates of the merges with lines of the agent's, ascending. *)
measuredRates(s, places) ==
  LET p == Ranked(s, {i \in places : s[i].lines.agent > 0})
  IN [j \in DOMAIN p |-> RateAt(s, p[j])]

medianOf(sorted) ==
  LET n == Len(sorted)
  IN IF n % 2 = 1 THEN sorted[n \div 2 + 1] ELSE Mean(sorted[n \div 2], sorted[n \div 2 + 1])

(* The rate at rank ceil(9n/10). *)
nearestRank(sorted) == sorted[(9 * Len(sorted) + 9) \div 10]

GroupOf(s, places) ==
  LET rates  == measuredRates(s, places)
      noneOf == {i \in places : s[i].lines.agent <= 0}
      spread == Cardinality(places) >= MinPRsForSpread /\ rates # <<>>
  IN [prs |-> Cardinality(places), lines |-> LinesAt(s, places), rate |-> Rate(LinesAt(s, places)),
      spread |-> spread,
      median |-> IF spread THEN medianOf(rates) ELSE Inf,
      p90 |-> IF spread THEN nearestRank(rates) ELSE Inf,
      noAgentPRs |-> Cardinality(noneOf), noAgentOwner |-> LinesAt(s, noneOf).owner]

(* The merges grouped by what key says of each, one group a name. *)
GroupsBy(s, key, names) == [g \in names |-> GroupOf(s, {i \in DOMAIN s : key[i] = g})]

(* A variant of SizeBucket without the unsized bucket. *)
OwnSize(size) == size

SizeBucket(size) == IF size \in {"S", "M", "L"} THEN size ELSE "unsized"
BySize(s) == GroupsBy(s, [i \in DOMAIN s |-> SizeBucket(s[i].size)], {"S", "M", "L", "unsized"})

(* PhaseModel: the one model of a phase's steps, "none" for several. *)
PhaseModel(steps, phase) ==
  LET models == {steps[i].model : i \in {j \in DOMAIN steps : steps[j].phase = phase}} \ {"none"}
  IN IF Cardinality(models) = 1 THEN CHOOSE m \in models : TRUE ELSE "none"

modelOrUnknown(model) == IF model = "none" THEN "unknown" ELSE model

(* The models of a phase, each with its group: a model no merge names has  *)
(* none.                                                                   *)
groupByModel(s, phase) ==
  LET name == [i \in DOMAIN s |-> modelOrUnknown(s[i].models[phase])]
  IN GroupsBy(s, name, {name[i] : i \in DOMAIN s})
ByModel(s) == [phase \in {"plan", "build", "review"} |-> groupByModel(s, phase)]

ReposOf(s)        == {s[i].repo : i \in DOMAIN s}
OfRepos(s, names) == SelectSeq(s, LAMBDA x : x.repo \in names)

(* "" is a merge whose row names no repository: the unattributed entry. *)
ByRepo(s) ==
  LET groups == GroupsBy(s, [i \in DOMAIN s |-> s[i].repo], ReposOf(s))
  IN [repo \in ReposOf(s) |->
        LET own == OfRepos(s, {repo})
        IN [tiles |-> Tiles(own), series |-> RollingSeries(own, TrailingPRs, SeriesPoints),
            average |-> groups[repo]]]

(* A request's repository is matched without regard to case. *)
ForRepo(s, repo) == OfRepos(s, {r \in ReposOf(s) : Fold[r] = Fold[repo]})

-----------------------------------------------------------------------------
(* The rate's verdict *)

Reverts(s)     == Cardinality({i \in DOMAIN s : s[i].auto /\ s[i].reverted})
allMeasured(s) == \A i \in DOMAIN s : s[i].lines.unmeasured = 0

AutoMergeOn(s) ==
  LET window == FirstFew(s, TrailingPRs)
      l      == Lines(window)
      reason == IF ~allMeasured(window) \/ Len(window) < TrailingPRs THEN "too-few-measured"
                ELSE IF l.agent <= 0 THEN "no-agent-lines"
                ELSE IF 100 * l.owner > BarPercent * l.agent THEN "rate-above-bar"
                ELSE IF Reverts(window) > 0 THEN "reverted" ELSE "on"
  IN [withinBar |-> reason = "on", reason |-> reason, prs |-> Len(window),
      rate |-> Rate(l), reverted |-> Reverts(window)]

(* RateText prints 0.0% for a window without lines that is not full or not *)
(* all measured.                                                           *)
verdictText(d) == IF d.reason = "no-agent-lines" THEN "none" ELSE rateText(d.rate)

-----------------------------------------------------------------------------
(* The page *)

renderTile(t) ==
  [prs |-> t.window.prs, asked |-> t.window.asked, agent |-> t.window.lines.agent,
   owner |-> t.window.lines.owner, rate |-> linesRateText(t.window.lines.agent, t.window.rate),
   previous |-> IF t.hasPrevious THEN <<t.previous>> ELSE <<>>, trend |-> t.trend]
renderTiles(tiles) == [i \in DOMAIN tiles |-> renderTile(tiles[i])]
renderSeries(series) ==
  [i \in DOMAIN series |-> [repo |-> series[i].repo, pr |-> series[i].pr,
                            rate |-> linesRateText(series[i].agent, series[i].rate)]]

(* Each merge, with the rate pooled over the window it ends. *)
renderPRs(s) ==
  [i \in DOMAIN s |->
     [pr |-> s[i].pr, repo |-> s[i].repo, size |-> SizeBucket(s[i].size),
      rate |-> linesRateText(s[i].lines.agent, Rate(s[i].lines)),
      models |-> [phase \in {"plan", "build", "review"} |-> modelOrUnknown(s[i].models[phase])],
      trailing |-> IF i + TrailingPRs - 1 <= Len(s)
                   THEN LET l == Lines(SubSeq(s, i, i + TrailingPRs - 1))
                        IN <<linesRateText(l.agent, Rate(l))>>
                   ELSE <<>>]]

renderGroup(g) ==
  [prs |-> g.prs, lines |-> g.lines, noAgentPRs |-> g.noAgentPRs, noAgentOwner |-> g.noAgentOwner,
   rate |-> IF g.prs > 0 THEN <<linesRateText(g.lines.agent, g.rate)>> ELSE <<>>,
   median |-> IF g.spread THEN <<rateText(g.median)>> ELSE <<>>,
   p90 |-> IF g.spread THEN <<rateText(g.p90)>> ELSE <<>>]
renderSizes(rows)     == [b \in DOMAIN rows |-> renderGroup(rows[b])]
renderModelRows(rows) == [mdl \in DOMAIN rows |-> renderGroup(rows[mdl])]
renderModels(models)  == [phase \in DOMAIN models |-> renderModelRows(models[phase])]
renderRepos(rows) ==
  [repo \in DOMAIN rows |-> [tiles |-> renderTiles(rows[repo].tiles),
                             series |-> renderSeries(rows[repo].series),
                             average |-> renderGroup(rows[repo].average)]]

renderRewrite(s) ==
  [tiles |-> renderTiles(Tiles(s)),
   series |-> renderSeries(RollingSeries(s, TrailingPRs, SeriesPoints)),
   prs |-> renderPRs(s), bySize |-> renderSizes(BySize(s)),
   byModel |-> renderModels(ByModel(s)), byRepo |-> renderRepos(ByRepo(s))]

(* A switch that could not be read reports off; one never set is on. *)
Enabled == switch # "off"
autoMergeSwitch(readable) == [on |-> readable /\ Enabled, read |-> readable]

renderAutoMerge(s, sw) ==
  LET rate == AutoMergeOn(s)
      on   == sw.on /\ sw.read
  IN [switchOn |-> on, rateAllows |-> rate.withinBar, rateValue |-> verdictText(rate), effective |-> on,
      reason |-> IF ~sw.read THEN "switch-unread" ELSE IF ~on THEN "switch-off" ELSE rate.reason]

renderAutonomy(s, repo, sw) ==
  [autoMerge |-> renderAutoMerge(s, sw),
   rewrite |-> renderRewrite(IF repo = "" THEN s ELSE ForRepo(s, repo))]

(* scopeRepo: a request names one repository, or none at all; any other    *)
(* form of the parameter is refused.                                       *)
scopeRepo(named) == CASE named = <<>> -> ""
                      [] Len(named) = 1 /\ named[1] \in KnownRepos -> named[1]
                      [] OTHER -> "refused"

(* GET /api/autonomy reads the newest MeasuredShown merges, the read of    *)
(* the merges failing or not, then the switch.                             *)
autonomy(named, mergesRead, switchRead) ==
  LET repo == scopeRepo(named)
  IN IF repo = "refused" THEN [status |-> 400]
     ELSE IF ~mergesRead THEN [status |-> 500]
     ELSE [status |-> 200, view |-> renderAutonomy(FirstFew(samples, MeasuredShown), repo,
                                                   autoMergeSwitch(switchRead))]

-----------------------------------------------------------------------------
(* What changes the page *)

FiguresInit == samples = <<>> /\ switch = "absent"

(* A poll measures a merge, the newest of all. *)
ModelsOf(mm) == [phase \in {"plan", "build", "review"} |->
                   IF phase = "plan" THEN mm.plan ELSE PhaseModel(mm.steps, phase)]
Measure(mm) ==
  /\ Len(samples) < MaxMerges
  /\ samples' = <<[pr |-> Len(samples) + 1, repo |-> mm.repo, size |-> mm.size, models |-> ModelsOf(mm),
                   lines |-> RewriteOf(Commits(mm.commits, mm.capped)), auto |-> mm.auto,
                   reverted |-> FALSE]>> \o samples
  /\ UNCHANGED switch

(* A poll flags a merge that a merged revert names. *)
Flag(i) ==
  /\ ~samples[i].reverted
  /\ Cardinality({j \in DOMAIN samples : samples[j].reverted}) < MaxReverts
  /\ samples' = [samples EXCEPT ![i].reverted = TRUE]
  /\ UNCHANGED switch

(* The switch, set from the Configuration page or by the runner's          *)
(* auto-merge command.  A request whose body is no setting, a name that is *)
(* none and a store that fails change nothing.                             *)
Set(on) == switch' = IF on THEN "on" ELSE "off"
setAutoMerge(on)     == Set(on) /\ UNCHANGED samples
autoMergeCommand(on) == Set(on) /\ UNCHANGED samples

FiguresNext == \/ \E mm \in Measurements : Measure(mm)
               \/ \E i \in DOMAIN samples : Flag(i)
               \/ \E on \in BOOLEAN : setAutoMerge(on) \/ autoMergeCommand(on)

FiguresSpec == FiguresInit /\ [][FiguresNext]_figureVars

-----------------------------------------------------------------------------
(* Properties *)

(* The merges a page draws. *)
Shown == FirstFew(samples, MeasuredShown)

(* What is measured of a merge: its lines by kind, the owner's being those  *)
(* its commits are labelled with.                                           *)
MergeLines == {l \in [LineKinds -> Nat] : l.owner = l.reviewFound + l.ownerChange + l.unlabelled}
Merges == [pr : Nat, repo : {mm.repo : mm \in Measurements}, size : {mm.size : mm \in Measurements},
           models : {ModelsOf(mm) : mm \in Measurements}, lines : MergeLines,
           auto : {mm.auto : mm \in Measurements}, reverted : BOOLEAN]
FiguresTypeOK == samples \in Seq(Merges) /\ switch \in {"absent", "on", "off"}

(* On the page as a whole: the series, the merges' rates, the tile and the *)
(* verdict are of the same windows.                                        *)
OneRate(page) ==
  LET v == page.rewrite
      n == Len(v.series)
  IN /\ \A k \in 1..n : v.prs[k].trailing = <<v.series[n - k + 1].rate>>
     /\ n > 0 => v.series[n].rate = v.tiles[1].rate
     /\ n = 0 <=> Len(samples) < TrailingPRs
     /\ \/ page.autoMerge.rateValue = v.tiles[1].rate
        \/ /\ AutoMergeOn(samples).reason = "too-few-measured"
           /\ v.tiles[1].agent = 0 /\ v.tiles[1].owner = 0
(* Between a repository's entry on it and the page scoped to it. *)
EntryAgrees(page, repo, scoped) ==
  LET byRepo == page.rewrite.byRepo
  IN /\ scoped.autoMerge = page.autoMerge
     /\ (\A other \in DOMAIN byRepo : Fold[other] = Fold[repo] => other = repo) =>
          /\ scoped.rewrite.tiles = byRepo[repo].tiles
          /\ scoped.rewrite.series = byRepo[repo].series
(* The page never disagrees with itself: the rolling series is the         *)
(* trailing rate each merge of the list carries, its newest point is the   *)
(* trailing tile, the verdict prints the tile's rate, except over a window *)
(* without lines that is too little measured, and a page scoped to a       *)
(* repository that the rows spell in one way draws the tiles and series    *)
(* its entry on the whole page has.                                        *)
FiguresAgree ==
  LET page == autonomy(<<>>, TRUE, TRUE).view
  IN /\ OneRate(page)
     /\ \A repo \in DOMAIN page.rewrite.byRepo \cap KnownRepos :
          EntryAgrees(page, repo, autonomy(<<repo>>, TRUE, TRUE).view)

(* Every split of the page accounts for every merge and every line once:   *)
(* the sizes, each phase's models and the repositories add up to the whole *)
(* list, and the owner's lines are those its commits are labelled with.    *)
AddUp(groups, whole) ==
  /\ SumFunction([g \in DOMAIN groups |-> groups[g].prs]) = whole.prs
  /\ SumFunction([g \in DOMAIN groups |-> groups[g].noAgentPRs]) = whole.noAgentPRs
  /\ SumFunction([g \in DOMAIN groups |-> groups[g].noAgentOwner]) = whole.noAgentOwner
  /\ \A k \in LineKinds : SumFunction([g \in DOMAIN groups |-> groups[g].lines[k]]) = whole.lines[k]
SplitsAddUp ==
  LET v == autonomy(<<>>, TRUE, TRUE).view.rewrite
      whole == renderGroup(GroupOf(Shown, DOMAIN Shown))
  IN /\ AddUp(v.bySize, whole)
     /\ \A phase \in DOMAIN v.byModel : AddUp(v.byModel[phase], whole)
     /\ AddUp([repo \in DOMAIN v.byRepo |-> v.byRepo[repo].average], whole)
     /\ whole.lines.owner = whole.lines.reviewFound + whole.lines.ownerChange + whole.lines.unlabelled

(* A group's spread is one of its merges' own rates, whichever merges it   *)
(* is of: the median lies between the smallest and the largest, the p90    *)
(* not under the median, and the pooled rate inside them while every merge *)
(* has lines of the agent's.                                               *)
NotOver(x, y) == ~Less(y, x)
SpreadIsOrdered ==
  \A places \in SUBSET DOMAIN Shown :
    LET g     == GroupOf(Shown, places)
        rates == measuredRates(Shown, places)
    IN g.spread =>
         /\ NotOver(rates[1], g.median) /\ NotOver(g.median, g.p90)
         /\ NotOver(g.p90, rates[Len(rates)])
         /\ g.noAgentPRs = 0 => NotOver(rates[1], g.rate) /\ NotOver(g.rate, rates[Len(rates)])

(* Both, of every page drawn: no split loses or repeats a merge, and no     *)
(* spread is out of order (renderAutonomy, GroupOf).                        *)
GroupsAreSound == SplitsAddUp /\ SpreadIsOrdered
=============================================================================
