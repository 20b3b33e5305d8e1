------------------------------ MODULE Rewrites ------------------------------
(***************************************************************************)
(* The measuring phase of a poll: each merged pull request of a run has    *)
(* its lines measured onto the run's row, and the rows of the pull         *)
(* requests a merged revert names are flagged.                             *)
(*                                                                         *)
(* A poll lists each repository's closed pull requests once and works      *)
(* through that listing; polls overlap, and neither the read of a row's    *)
(* measurement and the write that follows it nor the flag is one           *)
(* transaction.                                                            *)
(***************************************************************************)
EXTENDS Integers, Sequences, FiniteSets, FiniteSetsExt

CONSTANTS Pulls,     \* pull requests
          About,     \* [Pulls -> what each says: repo, number, head, title,
                     \*  the pull request its body and title take back]
          Branches,  \* the heads that carry the runner's prefix
          Runs,
          Attempts,  \* [Runs -> the pull requests its attempts open, in order]
          Repos,     \* the configured repositories, in order
          ListCap,
          Measurers  \* polls that may overlap

RepoNames   == {About[x].repo : x \in Pulls} \cup {Repos[i] : i \in DOMAIN Repos}
OwnPulls(r) == {Attempts[r][i] : i \in DOMAIN Attempts[r]}

(* A number names one pull request of its repository.  A run has one       *)
(* repository, and a branch carries the run's id, so that only the run's   *)
(* own pull requests come from its branches.                               *)
ASSUME RewritesAssumption ==
  /\ ListCap \in Nat \ {0} /\ IsFiniteSet(Pulls)
  /\ Attempts \in [Runs -> Seq(Pulls)]
  /\ \A x \in Pulls : About[x].number \in Nat \ {0} /\ About[x].head # "none"
  /\ \A x, y \in Pulls : About[x].repo = About[y].repo /\ About[x].number = About[y].number => x = y
  /\ \A r \in Runs : \A x, y \in OwnPulls(r) : About[x].repo = About[y].repo
  /\ \A r \in Runs : \A x \in Pulls, y \in OwnPulls(r) : About[x].head = About[y].head => x \in OwnPulls(r)

VARIABLES merged,    \* when each pull request merged, 0 when it has not
          updated,   \* each repository's merged pull requests, most recently
                     \* updated first
          runRows,   \* the run rows: what names their pull requests, and the
                     \* measurement and revert flag a poll writes
          unfound,   \* the pull requests marked as naming no run
          measuring  \* what each poll is doing

rewriteVars == <<merged, updated, runRows, unfound, measuring>>

-----------------------------------------------------------------------------
(* State *)

NoPull == [repo |-> "none", number |-> 0]
NewRow(r) == [repo |-> About[Attempts[r][1]].repo, opened |-> 0, branch |-> "none", branches |-> {},
              page |-> NoPull, number |-> 0, superseded |-> 0, measured |-> 0, reverted |-> FALSE]
(* A poll's listing of one repository and where it has got to.  What a     *)
(* phase reports as errors, a listing cut while its last page still held   *)
(* unmeasured merges among them, is left out.                              *)
Idle == [pc |-> "idle", repo |-> 0, list |-> <<>>, at |-> 1, row |-> "none"]

PageOf(x) == [repo |-> About[x].repo, number |-> About[x].number]

RewritesInit ==
  /\ merged = [x \in Pulls |-> 0]
  /\ updated = [repo \in RepoNames |-> <<>>]
  /\ runRows = [r \in Runs |-> NewRow(r)]
  /\ unfound = {}
  /\ measuring = [p \in Measurers |-> Idle]

(* A revert names the pull request its body names, in its own repository;  *)
(* without one, the run's merge of the listing whose title it quotes.      *)
byTitle(list, title) ==
  LET named == {i \in DOMAIN list : About[list[i]].title = title /\ About[list[i]].head \in Branches}
  IN IF named = {} THEN 0 ELSE About[list[Max(named)]].number
revertedPR(x, list) ==
  IF About[x].reverts # NoPull
  THEN IF About[x].reverts.repo = About[x].repo THEN About[x].reverts.number ELSE 0
  ELSE IF About[x].quotes # "none" THEN byTitle(list, About[x].quotes) ELSE 0

(* A variant of RunForMerged that takes a number for its repository's own. *)
AnyRepoRun(x) ==
  LET ways == <<{r \in Runs : runRows[r].branch = About[x].head},
                {r \in Runs : runRows[r].number = About[x].number}>>
      found == {i \in DOMAIN ways : ways[i] # {}}
  IN IF found = {} THEN {} ELSE ways[Min(found)]

(* RunForMerged: the row's branch, its earlier branches, the page it       *)
(* opened, then the numbers, which name a pull request of any repository.  *)
RunForMerged(x) ==
  LET ways == <<{r \in Runs : runRows[r].branch = About[x].head},
                {r \in Runs : About[x].head \in runRows[r].branches},
                {r \in Runs : runRows[r].page = PageOf(x)},
                {r \in Runs : runRows[r].number = About[x].number /\ runRows[r].repo = About[x].repo},
                {r \in Runs : runRows[r].superseded = About[x].number /\ runRows[r].repo = About[x].repo}>>
      found == {i \in DOMAIN ways : ways[i] # {}}
  IN IF found = {} THEN {} ELSE ways[Min(found)]

-----------------------------------------------------------------------------
(* GitHub and the runs *)

(* A run's next attempt opens its pull request: the row takes its branch   *)
(* and page, and a requeue that replaced an attempt left its number.       *)
OpenPR(r) ==
  /\ runRows[r].opened < Len(Attempts[r])
  /\ LET row == runRows[r]
         x   == Attempts[r][row.opened + 1]
     IN runRows' = [runRows EXCEPT ![r] =
          [row EXCEPT !.opened = row.opened + 1, !.branch = About[x].head,
                      !.branches = row.branches \cup {About[x].head},
                      !.page = PageOf(x), !.superseded = row.page.number]]
  /\ UNCHANGED <<merged, updated, unfound, measuring>>

Opened(x) == \A r \in Runs : \A i \in DOMAIN Attempts[r] : Attempts[r][i] = x => i <= runRows[r].opened

(* A pull request merges; a revert only of one that merged. *)
MergePR(x) ==
  /\ merged[x] = 0 /\ Opened(x)
  /\ About[x].reverts # NoPull => \E y \in Pulls : PageOf(y) = About[x].reverts /\ merged[y] # 0
  /\ merged' = [merged EXCEPT ![x] = 1 + Cardinality({y \in Pulls : merged[y] # 0})]
  /\ updated' = [updated EXCEPT ![About[x].repo] = <<x>> \o updated[About[x].repo]]
  /\ UNCHANGED <<runRows, unfound, measuring>>

-----------------------------------------------------------------------------
(* A poll *)

Closed(repo) == updated[repo]

(* The next repository of the poll, whose listing may be cut at the cap. *)
Turn(p, repo) == \/ measuring[p].pc = "idle" /\ repo = 1
                 \/ measuring[p].pc = "next" /\ repo = measuring[p].repo + 1
After(repo)   == IF repo = Len(Repos) THEN Idle ELSE [Idle EXCEPT !.pc = "next", !.repo = repo]

ListClosed(p, repo) ==
  LET all == Closed(Repos[repo])
  IN /\ Turn(p, repo)
     /\ measuring' = [measuring EXCEPT ![p] =
          [Idle EXCEPT !.pc = "measure", !.repo = repo,
                       !.list = IF Len(all) <= ListCap THEN all ELSE SubSeq(all, 1, ListCap)]]
     /\ UNCHANGED <<merged, updated, runRows, unfound>>

(* A repository whose listing fails is skipped. *)
ListingFails(p, repo) ==
  /\ Turn(p, repo)
  /\ measuring' = [measuring EXCEPT ![p] = After(repo)]
  /\ UNCHANGED <<merged, updated, runRows, unfound>>

Current(p) == measuring[p].list[measuring[p].at]
Working(p, pc) == measuring[p].pc = pc /\ measuring[p].at <= Len(measuring[p].list)
MovedOn(poll)  == [poll EXCEPT !.pc = "measure", !.at = poll.at + 1, !.row = "none"]

(* A pull request naming no run is marked once, by whichever poll and      *)
(* whichever of its two reads comes first.                                 *)
MarkUnfound(found) == unfound' = unfound \cup found

(* A variant of ReadRow that measures a merge whatever the row carries. *)
ReadAnyRow(p) ==
  /\ Working(p, "measure")
  /\ LET named == RunForMerged(Current(p))
     IN measuring' = [measuring EXCEPT ![p] =
          IF named = {} THEN MovedOn(measuring[p]) ELSE [measuring[p] EXCEPT !.pc = "write", !.row = CHOOSE r \in named : TRUE]]
  /\ UNCHANGED <<merged, updated, runRows, unfound>>

(* measureMerged reads the row: a pull request naming none is marked once, *)
(* a row that carries this merge's measurement is left alone.              *)
ReadRow(p) ==
  /\ Working(p, "measure")
  /\ LET x == Current(p)
         named == RunForMerged(x)
     IN \/ /\ About[x].head \notin Branches
           /\ measuring' = [measuring EXCEPT ![p] = MovedOn(measuring[p])]
           /\ UNCHANGED unfound
        \/ /\ About[x].head \in Branches /\ named = {}
           /\ MarkUnfound({x})
           /\ measuring' = [measuring EXCEPT ![p] = MovedOn(measuring[p])]
        \/ \E r \in named :
             /\ About[x].head \in Branches
             /\ measuring' = [measuring EXCEPT ![p] =
                  IF runRows[r].measured = merged[x] THEN MovedOn(measuring[p])
                  ELSE [measuring[p] EXCEPT !.pc = "write", !.row = r]]
             /\ UNCHANGED unfound
  /\ UNCHANGED <<merged, updated, runRows>>

(* Record: the measurement is of the merge the row now carries, and clears *)
(* the flag of an earlier one.                                             *)
Record(p) ==
  /\ Working(p, "write")
  /\ LET poll == measuring[p]
         x    == Current(p)
     IN /\ runRows' = [runRows EXCEPT ![poll.row] = [runRows[poll.row] EXCEPT
             !.measured = merged[x], !.number = About[x].number, !.reverted = FALSE]]
        /\ measuring' = [measuring EXCEPT ![p] = MovedOn(measuring[p])]
  /\ UNCHANGED <<merged, updated, unfound>>

(* The row could not be read, or the commits, or the write failed: the     *)
(* next poll retries.                                                      *)
MeasureFails(p) ==
  /\ Working(p, "write") \/ (Working(p, "measure") /\ About[Current(p)].head \in Branches)
  /\ measuring' = [measuring EXCEPT ![p] = MovedOn(measuring[p])]
  /\ UNCHANGED <<merged, updated, runRows, unfound>>

(* Every measurement has landed: the reverts come next. *)
MeasuresDone(p) ==
  /\ measuring[p].pc = "measure" /\ measuring[p].at > Len(measuring[p].list)
  /\ measuring' = [measuring EXCEPT ![p] = [measuring[p] EXCEPT !.pc = "flag", !.at = 1]]
  /\ UNCHANGED <<merged, updated, runRows, unfound>>

(* flagReverted: the pull request named must be a run's and have merged    *)
(* before the revert did; one outside the listing is read from GitHub.     *)
FlagReverted(p) ==
  /\ Working(p, "flag")
  /\ LET x == Current(p)
         originals == {y \in Pulls : /\ About[y].repo = About[x].repo
                                     /\ About[y].number = revertedPR(x, measuring[p].list)
                                     /\ merged[y] # 0 /\ merged[y] < merged[x]
                                     /\ About[y].head \in Branches}
         named == UNION {RunForMerged(y) : y \in originals}
     IN /\ runRows' = [r \in Runs |-> IF r \in named THEN [runRows[r] EXCEPT !.reverted = TRUE] ELSE runRows[r]]
        /\ MarkUnfound({y \in originals : RunForMerged(y) = {}})
  /\ measuring' = [measuring EXCEPT ![p] = [measuring[p] EXCEPT !.at = measuring[p].at + 1]]
  /\ UNCHANGED <<merged, updated>>

(* The pull request it names, its row or the write failed: the next poll   *)
(* retries.                                                                *)
FlagFails(p) ==
  /\ Working(p, "flag") /\ revertedPR(Current(p), measuring[p].list) # 0
  /\ measuring' = [measuring EXCEPT ![p] = [measuring[p] EXCEPT !.at = measuring[p].at + 1]]
  /\ UNCHANGED <<merged, updated, runRows, unfound>>

RepoDone(p) ==
  /\ measuring[p].pc = "flag" /\ measuring[p].at > Len(measuring[p].list)
  /\ measuring' = [measuring EXCEPT ![p] = After(measuring[p].repo)]
  /\ UNCHANGED <<merged, updated, runRows, unfound>>

PollStep(p) == \/ \E repo \in DOMAIN Repos : ListClosed(p, repo)
               \/ ReadRow(p) \/ Record(p)
               \/ MeasuresDone(p) \/ FlagReverted(p) \/ RepoDone(p)
RewritesNext == \/ \E r \in Runs : OpenPR(r)
                \/ \E x \in Pulls : MergePR(x)
                \/ \E p \in Measurers : \/ PollStep(p) \/ MeasureFails(p) \/ FlagFails(p)
                                          \/ \E repo \in DOMAIN Repos : ListingFails(p, repo)

(* A poll that started runs on, and the scheduler starts the next; the     *)
(* reads it makes do not fail for ever.                                    *)
RewritesSpec == RewritesInit /\ [][RewritesNext]_rewriteVars
RewritesFair == /\ \A p \in Measurers : WF_rewriteVars(PollStep(p))
                /\ \A repo \in DOMAIN Repos :
                     SF_rewriteVars(\E p \in Measurers : ListClosed(p, repo))
                /\ \A x \in Pulls : SF_rewriteVars(\E p \in Measurers : Record(p) /\ x = Current(p))
                /\ \A x \in {y \in Pulls : About[y].reverts # NoPull \/ About[y].quotes # "none"} :
                     SF_rewriteVars(\E p \in Measurers : FlagReverted(p) /\ x = Current(p))

-----------------------------------------------------------------------------
(* Properties *)

(* A run's row is only ever measured from, and flagged for, a pull request *)
(* the run opened itself: numbers repeat between repositories and a branch *)
(* pushed by hand carries the prefix, and neither reaches another's row.   *)
MeasuredOnOwnRow ==
  \A r \in Runs :
    LET own == {x \in OwnPulls(r) : merged[x] # 0}
    IN /\ runRows[r].measured # 0 => \E x \in own : /\ merged[x] = runRows[r].measured
                                                    /\ About[x].number = runRows[r].number
       /\ runRows[r].reverted => own # {}

(* A merged revert that stays in the listing ends with the row of the run  *)
(* it takes back flagged for good, whatever polls overlapped and whichever *)
(* of their measurements cleared the flag on the way.                      *)
SoleMerge(r, y) == OwnPulls(r) = {y}
RevertsEndFlagged ==
  \A r \in Runs, x, y \in Pulls :
    (SoleMerge(r, y) /\ About[x].reverts = PageOf(y)) =>
      ((<>[](/\ merged[x] # 0
             /\ \E i \in 1..Min({ListCap, Len(Closed(About[x].repo))}) : Closed(About[x].repo)[i] = x))
        => <>[](runRows[r].reverted))
=============================================================================
