------------------------------ MODULE Evidence ------------------------------
(***************************************************************************)
(* The screenshots a run pushes for its pull request: the shots artifact   *)
(* is read and placed whole or refused whole, and committed on top of one  *)
(* evidence branch that every run of the repository pushes to, by a move   *)
(* of the ref that may lose to another run's and is then rebuilt.          *)
(*                                                                         *)
(* The branch is the sequence of its commits, each the set of the files it *)
(* holds.  Blobs, image addresses and the table in the body are left out.  *)
(***************************************************************************)
EXTENDS Integers, Sequences, SequencesExt, Shapes

CONSTANTS PRs,                  \* the pull requests with a shots artifact
          Artifact,             \* [PRs -> the files of its shots artifact]
          evidencePushAttempts  \* how often a lost ref race is rebuilt

ASSUME EvidenceAssumption == evidencePushAttempts \in Nat \ {0}

VARIABLES branch,   \* the evidence branch's commits, none before its first
          push      \* what the job of each pull request is doing

evidenceVars == <<branch, push>>

-----------------------------------------------------------------------------
(* The artifact *)

ShotWidths == {"s", "m", "l", "xl"}

(* A PNG outside a viewport's folder, not a regular file or over the limit *)
(* refuses the set; other files are ignored.                               *)
ReadShots(files) ==
  LET pngs == {f \in files : f.png} IN
  [shots |-> pngs, refused |-> \E f \in pngs : ~f.regular \/ f.oversize \/ f.width \notin ShotWidths]

(* A file named index shows its folder's page.                             *)
shotRoute(f) == IF Last(f.page) = "index" THEN Front(f.page) ELSE f.page
evidencePath(pr, sha, f) == [folder |-> pr, sha |-> sha, width |-> f.width, page |-> f.page]

(* A name the table cannot show, or a second shot for its one cell of a    *)
(* route and a viewport, refuses the set.                                  *)
PlaceShots(shots, pr, sha) ==
  [files   |-> {evidencePath(pr, sha, f) : f \in shots},
   refused |-> \/ \E f \in shots : ~f.showable
               \/ \E f, g \in shots : f # g /\ shotRoute(f) = shotRoute(g) /\ f.width = g.width]

-----------------------------------------------------------------------------
(* The push *)

NoPush == [pc |-> "read", files |-> {}, tip |-> 0, commit |-> {}, tries |-> 0]

EvidenceInit == branch = <<>> /\ push = [p \in PRs |-> NoPush]

(* The artifact read and placed at the head the pull request is at; a run  *)
(* that captured none ends there.                                          *)
publishScreenshots(p) ==
  LET read   == ReadShots(Artifact[p])
      placed == PlaceShots(read.shots, p, "head") IN
  /\ push[p].pc = "read"
  /\ push' = [push EXCEPT ![p] = IF read.refused \/ read.shots = {} \/ placed.refused
                                 THEN [@ EXCEPT !.pc = "none"]
                                 ELSE [@ EXCEPT !.pc = "tip", !.files = placed.files]]
  /\ UNCHANGED branch

TreeAlone(files) == files
(* A commit is laid over the tree at the tip, so other folders survive.    *)
evidenceBaseTree(files) == IF branch = <<>> THEN files ELSE Last(branch) \cup files
evidenceTip(p) ==
  /\ push[p].pc = "tip"
  /\ push' = [push EXCEPT ![p] = [@ EXCEPT !.pc = "move", !.tip = Len(branch), !.commit = evidenceBaseTree(push[p].files)]]
  /\ UNCHANGED branch

(* The ref moves only from the tip that was read: a lost create or update  *)
(* is a race to rebuild from, up to the limit.                             *)
refRace(p) == Len(branch) # push[p].tip
commitEvidence(p) ==
  /\ push[p].pc = "move"
  /\ IF refRace(p)
     THEN /\ UNCHANGED branch
          /\ push' = [push EXCEPT ![p] = [@ EXCEPT !.tries = push[p].tries + 1,
                        !.pc = IF push[p].tries + 1 < evidencePushAttempts THEN "tip" ELSE "failed"]]
     ELSE /\ branch' = Append(branch, push[p].commit)
          /\ push' = [push EXCEPT ![p].pc = "body"]
(* Any other failure of a call ends the job.                               *)
PushFails(p) ==
  /\ push[p].pc \in {"tip", "move", "body"}
  /\ push' = [push EXCEPT ![p].pc = "failed"]
  /\ UNCHANGED branch
(* The section of the body is replaced, or appended to one written before  *)
(* it existed.                                                             *)
editBody(p) ==
  /\ push[p].pc = "body"
  /\ push' = [push EXCEPT ![p].pc = "shown"]
  /\ UNCHANGED branch

EvidenceNext ==
  \E p \in PRs : publishScreenshots(p) \/ evidenceTip(p) \/ commitEvidence(p) \/ PushFails(p) \/ editBody(p)

EvidenceSpec == EvidenceInit /\ [][EvidenceNext]_evidenceVars

-----------------------------------------------------------------------------
(* Properties *)

(* Once the ref moved for a pull request its screenshots stay on the       *)
(* branch, all of them and none of a refused artifact, however many other  *)
(* runs read the same tip, lose the race and rebuild.                      *)
ScreenshotsStay ==
  \A p \in PRs :
    LET shown == IF branch = <<>> THEN {} ELSE {f \in Last(branch) : f.folder = p} IN
    IF push[p].pc \in {"body", "shown"}
    THEN {f.page : f \in shown} = {f.page : f \in {g \in Artifact[p] : g.png}}
    ELSE push[p].pc # "failed" => shown = {}

-----------------------------------------------------------------------------
(* What keeps it true *)

(* The files of an artifact that is not refused, and all there may be.     *)
ShotFiles(p) == {evidencePath(p, "head", f) : f \in {g \in Artifact[p] : g.png}}
AllShots == UNION {ShotFiles(p) : p \in PRs}
Tree == IF branch = <<>> THEN {} ELSE Last(branch)
PushFields == {"pc", "files", "tip", "commit", "tries"}
EvidenceTypeOK ==
  /\ branch \in Seq(SUBSET AllShots)
  /\ Shaped(push, PRs) /\ \A p \in PRs : Shaped(push[p], PushFields)
(* A commit made on the tip that is still the branch's holds its tree.     *)
CommitIsOfTip ==
  \A p \in PRs :
    /\ push[p].pc \in {"tip", "move"} => push[p].files = ShotFiles(p)
    /\ push[p].pc = "move" => /\ push[p].tip \in 0..Len(branch)
                              /\ push[p].tip = Len(branch) => push[p].commit = Tree \cup ShotFiles(p)
(* Each folder of the tree is whole or not there.                          *)
FoldersAreWhole ==
  \A p \in PRs :
    LET shown == {f \in Tree : f.folder = p} IN
    /\ push[p].pc \in {"body", "shown"} => shown = ShotFiles(p)
    /\ push[p].pc \notin {"body", "shown", "failed"} => shown = {}
EvidenceIInv == EvidenceTypeOK /\ CommitIsOfTip /\ FoldersAreWhole
=============================================================================
