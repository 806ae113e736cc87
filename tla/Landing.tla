------------------------------- MODULE Landing -------------------------------
(***************************************************************************)
(* scripts/land.py: reserved files are gated in a detached worktree,       *)
(* committed there, and main is fast-forwarded to that commit, beside      *)
(* other committers and people who edit the checkout.                      *)
(*                                                                         *)
(* Abstractions.  A revision is the sequence of the trees committed up to  *)
(* it, so that ancestry is being a prefix.  A tree gives the landed path   *)
(* and the rest a version each.  The heavy slot makes landings exclusive.  *)
(* PATH::TEXT lands the edit alone, a plain PATH the file as it is.        *)
(***************************************************************************)
EXTENDS Job, SequencesExt

VARIABLES main,       \* refs/heads/main of the checkout
          checkout,   \* the versions in its working tree
          index,      \* .git/index.lock of the checkout: free, held or stale
          holds,      \* another pane holds a reservation on the path
          worktree,   \* ~/.localbench/tmp/wt-NAME: Nil, or [base, tree, commit]
          landed      \* history: revisions landed, with the base and tree gated

landVars == <<main, checkout, index, holds, worktree, landed>>

Version == 0..MaxEdit
Tree == [path : Version, rest : Version]

LandInit ==
  /\ main = << [path |-> 0, rest |-> 0] >>
  /\ checkout = [path |-> 0, rest |-> 0]
  /\ index = "free" /\ holds \in IF tool = "land" THEN BOOLEAN ELSE {FALSE}
  /\ worktree = Nil /\ landed = {}

LandTypeOK ==
  /\ main \in Seq(Tree) /\ checkout \in Tree
  /\ index \in {"free", "held", "stale"}
  /\ worktree # Nil => worktree.base \in Seq(Tree) /\ worktree.tree \in Tree

Landing == In("land")

\* refuse_if_locked; nobody but a person removes a lock.
LandBegin ==
  /\ index = "free" /\ ~holds
  /\ \E hunks \in BOOLEAN :
       Begin([pc |-> "add", hunks |-> hunks, gated |-> Nil, old |-> Nil, keep |-> FALSE])
  /\ UNCHANGED landVars

\* Agent Mail cannot be reached: the owner may confirm the landing.
LandUnreserved ==
  /\ holds /\ index = "free" /\ Upset
  /\ job = Nil /\ used.run < MaxRun
  /\ job' = [pc |-> "add", hunks |-> FALSE, gated |-> Nil, old |-> Nil, keep |-> FALSE]
  /\ UNCHANGED landVars

\* A leftover worktree of that name is not touched.
LandLeftover ==
  /\ At("land", "add") /\ worktree # Nil
  /\ Finish
  /\ UNCHANGED landVars

WorktreeAdd ==
  /\ At("land", "add") /\ worktree = Nil
  /\ worktree' = [base |-> main, tree |-> Last(main), commit |-> Nil]
  /\ Goto("copy")
  /\ UNCHANGED <<main, checkout, index, holds, landed>>

\* Hunks are taken against HEAD as it is now and applied to HEAD's file: the
\* result does not depend on the worktree's base.
LandCopy ==
  /\ At("land", "copy")
  /\ worktree' = [worktree EXCEPT !.tree.path = checkout.path]
  /\ Goto("gates")
  /\ UNCHANGED <<main, checkout, index, holds, landed>>

\* The kept hunk does not match HEAD, or a gate is red: no landing.
LandRed ==
  /\ Landing /\ job.pc \in {"copy", "gates", "mutate", "commit"}
  /\ (job.pc = "copy" => job.hunks)
  /\ Fails("cleanup")
  /\ UNCHANGED landVars

\* ruff and the whole suite.
LandGates ==
  /\ At("land", "gates")
  /\ Set("gated", [base |-> worktree.base, tree |-> worktree.tree], "mutate")
  /\ UNCHANGED landVars

\* The mutation gates that select_mutations names.
LandMutations ==
  /\ At("land", "mutate")
  /\ Goto("commit")
  /\ UNCHANGED landVars

\* Mutant of LandCommit: the file is copied again before the commit.
MutCommitFresh ==
  /\ At("land", "commit")
  /\ LET tree == [worktree.tree EXCEPT !.path = checkout.path]
     IN worktree' = [worktree EXCEPT !.tree = tree, !.commit = Append(worktree.base, tree)]
  /\ Goto("locked")
  /\ UNCHANGED <<main, checkout, index, holds, landed>>

LandCommit ==
  /\ At("land", "commit")
  /\ worktree' = [worktree EXCEPT !.commit = Append(worktree.base, worktree.tree)]
  /\ Goto("locked")
  /\ UNCHANGED <<main, checkout, index, holds, landed>>

\* The second look at the index lock leaves through the cleanup.
LandLocked ==
  /\ At("land", "locked")
  /\ Goto(IF index = "free" THEN "ancestor" ELSE "cleanup")
  /\ UNCHANGED landVars

\* advance_main: main as it is now must be an ancestor of the commit ...
LandAncestor ==
  /\ At("land", "ancestor")
  /\ IF IsPrefix(main, worktree.commit) THEN Set("old", main, "update") ELSE Set("keep", TRUE, "cleanup")
  /\ UNCHANGED landVars

\* Mutant of LandUpdate: update-ref is not told the old value.
MutUpdateBlind ==
  /\ At("land", "update")
  /\ main' = worktree.commit
  /\ landed' = landed \cup {[base |-> worktree.base, tree |-> Last(worktree.commit), gated |-> job.gated]}
  /\ Goto("reset")
  /\ UNCHANGED <<checkout, index, holds, worktree>>

\* ... and must still be that when the ref is set.
LandUpdate ==
  /\ At("land", "update")
  /\ \/ /\ main = job.old
        /\ main' = worktree.commit
        /\ landed' = landed \cup {[base |-> worktree.base, tree |-> Last(worktree.commit), gated |-> job.gated]}
        /\ Goto("reset")
     \/ main # job.old /\ Set("keep", TRUE, "cleanup") /\ UNCHANGED <<main, landed>>
  /\ UNCHANGED <<checkout, index, holds, worktree>>

\* The index follows; when that fails main has moved all the same.
LandReset ==
  /\ At("land", "reset")
  /\ \/ Goto("cleanup")
     \/ Upset /\ job' = [job EXCEPT !.pc = "cleanup", !.keep = TRUE]
  /\ UNCHANGED landVars

\* Every way out, a signal's too, but a failed update removes the worktree.
LandCleanup ==
  /\ At("land", "cleanup")
  /\ worktree' = IF job.keep THEN worktree ELSE Nil
  /\ Finish
  /\ UNCHANGED <<main, checkout, index, holds, landed>>

LandSignal ==
  /\ Landing /\ job.pc \notin {"add", "cleanup"}
  /\ Fails("cleanup")
  /\ UNCHANGED landVars

LandKill == Landing /\ Stops /\ UNCHANGED landVars

(***************************************************************************)
(* The others.                                                             *)
(***************************************************************************)
\* Somebody edits the path or the rest of the checkout.
CheckoutEdit ==
  /\ ByOthers
  /\ \E f \in {"path", "rest"} : checkout' = [checkout EXCEPT ![f] = used.edit + 1]
  /\ UNCHANGED <<job, main, index, holds, worktree, landed>>

\* A commit in the checkout holds the index while it runs, and moves main.
CommitBegin ==
  /\ index = "free" /\ Last(main) # checkout
  /\ index' = "held"
  /\ UNCHANGED <<jobVars, main, checkout, holds, worktree, landed>>

CommitEnd ==
  /\ index = "held"
  /\ \/ index' = "free" /\ main' = Append(main, checkout) /\ UNCHANGED used
     \/ index' = "stale" /\ Upset /\ UNCHANGED main
  /\ UNCHANGED <<job, checkout, holds, worktree, landed>>

\* A person removes a stale lock or a leftover worktree.
LandTidy ==
  /\ \/ index = "stale" /\ index' = "free" /\ UNCHANGED worktree
     \/ worktree # Nil /\ ~Landing /\ worktree' = Nil /\ UNCHANGED index
  /\ UNCHANGED <<jobVars, main, checkout, holds, landed>>

LandNext ==
  \/ LandBegin \/ LandUnreserved \/ LandLeftover \/ WorktreeAdd \/ LandCopy \/ LandRed
  \/ LandGates \/ LandMutations \/ LandCommit \/ LandLocked \/ LandAncestor \/ LandUpdate \/ LandReset
  \/ LandCleanup \/ LandSignal \/ LandKill
  \/ CheckoutEdit \/ CommitBegin \/ CommitEnd \/ LandTidy

(***************************************************************************)
(* Properties.                                                             *)
(***************************************************************************)
\* main only grows: no landing takes back what somebody committed while the
\* gates ran, or between the check of the ancestry and the update of the ref.
MainOnlyGrows == [][IsPrefix(main, main')]_main

\* What landed is what was gated: that tree, on that base, whatever moved in
\* the checkout in between.
LandedIsGated ==
  \A l \in landed : l.gated = [base |-> l.base, tree |-> l.tree]
=============================================================================
