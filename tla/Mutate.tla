------------------------------- MODULE Mutate -------------------------------
(***************************************************************************)
(* scripts/mutate.py: the cases of a list are planted in the working tree  *)
(* one after the other, their tests are run and the file is put back,      *)
(* beside people who edit the file and doctor --fix.                       *)
(*                                                                         *)
(* Abstractions.  The heavy slot makes runs exclusive (module HeavySlot),  *)
(* so another holder of runs/.mutation.lock is a dead one.  The cases      *)
(* plant in one file, each at an anchor of its own: what they share, the   *)
(* journal, is one for all files.  The file is the edits in it and the     *)
(* cases whose plant it holds; the tests either catch a plant or do not,   *)
(* and fail on a file with a plant left in it.  The names of the tests are *)
(* methods', as all but four in the lists of the repository: the key finds *)
(* no file for them.                                                       *)
(***************************************************************************)
EXTENDS Job

CONSTANT PlantList     \* the cases of a run, in the order they are planted

Plantable == {PlantList[i] : i \in DOMAIN PlantList}

\* What a file can hold.
AnyFile == [edits : SUBSET Int, plants : SUBSET Plantable]

ASSUME MutateAssumption ==
  /\ PlantList \in Seq(Plantable) /\ PlantList # <<>>
  /\ Nil \notin [case : Plantable, original : AnyFile] \cup {"made", "owned"}

VARIABLES tree,      \* the file the cases plant in: [edits, plants]
          sharp,     \* the named tests catch the plants
          lock,      \* runs/.mutation.lock: Nil, "made" without its owner file, or "owned"
          journal,   \* runs/.mutation-journal.json: Nil or [case, original]
          cache,     \* runs/.mutation-cache.json: the keys of caught cases
          left,      \* history: <<case, why>> for the plants in the file that no journal
                     \* has to undo: their versions were "kept" for a human, a "signal"
                     \* cut the restore, "doctor" took the lock away, or somebody took
                     \* them out and a "hasty" write put them back
          hasty      \* history: edits made between a check of the file and the write
                     \* after it

mutateVars == <<tree, sharp, lock, journal, cache, left, hasty>>

Edit == 1..MaxEdit
MutateInit ==
  /\ tree = [edits |-> {}, plants |-> {}]
  /\ sharp \in IF tool = "mutate" THEN BOOLEAN ELSE {TRUE}
  /\ lock = Nil /\ journal = Nil /\ cache = {} /\ left = {} /\ hasty = {}

MutateTypeOK ==
  /\ tree \in [edits : SUBSET Edit, plants : SUBSET Plantable] /\ lock \in {Nil, "made", "owned"}
  /\ \A x \in left : x[1] \in tree.plants

Planted(f, c) == [f EXCEPT !.plants = @ \cup {c}]
Mutating == In("mutate")
ThisCase == PlantList[job.nr]

\* The current case has its result: the keys found true, and the next case.
CaseEnds(keys) ==
  /\ job' = [job EXCEPT !.pc = IF job.nr < Len(PlantList) THEN "key" ELSE "release", !.nr = @ + 1,
                        !.dirty = @ \cup keys, !.key = Nil, !.src = Nil, !.good = FALSE, !.caught = FALSE]
  /\ UNCHANGED used

(***************************************************************************)
(* held: the lock, and the recovery of what its dead owner left.           *)
(***************************************************************************)
MutateBegin ==
  /\ \E cached \in BOOLEAN :
       Begin([pc |-> "lock", cached |-> cached, nr |-> 1, dirty |-> {}, stop |-> FALSE,
              key |-> Nil, src |-> Nil, good |-> FALSE, caught |-> FALSE])
  /\ UNCHANGED mutateVars

LockTake ==
  /\ At("mutate", "lock") /\ lock = Nil
  /\ lock' = "made"
  /\ Goto("own")
  /\ UNCHANGED <<tree, sharp, journal, cache, left, hasty>>

LockOwn ==
  /\ At("mutate", "own")
  /\ lock' = "owned"
  /\ Goto("key")
  /\ UNCHANGED <<tree, sharp, journal, cache, left, hasty>>

\* The owner is dead: its plant is undone when the file holds exactly that.
LockRecover ==
  /\ At("mutate", "lock") /\ lock = "owned"
  /\ \/ journal = Nil /\ Goto("unown") /\ UNCHANGED <<tree, left>>
     \/ journal # Nil /\ tree # Planted(journal.original, journal.case) /\ Finish /\ UNCHANGED <<tree, left>>
     \/ /\ journal # Nil /\ tree = Planted(journal.original, journal.case)
        /\ tree' = journal.original /\ left' = {x \in left : x[1] # journal.case} /\ Goto("recovered")
  /\ UNCHANGED <<sharp, lock, journal, cache, hasty>>

LockRecovered ==
  /\ At("mutate", "recovered")
  /\ journal' = Nil
  /\ Goto("unown")
  /\ UNCHANGED <<tree, sharp, lock, cache, left, hasty>>

\* Nobody knows whether an owner without a name lives: the wait runs out.
LockTimeout ==
  /\ At("mutate", "lock") /\ lock = "made"
  /\ Finish
  /\ UNCHANGED mutateVars

\* The owner file goes first, then the directory; a recovery starts over, a run
\* that was cancelled is over.
LockUnown ==
  /\ Mutating /\ job.pc \in {"unown", "release"}
  /\ lock' = "made"
  /\ Goto(IF job.pc = "unown" THEN "rmdir" ELSE "free")
  /\ UNCHANGED <<tree, sharp, journal, cache, left, hasty>>

LockFree ==
  /\ Mutating /\ job.pc \in {"rmdir", "free"}
  /\ lock' = Nil
  /\ CASE job.pc = "rmdir" -> Goto("lock")
       [] job.pc = "free" /\ ~job.stop -> Goto("save")
       [] OTHER -> Finish
  /\ UNCHANGED <<tree, sharp, journal, cache, left, hasty>>

(***************************************************************************)
(* main and run_case.                                                      *)
(***************************************************************************)
KeyOf == [case |-> ThisCase, file |-> tree]

\* The verdict of the same case on the same bytes is reused.
CaseKey ==
  /\ At("mutate", "key")
  /\ CASE ~job.cached -> Goto("read")
       [] job.cached /\ KeyOf \in cache \cup job.dirty -> CaseEnds({})
       [] OTHER -> Set("key", KeyOf, "read")
  /\ UNCHANGED mutateVars

\* The file is read; without the anchor, once, the case is skipped.
ReadSource ==
  /\ At("mutate", "read")
  /\ IF ThisCase \in tree.plants THEN CaseEnds({}) ELSE Set("src", tree, "good")
  /\ UNCHANGED mutateVars

GoodRun ==
  /\ At("mutate", "good")
  /\ Set("good", tree.plants = {}, "recheck")
  /\ UNCHANGED mutateVars

\* Edited during the known-good run: nothing is planted.
Recheck ==
  /\ At("mutate", "recheck")
  /\ IF tree = job.src THEN Goto("journal") ELSE CaseEnds({})
  /\ UNCHANGED mutateVars

\* What a write of f over the file puts back that somebody took out.
Hasty(f) == {<<c, "hasty">> : c \in f.plants \ tree.plants}

\* Mutant of WriteJournal: the plant is written before its journal.
MutJournalLate ==
  /\ At("mutate", "journal")
  /\ tree' = Planted(job.src, ThisCase)
  /\ Goto("plant")
  /\ UNCHANGED <<sharp, lock, journal, cache, left, hasty>>

\* The journal of the case replaces the one of a case that ended in a conflict.
WriteJournal ==
  /\ At("mutate", "journal")
  /\ journal' = [case |-> ThisCase, original |-> job.src]
  /\ Goto("plant")
  /\ UNCHANGED <<tree, sharp, lock, cache, left, hasty>>

Plant ==
  /\ At("mutate", "plant")
  /\ tree' = Planted(job.src, ThisCase)
  /\ left' = left \cup Hasty(job.src)
  /\ Goto("bad")
  /\ UNCHANGED <<sharp, lock, journal, cache, hasty>>

BadRun ==
  /\ At("mutate", "bad")
  /\ Set("caught", job.good /\ ThisCase \in tree.plants /\ sharp, "restore")
  /\ UNCHANGED mutateVars

\* The plant of the current case stays in the file, for the reason why.
Leaves(why) == left' = IF ThisCase \in tree.plants THEN left \cup {<<ThisCase, why>>} ELSE left

\* Mutant of Restore: the original is written back without looking.
MutRestoreBlind ==
  /\ At("mutate", "restore")
  /\ Goto("undo")
  /\ UNCHANGED mutateVars

\* Bytes that are neither the plant nor the original are somebody's edit: they
\* stay with the journal, every version is kept aside and the case is void.  The
\* finally clause of a cancelled run does the same.
Restore ==
  /\ At("mutate", "restore")
  /\ \/ tree = Planted(job.src, ThisCase) /\ Goto("undo") /\ UNCHANGED left
     \/ tree = job.src /\ Goto("unjournal") /\ UNCHANGED left
     \/ /\ tree \notin {Planted(job.src, ThisCase), job.src}
        /\ IF job.stop THEN Goto("release") ELSE CaseEnds({})
        /\ Leaves("kept")
  /\ UNCHANGED <<tree, sharp, lock, journal, cache, hasty>>

Undo ==
  /\ At("mutate", "undo")
  /\ tree' = job.src
  /\ left' = {x \in left : x[1] # ThisCase} \cup Hasty(job.src)
  /\ Goto("unjournal")
  /\ UNCHANGED <<sharp, lock, journal, cache, hasty>>

\* The finally clause unlinks the journal of its case, what follows it any.
Unjournal ==
  /\ At("mutate", "unjournal")
  /\ LET mine == [case |-> ThisCase, original |-> job.src]
     IN journal' = IF job.stop /\ journal # mine THEN journal ELSE Nil
  /\ IF job.stop THEN Goto("release")
     ELSE CaseEnds(IF job.key # Nil /\ job.caught /\ tree = job.src THEN {job.key} ELSE {})
  /\ UNCHANGED <<tree, sharp, lock, cache, left, hasty>>

\* The cache was read under the slot, which is still held.
SaveCache ==
  /\ At("mutate", "save")
  /\ cache' = cache \cup job.dirty
  /\ Finish
  /\ UNCHANGED <<tree, sharp, lock, journal, left, hasty>>

(***************************************************************************)
(* The world beside it.                                                    *)
(***************************************************************************)
\* A signal: the finally clauses that are open run, the rest does not.  One that
\* comes within the restore cuts it.
MutateCancel ==
  /\ Mutating /\ job.pc # "own"
  /\ LET unplant == job.pc \in {"journal", "plant", "bad"}
         locked == job.pc \in {"key", "read", "good", "recheck", "restore", "undo", "unjournal"}
     IN CASE unplant -> Upset /\ job' = [job EXCEPT !.pc = "restore", !.stop = TRUE] /\ UNCHANGED left
          [] locked  -> /\ Upset /\ job' = [job EXCEPT !.pc = "release", !.stop = TRUE]
                        /\ IF job.pc \in {"restore", "undo", "unjournal"} THEN Leaves("signal") ELSE UNCHANGED left
          [] OTHER   -> Stops /\ UNCHANGED left
  /\ UNCHANGED <<tree, sharp, lock, journal, cache, hasty>>

MutateKill == Mutating /\ Stops /\ UNCHANGED mutateVars

\* Somebody edits the file, and may take plants out, or edits the tests.
TreeEdit ==
  /\ ByOthers
  /\ \E e \in Edit \ tree.edits, plants \in SUBSET tree.plants :
       /\ e = used.edit + 1
       /\ tree' = [edits |-> tree.edits \cup {e}, plants |-> plants]
       /\ left' = {x \in left : x[1] \in plants}
       /\ hasty' = IF Mutating /\ job.pc \in {"journal", "plant", "undo"} THEN hasty \cup {e} ELSE hasty
  /\ UNCHANGED <<job, sharp, lock, journal, cache>>

TestEdit ==
  /\ ByOthers
  /\ sharp' = ~sharp
  /\ UNCHANGED <<job, tree, lock, journal, cache, left, hasty>>

\* doctor --fix removes the lock of a dead owner, and nothing else.  Beside a
\* recovery that is under way it is left out.
DoctorFix ==
  /\ ByOthers
  /\ lock = "owned" /\ (job = Nil \/ At("mutate", "lock"))
  /\ lock' = Nil
  /\ left' = left \cup {<<c, "doctor">> : c \in {d \in tree.plants : \A x \in left : x[1] # d}}
  /\ UNCHANGED <<job, tree, sharp, journal, cache, hasty>>

MutateNext ==
  \/ MutateBegin \/ LockTake \/ LockOwn \/ LockRecover \/ LockRecovered \/ LockTimeout \/ LockUnown \/ LockFree
  \/ CaseKey \/ ReadSource \/ GoodRun \/ Recheck \/ WriteJournal \/ Plant \/ BadRun
  \/ Restore \/ Undo \/ Unjournal \/ SaveCache
  \/ MutateCancel \/ MutateKill \/ TreeEdit \/ TestEdit \/ DoctorFix

(***************************************************************************)
(* Properties.                                                             *)
(***************************************************************************)
\* The journal has the file without the plant of c and nobody's edit less.
Undoes(c) ==
  /\ journal # Nil /\ journal.case = c
  /\ c \notin journal.original.plants /\ journal.original.edits \subseteq tree.edits

Left(c) == \E x \in left : x[1] = c

\* Whatever kill or signal cuts a run, whoever edits the file meanwhile and though
\* one journal serves all cases: a plant on disk is one that the journal undoes,
\* or it was left there by a conflict whose versions are kept aside, a signal in
\* the middle of the restore, a doctor who took the lock of the dead owner away,
\* or a write over the edit that had taken it out.
PlantIsJournaled == \A c \in tree.plants : Undoes(c) \/ Left(c)

\* An edit somebody made while the tests ran, or between runs, is never lost
\* to a restore or to the recovery of a dead run's plant; only one that falls
\* between a check of the file and the write right after it may be.
OthersEditsStay == [][tree.edits \subseteq tree'.edits \cup hasty]_tree
=============================================================================
