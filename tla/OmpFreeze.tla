------------------------------ MODULE OmpFreeze ------------------------------
(***************************************************************************)
(* ompfreeze.py and _with_frozen_omp: several localbench processes freeze  *)
(* the installed omp into snapshots, hold the one they run and prune the   *)
(* others, while omp is updated under them.                                *)
(*                                                                         *)
(* Abstractions.  A version stands for a snapshot id.  A snapshot's files  *)
(* are the entry and the rest, each from the version that was installed    *)
(* when it was copied.  A lock file is an inode; a path names it until it  *)
(* is unlinked, a process keeps the one it opened.                         *)
(***************************************************************************)
EXTENDS Job, SequencesExt

CONSTANTS Proc,        \* the processes
          MaxVersion,  \* bound of the installed version
          KeepNewest   \* KEEP: how many snapshots retention keeps

VARIABLES installed, \* the installed version
          snap,      \* version -> Nil or [entry, rest, whole, changed]
          newest,    \* the snapshots, newest first
          lockPath,  \* version -> the inode its lock path names, 0 for none
          st,        \* process -> its place and locals
          dropped    \* history: versions removed without the lock their path names

freezeVars == <<installed, snap, newest, lockPath, st, dropped>>

Version == 0..MaxVersion
Inode == 1..(Cardinality(Proc) + MaxVersion + 2)
Snapshot == [entry : Version, rest : Version, whole : BOOLEAN, changed : BOOLEAN]

ASSUME FreezeAssumption ==
  KeepNewest \in Nat \ {0} /\ MaxVersion \in Nat /\ IsFiniteSet(Proc) /\ Nil \notin Snapshot

Place == {"idle", "copy", "rest", "rename", "probe", "verify", "prune", "remove", "unlink", "used",
          "open", "lock", "check", "work", "recheck", "publish", "marked"}
Idle == [pc |-> "idle", kind |-> Nil, id |-> 0, created |-> FALSE, victims |-> {}, victim |-> 0,
         entry |-> 0, rest |-> 0, ino |-> 0, lock |-> "none", dirty |-> FALSE]

FreezeInit ==
  /\ installed = 0 /\ snap = [v \in Version |-> Nil] /\ newest = <<>> /\ lockPath = [v \in Version |-> 0]
  /\ st = [p \in Proc |-> Idle] /\ dropped = {}

FreezeTypeOK ==
  /\ installed \in Version /\ dropped \subseteq Version /\ lockPath \in [Version -> Inode \cup {0}]
  /\ snap \in [Version -> Snapshot \cup {Nil}]
  /\ st \in [Proc -> [pc : Place, kind : {Nil, "freeze", "run", "prove"}, id : Version, created : BOOLEAN,
                      victims : SUBSET Version, victim : Version, entry : Version, rest : Version,
                      ino : Inode \cup {0}, lock : {"none", "sh", "ex"}, dirty : BOOLEAN]]

Whole(v) == snap[v] # Nil /\ snap[v].whole /\ ~snap[v].changed

Moves(p, from, s) == tool = "freeze" /\ st[p].pc = from /\ st' = [st EXCEPT ![p] = s]
To(p, pc) == [st[p] EXCEPT !.pc = pc]
Leaves(p, from) == Moves(p, from, Idle)

\* plan: the snapshot of the installed version is there or not; a directory
\* without a valid marker is refused.
FreezePlan(p) ==
  /\ used.run < MaxRun /\ Count("run")
  /\ \E kind \in {"freeze", "run", "prove"} :
       LET s == [Idle EXCEPT !.kind = kind, !.id = installed]
       IN \/ snap[installed] = Nil /\ Moves(p, "idle", [s EXCEPT !.pc = "copy"])
          \/ snap[installed] # Nil /\ snap[installed].whole /\ Moves(p, "idle", [s EXCEPT !.pc = "verify"])
  /\ UNCHANGED <<installed, snap, newest, lockPath, dropped>>

\* freeze: the package is copied first, its closure after it; then the copied
\* version and entry are compared with the plan.
CopyEntry(p) ==
  /\ Moves(p, "copy", [To(p, "rest") EXCEPT !.entry = installed])
  /\ UNCHANGED <<used, installed, snap, newest, lockPath, dropped>>

CopyRest(p) ==
  /\ IF st[p].entry = st[p].id THEN Moves(p, "rest", [To(p, "rename") EXCEPT !.rest = installed]) ELSE Leaves(p, "rest")
  /\ UNCHANGED <<used, installed, snap, newest, lockPath, dropped>>

\* The rename loses to a concurrent freeze of the same omp, whose copy is used.
Rename(p) ==
  LET v == st[p].id
  IN /\ \/ /\ snap[v] = Nil /\ Moves(p, "rename", [To(p, "probe") EXCEPT !.created = TRUE])
           /\ snap' = [snap EXCEPT ![v] = [entry |-> st[p].entry, rest |-> st[p].rest, whole |-> TRUE, changed |-> FALSE]]
           /\ newest' = <<v>> \o newest
        \/ /\ snap[v] # Nil /\ UNCHANGED <<snap, newest>>
           /\ IF Whole(v) THEN Moves(p, "rename", To(p, "used")) ELSE Leaves(p, "rename")
     /\ UNCHANGED <<used, installed, lockPath, dropped>>

\* A snapshot whose omp does not report its version is removed, by its builder
\* and without the lock.
Probe(p) ==
  /\ \/ Moves(p, "probe", To(p, "verify")) /\ UNCHANGED <<used, snap, newest, dropped>>
     \/ /\ Upset /\ Leaves(p, "probe")
        /\ snap' = [snap EXCEPT ![st[p].id] = Nil] /\ dropped' = dropped \cup {st[p].id}
        /\ newest' = Remove(newest, st[p].id)
  /\ UNCHANGED <<installed, lockPath>>

\* prune_candidates: all but ours and the newest others.
Candidates(v) ==
  LET others == Remove(newest, v) IN {w \in Version : \E i \in KeepNewest..Len(others) : others[i] = w}

Verify(p) ==
  /\ \/ ~Whole(st[p].id) /\ Leaves(p, "verify")
     \/ /\ Whole(st[p].id)
        /\ Moves(p, "verify", [To(p, IF st[p].created THEN "prune" ELSE "used")
                                EXCEPT !.victims = IF st[p].created THEN Candidates(st[p].id) ELSE {}])
  /\ UNCHANGED <<used, installed, snap, newest, lockPath, dropped>>

(***************************************************************************)
(* The lock files.                                                         *)
(***************************************************************************)
FreshInode == CHOOSE i \in Inode : (\A v \in Version : lockPath[v] # i) /\ (\A p \in Proc : st[p].ino # i)
Opened(v) == IF lockPath[v] = 0 THEN FreshInode ELSE lockPath[v]
Holders(i) == {p \in Proc : st[p].ino = i /\ st[p].lock # "none"}
Writers(i) == {p \in Holders(i) : st[p].lock = "ex"}

\* Mutant of MayPrune: a shared lock does not keep the pruner off.
MutMayPrune(i) == Writers(i) = {}

\* A snapshot somebody holds is left alone.
MayPrune(i) == Holders(i) = {}

PruneLock(p) ==
  /\ \E v \in st[p].victims :
       /\ lockPath' = [lockPath EXCEPT ![v] = Opened(v)]
       /\ LET s == [To(p, "prune") EXCEPT !.victims = @ \ {v}]
          IN Moves(p, "prune", IF MayPrune(Opened(v))
                              THEN [s EXCEPT !.pc = "remove", !.victim = v, !.ino = Opened(v), !.lock = "ex"] ELSE s)
  /\ UNCHANGED <<used, installed, snap, newest, dropped>>

\* The lock file a pruner holds may be one that another pruner has unlinked.
Drops(p) == dropped' = IF lockPath[st[p].victim] = st[p].ino THEN dropped ELSE dropped \cup {st[p].victim}

PruneRemove(p) ==
  /\ Moves(p, "remove", [To(p, "unlink") EXCEPT !.ino = 0, !.lock = "none"])
  /\ snap' = [snap EXCEPT ![st[p].victim] = Nil] /\ newest' = Remove(newest, st[p].victim) /\ Drops(p)
  /\ UNCHANGED <<used, installed, lockPath>>

PruneUnlink(p) ==
  /\ Moves(p, "unlink", To(p, "prune"))
  /\ lockPath' = [lockPath EXCEPT ![st[p].victim] = 0]
  /\ UNCHANGED <<used, installed, snap, newest, dropped>>

\* After the freeze: `omp freeze` ends, a run holds its snapshot.
AfterFreeze(p) ==
  /\ \/ Moves(p, "used", IF st[p].kind = "freeze" THEN Idle ELSE To(p, "open"))
     \/ st[p].victims = {} /\ Moves(p, "prune", IF st[p].kind = "freeze" THEN Idle ELSE To(p, "open"))
  /\ UNCHANGED <<used, installed, snap, newest, lockPath, dropped>>

HoldOpen(p) ==
  /\ lockPath' = [lockPath EXCEPT ![st[p].id] = Opened(st[p].id)]
  /\ Moves(p, "open", [To(p, "lock") EXCEPT !.ino = Opened(st[p].id)])
  /\ UNCHANGED <<used, installed, snap, newest, dropped>>

HoldLock(p) ==
  /\ Writers(st[p].ino) = {}
  /\ Moves(p, "lock", [To(p, "check") EXCEPT !.lock = "sh"])
  /\ UNCHANGED <<used, installed, snap, newest, lockPath, dropped>>

\* hold looks whether the snapshot is still there, then it is verified.
HoldCheck(p) ==
  /\ IF Whole(st[p].id) THEN Moves(p, "check", To(p, "work")) ELSE Leaves(p, "check")
  /\ UNCHANGED <<used, installed, snap, newest, lockPath, dropped>>

\* The handler runs; a run is over, a proof has receipts and buffered beads.
HandlerRuns(p) ==
  /\ Moves(p, "work", IF st[p].kind = "prove" THEN To(p, "recheck") ELSE Idle)
  /\ UNCHANGED <<used, installed, snap, newest, lockPath, dropped>>

\* Beads are closed and commented only if the snapshot verifies again; else the
\* receipts are marked and the buffered actions dropped.
Publishes(p) == Whole(st[p].id)

Recheck(p) ==
  /\ Moves(p, "recheck", To(p, IF Publishes(p) THEN "publish" ELSE "marked"))
  /\ UNCHANGED <<used, installed, snap, newest, lockPath, dropped>>

ProofCloses(p) ==
  /\ Leaves(p, "publish") \/ Leaves(p, "marked")
  /\ UNCHANGED <<used, installed, snap, newest, lockPath, dropped>>

\* A kill lets go of the lock; one that comes while a snapshot is removed leaves
\* a part of it.
FreezeKill(p) ==
  /\ Upset /\ st[p].pc # "idle" /\ Leaves(p, st[p].pc)
  /\ \/ UNCHANGED <<snap, newest, dropped>>
     \/ /\ st[p].pc = "remove" /\ snap[st[p].victim] # Nil /\ Drops(p)
        /\ snap' = [snap EXCEPT ![st[p].victim].whole = FALSE] /\ newest' = Remove(newest, st[p].victim)
  /\ UNCHANGED <<installed, lockPath>>

\* omp is updated; a file of a snapshot changes.
FreezeWorld ==
  /\ ByOthers
  /\ \/ installed < MaxVersion /\ installed' = installed + 1 /\ UNCHANGED <<snap, st>>
     \/ /\ UNCHANGED installed
        /\ \E v \in Version :
             /\ Whole(v) /\ snap' = [snap EXCEPT ![v].changed = TRUE]
             /\ st' = [p \in Proc |-> IF st[p].id = v /\ st[p].pc \in {"work", "recheck"}
                                      THEN [st[p] EXCEPT !.dirty = TRUE] ELSE st[p]]
  /\ UNCHANGED <<newest, lockPath, dropped>>

FreezeNext ==
  /\ UNCHANGED job
  /\ \/ \E p \in Proc :
          \/ FreezePlan(p) \/ CopyEntry(p) \/ CopyRest(p) \/ Rename(p) \/ Probe(p) \/ Verify(p)
          \/ PruneLock(p) \/ PruneRemove(p) \/ PruneUnlink(p) \/ AfterFreeze(p)
          \/ HoldOpen(p) \/ HoldLock(p) \/ HoldCheck(p) \/ HandlerRuns(p) \/ Recheck(p) \/ ProofCloses(p) \/ FreezeKill(p)
     \/ FreezeWorld

(***************************************************************************)
(* Properties.                                                             *)
(***************************************************************************)
\* A run that holds its snapshot keeps it to its end, whatever other processes
\* freeze and prune, and its entry is the version it planned; and no bead is
\* written for a proof whose snapshot changed under it.  Three cases are not
\* kept: a builder removes what others already hold when its own probe fails; a
\* run that holds a lock file unlinked by a pruner, for a snapshot made again
\* since, holds nothing the next pruner will look at; and a pruner that locked
\* the file before another pruner unlinked it removes the snapshot made again,
\* whose holder has the lock of another file.
HeldSnapshotStays ==
  \A p \in Proc : st[p].id \notin dropped /\ st[p].ino = lockPath[st[p].id] =>
    /\ st[p].pc \in {"work", "recheck"} =>
         snap[st[p].id] # Nil /\ snap[st[p].id].whole /\ snap[st[p].id].entry = st[p].id
    /\ st[p].pc = "publish" => ~st[p].dirty
=============================================================================
