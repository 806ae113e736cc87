--------------------------- MODULE WorkshopProofs ---------------------------
(***************************************************************************)
(* What the tools of the repository keep, proved of the specification of   *)
(* Workshop: for any number of runs, landings, edits and commits beside them,*)
(* and any kills and cancellations.  Each section is about one tool.       *)
(***************************************************************************)
EXTENDS Workshop, SequenceTheorems, FiniteSetTheorems, WellFoundedInduction, TLAPS

(***************************************************************************)
(* Sequences and counts.                                                   *)
(***************************************************************************)
IsSeq(s) == s \in Seq({s[i] : i \in DOMAIN s})

\* A function on 1..n is a sequence.
LEMMA FcnIsSeq ==
  ASSUME NEW T, NEW n \in Nat, NEW t \in [1..n -> T]
  PROVE  t \in Seq(T)
OBVIOUS

LEMMA SeqIsSeq ==
  ASSUME NEW S, NEW s \in Seq(S)
  PROVE  IsSeq(s)
<1> DEFINE T == {s[i] : i \in DOMAIN s}
<1>1. Len(s) \in Nat /\ s \in [1..Len(s) -> S] /\ DOMAIN s = 1..Len(s)
  BY LenProperties
<1>2. \A i \in 1..Len(s) : s[i] \in T
  BY <1>1
<1>3. s = [i \in 1..Len(s) |-> s[i]]
  BY <1>1
<1>4. s \in [1..Len(s) -> T]
  <2> HIDE DEF T
  <2> QED
    BY <1>2, <1>3
<1>5. s \in Seq(T)
  <2> HIDE DEF T
  <2> QED
    BY <1>1, <1>4, FcnIsSeq
<1> QED
  BY <1>5 DEF IsSeq

LEMMA SeqAppend ==
  ASSUME NEW s, IsSeq(s), NEW e, NEW t, t = Append(s, e)
  PROVE  /\ IsSeq(t) /\ Len(s) \in Nat /\ Len(t) = Len(s) + 1 /\ t[Len(t)] = e /\ t # <<>>
         /\ DOMAIN t = DOMAIN s \cup {Len(t)} /\ DOMAIN s = 1..Len(s) /\ \A i \in DOMAIN s : t[i] = s[i]
<1> DEFINE S == {s[i] : i \in DOMAIN s}
<1>1. s \in Seq(S)
  BY DEF IsSeq
<1> HIDE DEF S
<1>2. s \in Seq(S \cup {e})
  BY <1>1, SeqMonotonic
<1>3. t \in Seq(S \cup {e})
  BY <1>2
<1>4. /\ Len(t) = Len(s) + 1 /\ t[Len(t)] = e /\ Len(s) \in Nat /\ t # <<>>
      /\ DOMAIN t = 1..Len(t) /\ DOMAIN s = 1..Len(s) /\ \A i \in DOMAIN s : t[i] = s[i]
  BY <1>1, <1>3
<1>5. 1..Len(t) = 1..Len(s) \cup {Len(t)}
  BY <1>4
<1> QED
  BY <1>3, <1>4, <1>5, SeqIsSeq


LEMMA SeqExcept ==
  ASSUME NEW s, IsSeq(s), NEW i \in DOMAIN s, NEW e, NEW t, t = [s EXCEPT ![i] = e]
  PROVE  IsSeq(t) /\ DOMAIN t = DOMAIN s /\ Len(t) = Len(s)
<1> DEFINE S == {s[k] : k \in DOMAIN s}
<1>1. s \in Seq(S)
  BY DEF IsSeq
<1>2. /\ Len(s) \in Nat /\ DOMAIN s = 1..Len(s)
  <2> HIDE DEF S
  <2> QED
    BY <1>1
<1>3. \A k \in 1..Len(s) : t[k] \in S \cup {e}
  BY <1>2
<1>4. t = [k \in 1..Len(s) |-> t[k]]
  BY <1>2
<1>5. t \in [1..Len(s) -> S \cup {e}]
  <2> HIDE DEF S
  <2> QED
    BY <1>3, <1>4
<1>6. t \in Seq(S \cup {e})
  <2> DEFINE T == S \cup {e}
  <2>1. t \in [1..Len(s) -> T]
    BY <1>5
  <2> HIDE DEF T
  <2>2. t \in Seq(T)
    BY <1>2, <2>1, FcnIsSeq
  <2> QED
    BY <2>2 DEF T
<1>7. IsSeq(t)
  BY <1>6, SeqIsSeq
<1> QED
  BY <1>2, <1>6, <1>7

\* Less than on the naturals.
LEMMA LessIsWellFounded == IsWellFoundedOn({p \in Nat \X Nat : p[1] < p[2]}, Nat)
BY NatLessThanWellFounded DEF OpToRel

\* A set of naturals has a least member.
LEMMA Least == ASSUME NEW S, S \subseteq Nat, S # {} PROVE \E x \in S : \A y \in S : x <= y
<1> DEFINE R == {p \in Nat \X Nat : p[1] < p[2]}
<1>1. IsWellFoundedOn(R, Nat)
  BY LessIsWellFounded
<1>2. \A x \in Nat, y \in Nat : y < x => <<y, x>> \in R
  OBVIOUS
<1> HIDE DEF R
<1>3. PICK x \in S : \A y \in S : <<y, x>> \notin R
  BY <1>1, WFMin
<1>4. ASSUME NEW y \in S
      PROVE  x <= y
  <2>1. x \in Nat /\ y \in Nat
    OBVIOUS
  <2>2. ~(y < x)
    BY <1>2, <1>3, <2>1
  <2> QED
    BY <2>1, <2>2
<1> QED
  BY <1>4

LEMMA MinIn == ASSUME NEW S, S \subseteq Nat, S # {} PROVE Min(S) \in S /\ \A y \in S : Min(S) <= y
BY Least DEF Min

LEMMA MaxIn == ASSUME NEW S, NEW n \in Nat, S \subseteq 0..n, S # {} PROVE Max(S) \in S /\ \A y \in S : Max(S) >= y
<1> DEFINE T == {n - x : x \in S}
<1>1. \A m \in T : m \in Nat
  OBVIOUS
<1>2. \E m : m \in T
  OBVIOUS
<1>3. \A x \in S : n - x \in T
  OBVIOUS
<1>4. \A m \in T : \E x \in S : m = n - x
  OBVIOUS
<1> HIDE DEF T
<1>5. PICK m \in T : \A y \in T : m <= y
  BY <1>1, <1>2, Least
<1>6. PICK x \in S : m = n - x
  BY <1>4
<1>7. \A y \in S : x >= y
  BY <1>3, <1>5, <1>6
<1> QED
  BY <1>7 DEF Max

\* The members of a finite set, each once.
LEMMA Listing ==
  ASSUME NEW S, IsFiniteSet(S)
  PROVE  /\ Cardinality(S) \in Nat /\ SetToSeq(S) \in [1..Cardinality(S) -> S]
         /\ \A i, j \in 1..Cardinality(S) : SetToSeq(S)[i] = SetToSeq(S)[j] => i = j
         /\ \A x \in S : \E i \in 1..Cardinality(S) : SetToSeq(S)[i] = x
<1> DEFINE n == Cardinality(S)
<1>1. n \in Nat
  BY FS_CardinalityType
<1>2. \E f \in [1..n -> S] : IsInjective(f)
  BY FS_CardinalityType DEF ExistsBijection, Bijection, Injection
<1> DEFINE f == SetToSeq(S)
<1>3. f \in [1..n -> S] /\ IsInjective(f)
  BY <1>2 DEF SetToSeq
<1>4. IsFiniteSet(1..n) /\ Cardinality(1..n) = n
  BY <1>1, FS_Interval
<1>5. f \in Surjection(1..n, S)
  <2> HIDE DEF f
  <2>1. f \in Injection(1..n, S)
    BY <1>3 DEF Injection
  <2> QED
    BY <1>4, <2>1, FS_Injection
<1> QED
  BY <1>1, <1>3, <1>5 DEF IsInjective, Surjection

(***************************************************************************)
(* Landing: what landed is what was gated, and main only grows.            *)
(***************************************************************************)
AnyTree == [path : Nat, rest : Nat]
Revision == Seq(AnyTree)

\* j is a record with the fields of a landing.
LandJob(j) == j = [pc |-> j.pc, hunks |-> j.hunks, gated |-> j.gated, old |-> j.old, keep |-> j.keep]
Built == [base : Revision, tree : AnyTree, commit : {Nil} \cup Revision]

WithTree == {"copy", "gates", "mutate", "commit", "locked", "ancestor", "update", "reset"}
AfterGates == {"mutate", "commit", "locked", "ancestor", "update"}
AfterCommit == {"locked", "ancestor", "update"}

LandTypes ==
  /\ used \in [run : Nat, edit : Nat, upset : Nat]
  /\ main \in Revision /\ main # <<>> /\ checkout \in AnyTree
  /\ job # Nil => LandJob(job) /\ (job.pc \in WithTree => worktree \in Built)

\* What a landing knows at each of its places: the gates saw the tree of the
\* worktree, the commit is that tree on its base, and the old value of main is
\* a prefix of the commit.
LandKnows ==
  job # Nil =>
    /\ job.pc \in AfterGates => job.gated = [base |-> worktree.base, tree |-> worktree.tree]
    /\ job.pc \in AfterCommit => worktree.commit = Append(worktree.base, worktree.tree)
    /\ job.pc = "update" => job.old \in Revision /\ IsPrefix(job.old, worktree.commit)

LandIInv == (tool = "land" => LandTypes /\ LandKnows) /\ LandedIsGated

(***************************************************************************)
(* The steps of the other tools.                                           *)
(***************************************************************************)
LEMMA OnlyLandings ==
  ASSUME [Next]_vars
  PROVE  /\ tool' = tool
         /\ tool = "land" => LandNext \/ UNCHANGED <<jobVars, landVars>>
         /\ tool # "land" => UNCHANGED landVars
BY DEF Next, BenchNext, vars, benchVars, landVars, jobVars

LEMMA CommitExtends ==
  ASSUME NEW s \in Revision, NEW t \in AnyTree
  PROVE  /\ Append(s, t) \in Revision
         /\ Append(s, t) # <<>>
         /\ IsPrefix(s, Append(s, t))
         /\ Last(Append(s, t)) = t
<1>1. Append(s, t) \in Revision /\ Len(Append(s, t)) = Len(s) + 1 /\ Append(s, t)[Len(s) + 1] = t
  BY DEF Revision
<1>2. SubSeq(s, 1, Len(s)) = SubSeq(Append(s, t), 1, Len(s))
  BY <1>1 DEF Revision
<1> QED
  BY <1>1, <1>2 DEF IsPrefix, Last, Revision

(***************************************************************************)
(* The steps of a landing and of those beside it.                          *)
(***************************************************************************)
LEMMA LandInitInv == Init => LandIInv
  BY JobAssumption
  DEF Init, LandIInv, LandTypes, LandKnows, LandedIsGated, LandInit, JobInit, Revision, AnyTree

\* A landing starts, fails, ends or is cut: the worktree is as it was, or gone.
LEMMA LandEndsStep ==
  ASSUME LandTypes, LandKnows, tool = "land",
         \/ LandBegin \/ LandUnreserved \/ LandLeftover \/ LandRed \/ LandMutations \/ LandLocked \/ LandReset
         \/ LandCleanup \/ LandSignal \/ LandKill
  PROVE  LandTypes' /\ LandKnows' /\ landed' = landed
  <1> USE DEF LandTypes, LandKnows, LandJob, WithTree, AfterGates, AfterCommit, Goto, Finish, Stops, Upset, Fails, Count, At, In, Landing
  <1>1. CASE LandBegin
    BY <1>1 DEF LandBegin, Begin, landVars
  <1>2. CASE LandUnreserved
    BY <1>2 DEF LandUnreserved, landVars
  <1>3. CASE LandLeftover
    BY <1>3 DEF LandLeftover, landVars
  <1>4. CASE LandRed
    BY <1>4 DEF LandRed, landVars
  <1>5. CASE LandMutations
    BY <1>5 DEF LandMutations, landVars
  <1>6. CASE LandLocked
    BY <1>6 DEF LandLocked, landVars
  <1>7. CASE LandReset
    <2>1. /\ used' \in [run : Nat, edit : Nat, upset : Nat] /\ UNCHANGED landVars
          /\ job # Nil /\ LandJob(job) /\ job.pc = "reset"
      BY <1>7 DEF LandReset
    <2>2. job' = [job EXCEPT !.pc = "cleanup"] \/ job' = [job EXCEPT !.pc = "cleanup", !.keep = TRUE]
      BY <1>7 DEF LandReset
    <2>3. LandJob(job') /\ job'.pc = "cleanup"
      BY <2>1, <2>2
    <2> QED
      BY <2>1, <2>3 DEF landVars
  <1>8. CASE LandCleanup
    BY <1>8 DEF LandCleanup
  <1>9. CASE LandSignal \/ LandKill
    BY <1>9 DEF LandSignal, LandKill, landVars
  <1> QED
    BY <1>1, <1>2, <1>3, <1>4, <1>5, <1>6, <1>7, <1>8, <1>9

\* The worktree is made, filled, gated, committed and compared with main.
LEMMA WorktreeStep ==
  ASSUME LandTypes, LandKnows, tool = "land",
         WorktreeAdd \/ LandCopy \/ LandGates \/ LandCommit \/ LandAncestor
  PROVE  LandTypes' /\ LandKnows' /\ landed' = landed /\ main' = main
  <1> USE DEF LandTypes, LandKnows, LandJob, WithTree, AfterGates, AfterCommit, Goto, Set, At, In, Built
  <1>1. CASE WorktreeAdd
    <2>1. Last(main) \in AnyTree
      BY DEF Last, Revision
    <2> QED
      BY <1>1, <2>1 DEF WorktreeAdd
  <1>2. CASE LandCopy
    BY <1>2 DEF LandCopy, AnyTree
  <1>3. CASE LandGates
    BY <1>3 DEF LandGates, landVars
  <1>4. CASE LandCommit
    <2>1. Append(worktree.base, worktree.tree) \in Revision
      BY <1>4, CommitExtends DEF LandCommit
    <2> QED
      BY <1>4, <2>1 DEF LandCommit
  <1>5. CASE LandAncestor
    BY <1>5 DEF LandAncestor, landVars
  <1> QED
    BY <1>1, <1>2, <1>3, <1>4, <1>5

\* The others edit the checkout and commit to main.
LEMMA LandBesideStep ==
  ASSUME LandTypes, LandKnows, tool = "land",
         CheckoutEdit \/ CommitBegin \/ CommitEnd \/ LandTidy
  PROVE  LandTypes' /\ LandKnows' /\ landed' = landed /\ (main' = main \/ IsPrefix(main, main'))
  <1> USE DEF LandTypes, LandKnows, LandJob, WithTree, AfterGates, AfterCommit, Count
  <1>1. CASE CheckoutEdit
    BY <1>1 DEF CheckoutEdit, ByOthers, AnyTree
  <1>2. CASE CommitBegin
    BY <1>2 DEF CommitBegin, jobVars
  <1>3. CASE CommitEnd
    <2>1. used' \in [run : Nat, edit : Nat, upset : Nat] /\ UNCHANGED <<job, checkout, worktree, landed>>
      BY <1>3 DEF CommitEnd, Upset
    <2>2. main' = main \/ main' = Append(main, checkout)
      BY <1>3 DEF CommitEnd
    <2>3. main' \in Revision /\ main' # <<>> /\ (main' = main \/ IsPrefix(main, main'))
      BY <2>2, CommitExtends
    <2> QED
      BY <2>1, <2>3
  <1>4. CASE LandTidy
    BY <1>4 DEF LandTidy, jobVars, Landing, In
  <1> QED
    BY <1>1, <1>2, <1>3, <1>4

\* The update is to the commit that the gates saw, and past the main it checked.
LEMMA UpdateStep ==
  ASSUME LandTypes, LandKnows, LandedIsGated, tool = "land", LandUpdate
  PROVE  LandTypes' /\ LandKnows' /\ LandedIsGated' /\ (main' = main \/ IsPrefix(main, main'))
  <1> USE DEF LandTypes, LandKnows, LandJob, WithTree, AfterGates, AfterCommit, Goto, Set, At, In
  <1>1. CASE main = job.old
    <2>1. /\ main' = worktree.commit /\ UNCHANGED <<used, checkout, worktree>>
          /\ job # Nil /\ job.pc = "update" /\ job' = [job EXCEPT !.pc = "reset"]
          /\ landed' = landed \cup {[base |-> worktree.base, tree |-> Last(worktree.commit), gated |-> job.gated]}
      BY <1>1 DEF LandUpdate
    <2>2. worktree \in Built /\ worktree.commit = Append(worktree.base, worktree.tree)
      BY <2>1
    <2>3. worktree.commit \in Revision /\ worktree.commit # <<>> /\ Last(worktree.commit) = worktree.tree
      <3>1. worktree.base \in Revision /\ worktree.tree \in AnyTree
        BY <2>2 DEF Built
      <3> QED
        BY ONLY <2>2, <3>1, CommitExtends
    <2>4. LandTypes' /\ LandKnows'
      BY <2>1, <2>2, <2>3
    <2>5. LandedIsGated'
      <3>1. job.gated = [base |-> worktree.base, tree |-> Last(worktree.commit)]
        BY <2>1, <2>3
      <3> DEFINE new == [base |-> worktree.base, tree |-> Last(worktree.commit), gated |-> job.gated]
      <3>2. new.gated = [base |-> new.base, tree |-> new.tree]
        BY <3>1
      <3>3. landed' = landed \cup {new}
        BY <2>1
      <3> HIDE DEF new
      <3> QED
        BY <3>2, <3>3 DEF LandedIsGated
    <2>6. IsPrefix(main, main')
      BY <2>1, <1>1
    <2> QED
      BY <2>4, <2>5, <2>6
  <1>2. CASE main # job.old
    BY <1>2 DEF LandUpdate, LandedIsGated
  <1> QED
    BY <1>1, <1>2

LEMMA LandNextInv == LandIInv /\ [Next]_vars => LandIInv' /\ (main' = main \/ IsPrefix(main, main'))
<1> SUFFICES ASSUME LandIInv, [Next]_vars
             PROVE  LandIInv' /\ (main' = main \/ IsPrefix(main, main'))
  OBVIOUS
<1>1. CASE tool # "land"
  BY <1>1, OnlyLandings DEF LandIInv, landVars, LandedIsGated
<1>2. CASE tool = "land" /\ UNCHANGED <<jobVars, landVars>>
  BY <1>2, OnlyLandings DEF LandIInv, landVars, jobVars, LandedIsGated, LandTypes, LandKnows
<1>3. CASE tool = "land" /\ LandNext
  <2>1. tool' = tool
    BY OnlyLandings
  <2>2. CASE \/ LandBegin \/ LandUnreserved \/ LandLeftover \/ LandRed \/ LandMutations \/ LandLocked \/ LandReset
             \/ LandCleanup \/ LandSignal \/ LandKill
    <3>1. main' = main
      BY <2>2 DEF LandBegin, LandUnreserved, LandLeftover, LandRed, LandMutations, LandLocked, LandReset,
                  LandCleanup, LandSignal, LandKill, landVars
    <3> QED
      BY <1>3, <2>1, <2>2, <3>1, LandEndsStep DEF LandIInv, LandedIsGated
  <2>3. CASE WorktreeAdd \/ LandCopy \/ LandGates \/ LandCommit \/ LandAncestor
    BY <1>3, <2>1, <2>3, WorktreeStep DEF LandIInv, LandedIsGated
  <2>4. CASE CheckoutEdit \/ CommitBegin \/ CommitEnd \/ LandTidy
    BY <1>3, <2>1, <2>4, LandBesideStep DEF LandIInv, LandedIsGated
  <2>5. CASE LandUpdate
    BY <1>3, <2>1, <2>5, UpdateStep DEF LandIInv
  <2> QED
    BY <1>3, <2>2, <2>3, <2>4, <2>5 DEF LandNext
<1> QED
  BY <1>1, <1>2, <1>3, OnlyLandings

\* The worktree, the gate's ledger and main belong together in every reachable state.
THEOREM LandInvariant == Spec => []LandIInv
<1>1. LandIInv /\ [Next]_vars => LandIInv'
  BY LandNextInv
<1> QED
  BY LandInitInv, <1>1, PTL DEF Spec

\* What landed is what was gated.
THEOREM Landed == Spec => []LandedIsGated
<1>1. LandIInv => LandedIsGated
  BY DEF LandIInv
<1> QED
  BY LandInvariant, <1>1, PTL

\* main only grows.
THEOREM Grows == Spec => MainOnlyGrows
<1>1. LandIInv /\ [Next]_vars => [IsPrefix(main, main')]_main
  BY LandNextInv
<1> QED
  BY LandInvariant, <1>1, PTL DEF Spec, MainOnlyGrows

(***************************************************************************)
(* Mutations: a plant is undone by its journal or was left for a reason    *)
(* that is known, and an edit is lost to no restore.                       *)
(***************************************************************************)
\* j is a record with the fields of a run.
CaseRun(j) ==
  j = [pc |-> j.pc, cached |-> j.cached, nr |-> j.nr, dirty |-> j.dirty, stop |-> j.stop,
       key |-> j.key, src |-> j.src, good |-> j.good, caught |-> j.caught]

\* The places of a run that has read its file, and those where no plant waits for a journal.
AfterRead == {"good", "recheck", "journal", "plant", "bad", "restore", "undo", "unjournal"}
AtRest == {"own", "unown", "rmdir", "free", "recovered", "key", "read", "good", "recheck", "journal", "plant", "unjournal", "release"}

MutateTypes ==
  /\ tree \in AnyFile
  /\ job # Nil =>
       /\ CaseRun(job)
       /\ job.pc \notin {"release", "free", "save"} => job.nr \in DOMAIN PlantList
       /\ job.pc \in AfterRead => job.src \in AnyFile

\* The journal is of a file without its plant, and what other plants that file had are left ones.
JournalUndoes ==
  journal # Nil =>
    /\ journal.original \in AnyFile /\ journal.case \notin journal.original.plants
    /\ \A c \in tree.plants \cap journal.original.plants : Left(c)

AllLeft == \A c \in tree.plants : Left(c)

\* What a run knows of the file and of its journal at each of its places.
MutateKnows ==
  /\ lock = Nil => AllLeft
  /\ job # Nil =>
       /\ job.pc \in AtRest => AllLeft
       /\ job.pc \in AfterRead \cup {"own", "key", "read"} => lock # Nil
       /\ job.pc \in AfterRead =>
            /\ ThisCase \notin job.src.plants /\ job.src.edits \subseteq tree.edits
            /\ \A c \in tree.plants : c = ThisCase \/ Left(c)
       /\ job.pc \in {"good", "recheck", "journal", "plant", "unjournal"} => ThisCase \notin tree.plants
       /\ job.pc = "plant" => journal = [case |-> ThisCase, original |-> job.src]
       /\ job.pc \in {"journal", "plant", "undo"} => tree.edits \subseteq job.src.edits \cup hasty

MutateSafe == MutateTypes /\ JournalUndoes /\ MutateKnows /\ PlantIsJournaled

MutateIInv == PlantIsJournaled /\ (tool = "mutate" => MutateSafe)

(***************************************************************************)
(* The steps of the other tools.                                           *)
(***************************************************************************)
LEMMA OnlyMutations ==
  ASSUME [Next]_vars
  PROVE  /\ tool' = tool
         /\ tool = "mutate" => MutateNext \/ UNCHANGED <<jobVars, mutateVars>>
         /\ tool # "mutate" => UNCHANGED mutateVars
BY DEF Next, BenchNext, vars, benchVars, mutateVars, jobVars

LEMMA MutateInitInv == Init => MutateIInv
<1> SUFFICES ASSUME JobInit, MutateInit
             PROVE  MutateIInv
  BY DEF Init
<1>1. job = Nil /\ journal = Nil /\ tree = [edits |-> {}, plants |-> {}]
  BY DEF JobInit, MutateInit
<1> QED
  BY <1>1 DEF MutateIInv, MutateSafe, PlantIsJournaled, MutateTypes, JournalUndoes, MutateKnows, AllLeft, AnyFile

(***************************************************************************)
(* The steps of a run and of those beside it.                              *)
(***************************************************************************)
\* What is in the history is left; a pair is left for its case.
LEMMA PairIsLeft == \A c, why : <<c, why>> \in left' => Left(c)'
BY DEF Left

\* What is left stays left as long as only the pairs of other cases leave the history.
LEMMA StaysLeft ==
  ASSUME NEW d, {x \in left : x[1] # d} \subseteq left'
  PROVE  \A c : c # d /\ Left(c) => Left(c)'
BY DEF Left

\* The history only grows.
LEMMA LeftGrows == left \subseteq left' => \A c : Left(c) => Left(c)'
BY DEF Left

\* A step that leaves the file and the journal alone, outside of the cases.
LEMMA LockGoesOn ==
  ASSUME MutateSafe, UNCHANGED <<tree, journal, left, hasty>>,
         \/ job' = Nil
         \/ /\ CaseRun(job') /\ job'.pc \notin AfterRead
            /\ job'.pc \in {"release", "free", "save"} \/ job'.nr \in DOMAIN PlantList,
         AllLeft \/ (lock' = lock /\ (job' # Nil => job'.pc \notin AtRest)),
         job' # Nil /\ job'.pc \in {"own", "key", "read"} => lock' # Nil
  PROVE  MutateSafe'
<1>1. \A c : Left(c)' <=> Left(c)
  BY DEF Left
<1>2. AllLeft' <=> AllLeft
  BY <1>1 DEF AllLeft
<1>3. MutateTypes'
  BY DEF MutateSafe, MutateTypes
<1>4. JournalUndoes' /\ PlantIsJournaled'
  BY <1>1 DEF MutateSafe, JournalUndoes, PlantIsJournaled, Undoes
<1>5. MutateKnows'
  BY <1>2 DEF MutateSafe, MutateKnows, AfterRead
<1> QED
  BY <1>3, <1>4, <1>5 DEF MutateSafe

\* The lock and the recovery of a dead run's plant.
LEMMA LockStep ==
  ASSUME MutateSafe, tool = "mutate",
         \/ MutateBegin \/ LockTake \/ LockOwn \/ LockRecover \/ LockRecovered \/ LockTimeout \/ LockUnown \/ LockFree
  PROVE  MutateSafe' /\ tree.edits \subseteq tree'.edits \cup hasty
<1>0. /\ job # Nil => CaseRun(job) /\ (job.pc \notin {"release", "free", "save"} => job.nr \in DOMAIN PlantList)
      /\ lock = Nil => AllLeft
      /\ job # Nil /\ job.pc \in AtRest => AllLeft
  BY DEF MutateSafe, MutateTypes, MutateKnows
<1>1. CASE MutateBegin
  <2>1. 1 \in DOMAIN PlantList
    BY MutateAssumption
  <2>2. CaseRun(job') /\ job'.pc = "lock" /\ job'.nr = 1 /\ UNCHANGED <<tree, lock, journal, left, hasty>>
    BY <1>1 DEF MutateBegin, Begin, CaseRun, mutateVars
  <2> QED
    BY <2>1, <2>2, LockGoesOn DEF AfterRead, AtRest
<1>2. CASE LockTake
  <2>1. UNCHANGED <<tree, journal, left, hasty>> /\ lock = Nil /\ job # Nil /\ job.pc = "lock" /\ job' = [job EXCEPT !.pc = "own"]
    BY <1>2 DEF LockTake, At, In, Goto
  <2>2. CaseRun(job') /\ job'.pc = "own" /\ job'.nr = job.nr
    BY <1>0, <2>1 DEF CaseRun
  <2>3. lock' # Nil
    BY <1>2, MutateAssumption DEF LockTake
  <2> QED
    BY <1>0, <2>1, <2>2, <2>3, LockGoesOn DEF AfterRead
<1>3. CASE LockOwn
  <2>1. UNCHANGED <<tree, journal, left, hasty>> /\ job # Nil /\ job.pc = "own" /\ job' = [job EXCEPT !.pc = "key"]
    BY <1>3 DEF LockOwn, At, In, Goto
  <2>2. CaseRun(job') /\ job'.pc = "key" /\ job'.nr = job.nr
    BY <1>0, <2>1 DEF CaseRun
  <2>3. lock' # Nil
    BY <1>3, MutateAssumption DEF LockOwn
  <2> QED
    BY <1>0, <2>1, <2>2, <2>3, LockGoesOn DEF AfterRead, AtRest
<1>4. CASE LockUnown
  <2>1. /\ UNCHANGED <<tree, journal, left, hasty>> /\ job # Nil /\ job.pc \in {"unown", "release"}
        /\ job' = [job EXCEPT !.pc = IF job.pc = "unown" THEN "rmdir" ELSE "free"]
    BY <1>4 DEF LockUnown, Mutating, In, Goto
  <2>2. CaseRun(job') /\ job'.pc = (IF job.pc = "unown" THEN "rmdir" ELSE "free") /\ job'.nr = job.nr
    BY <1>0, <2>1 DEF CaseRun
  <2>3. AllLeft
    BY <1>0, <2>1 DEF AtRest
  <2> QED
    BY <1>0, <2>1, <2>2, <2>3, LockGoesOn DEF AfterRead
<1>5. CASE LockFree
  <2>1. /\ UNCHANGED <<tree, journal, left, hasty>> /\ job # Nil /\ job.pc \in {"rmdir", "free"}
        /\ \/ job' = Nil
           \/ job' = [job EXCEPT !.pc = "lock"] /\ job.pc = "rmdir"
           \/ job' = [job EXCEPT !.pc = "save"]
    BY <1>5 DEF LockFree, Mutating, In, Goto, Finish
  <2>2. AllLeft
    BY <1>5, <2>1 DEF MutateSafe, MutateKnows, AtRest
  <2>3. CASE job' = Nil
    BY <2>1, <2>2, <2>3, LockGoesOn
  <2>4. CASE job' = [job EXCEPT !.pc = "lock"] /\ job.pc = "rmdir"
    <3>1. CaseRun(job') /\ job'.pc = "lock" /\ job'.nr = job.nr
      BY <1>0, <2>1, <2>4 DEF CaseRun
    <3> QED
      BY <1>0, <2>1, <2>2, <2>4, <3>1, LockGoesOn DEF AfterRead
  <2>5. CASE job' = [job EXCEPT !.pc = "save"]
    <3>1. CaseRun(job') /\ job'.pc = "save"
      BY <1>0, <2>1, <2>5 DEF CaseRun
    <3> QED
      BY <2>1, <2>2, <3>1, LockGoesOn DEF AfterRead
  <2> QED
    BY <2>1, <2>3, <2>4, <2>5
<1>6. CASE LockRecover
  <2>1. job # Nil /\ job.pc = "lock" /\ UNCHANGED <<lock, journal, hasty>>
    BY <1>6 DEF LockRecover, At, In
  <2>2. CASE journal = Nil /\ job' = [job EXCEPT !.pc = "unown"] /\ UNCHANGED <<tree, left>>
    <3>1. CaseRun(job') /\ job'.pc = "unown" /\ job'.nr = job.nr
      BY <1>0, <2>1, <2>2 DEF CaseRun
    <3>2. AllLeft
      BY <2>2 DEF AllLeft, MutateSafe, PlantIsJournaled, Undoes
    <3> QED
      BY <1>0, <2>1, <2>2, <3>1, <3>2, LockGoesOn DEF AfterRead
  <2>3. CASE job' = Nil /\ UNCHANGED <<tree, left>>
    BY <2>1, <2>3, LockGoesOn
  <2>4. CASE /\ journal # Nil /\ tree = Planted(journal.original, journal.case)
             /\ tree' = journal.original /\ left' = {x \in left : x[1] # journal.case}
             /\ job' = [job EXCEPT !.pc = "recovered"]
    <3>1. CaseRun(job') /\ job'.pc = "recovered" /\ job'.nr = job.nr
      BY <1>0, <2>1, <2>4 DEF CaseRun
    <3>2. /\ journal.original \in AnyFile /\ journal.case \notin journal.original.plants
          /\ \A c \in tree.plants \cap journal.original.plants : Left(c)
      BY <2>4 DEF MutateSafe, JournalUndoes
    <3>3. tree'.plants \subseteq tree.plants /\ tree'.edits = tree.edits
      BY <2>4, <3>2 DEF Planted, AnyFile
    <3>4. \A c \in tree'.plants : Left(c)'
      BY <2>4, <3>2, <3>3, StaysLeft
    <3>5. MutateTypes' /\ JournalUndoes' /\ PlantIsJournaled'
      BY <1>0, <2>1, <2>4, <3>1, <3>2, <3>4 DEF MutateTypes, JournalUndoes, PlantIsJournaled, AfterRead
    <3>6. MutateKnows'
      BY <3>1, <3>4 DEF MutateKnows, AllLeft, AfterRead
    <3> QED
      BY <3>3, <3>5, <3>6 DEF MutateSafe
  <2> QED
    BY <1>6, <2>1, <2>2, <2>3, <2>4 DEF LockRecover, Goto, Finish
<1>7. CASE LockRecovered
  <2>1. job # Nil /\ job.pc = "recovered" /\ UNCHANGED <<tree, lock, left, hasty>> /\ journal' = Nil /\ job' = [job EXCEPT !.pc = "unown"]
    BY <1>7 DEF LockRecovered, At, In, Goto
  <2>2. CaseRun(job') /\ job'.pc = "unown" /\ job'.nr = job.nr
    BY <1>0, <2>1 DEF CaseRun
  <2>3. \A c \in tree.plants : Left(c)'
    BY <1>0, <2>1 DEF AllLeft, AtRest, Left
  <2>4. MutateTypes' /\ JournalUndoes' /\ PlantIsJournaled'
    BY <1>0, <2>1, <2>2, <2>3 DEF MutateSafe, MutateTypes, JournalUndoes, PlantIsJournaled, AfterRead
  <2>5. MutateKnows'
    BY <2>1, <2>2, <2>3 DEF MutateKnows, AllLeft, AfterRead
  <2> QED
    BY <2>1, <2>4, <2>5 DEF MutateSafe
<1>8. CASE LockTimeout
  BY <1>8, LockGoesOn DEF LockTimeout, Finish, mutateVars
<1> QED
  BY <1>1, <1>2, <1>3, <1>4, <1>5, <1>6, <1>7, <1>8

\* The case ends: the next one begins, or the lock is released.
LEMMA CaseEndsStep ==
  ASSUME MutateSafe, job # Nil, job.nr \in DOMAIN PlantList, job.pc \in AfterRead \cup {"key", "read"},
         NEW keys, CaseEnds(keys),
         UNCHANGED <<tree, lock, hasty>>, journal' \in {journal, Nil},
         \A c \in tree.plants : Left(c)'
  PROVE  MutateSafe'
<1>0. CaseRun(job) /\ job.nr \in 1..Len(PlantList) /\ DOMAIN PlantList = 1..Len(PlantList) /\ Len(PlantList) \in Nat
  BY MutateAssumption DEF MutateSafe, MutateTypes
<1>1. CaseRun(job') /\ job'.pc \in {"key", "release"} /\ (job'.pc = "key" => job'.nr \in DOMAIN PlantList)
  <2>1. job' = [job EXCEPT !.pc = IF job.nr < Len(PlantList) THEN "key" ELSE "release", !.nr = @ + 1,
                           !.dirty = @ \cup keys, !.key = Nil, !.src = Nil, !.good = FALSE, !.caught = FALSE]
    BY DEF CaseEnds
  <2>2. CaseRun(job') /\ job'.pc = (IF job.nr < Len(PlantList) THEN "key" ELSE "release") /\ job'.nr = job.nr + 1
    BY ONLY <1>0, <2>1 DEF CaseRun
  <2> QED
    BY <1>0, <2>2
<1>2. MutateTypes'
  BY <1>1 DEF MutateSafe, MutateTypes, AfterRead
<1>3. JournalUndoes' /\ PlantIsJournaled'
  BY DEF MutateSafe, JournalUndoes, PlantIsJournaled
<1>4. MutateKnows'
  BY <1>1 DEF MutateSafe, MutateKnows, AllLeft, AtRest, AfterRead
<1> QED
  BY <1>2, <1>3, <1>4 DEF MutateSafe

\* The run goes on within its case, and the file and its journal stay as they are.
LEMMA CaseGoesOn ==
  ASSUME MutateSafe, job # Nil, CaseRun(job'), job'.nr = job.nr, job'.src = job.src,
         job.pc \in AfterRead \cup {"key", "read"}, job.pc \in AfterRead \/ job'.pc \notin AfterRead,
         job.pc \notin {"release", "free", "save"} \/ job'.pc \in {"release", "free", "save"},
         UNCHANGED <<tree, lock, journal, left, hasty>>,
         job'.pc \in AtRest => AllLeft,
         job'.pc \in {"good", "recheck", "journal", "plant", "unjournal"} => ThisCase \notin tree.plants,
         job'.pc # "plant",
         job'.pc \in {"journal", "undo"} => tree.edits \subseteq job.src.edits \cup hasty
  PROVE  MutateSafe'
<1>1. ThisCase' = ThisCase
  BY DEF ThisCase
<1>2. \A c : Left(c)' <=> Left(c)
  BY DEF Left
<1>3. MutateTypes'
  BY DEF MutateSafe, MutateTypes
<1>4. JournalUndoes' /\ PlantIsJournaled'
  BY <1>2 DEF MutateSafe, JournalUndoes, PlantIsJournaled, Undoes
<1>5. AllLeft' <=> AllLeft
  BY <1>2 DEF AllLeft
<1>6. MutateKnows'
  BY <1>1, <1>2, <1>5 DEF MutateSafe, MutateKnows
<1> QED
  BY <1>3, <1>4, <1>6 DEF MutateSafe

\* The key, the source and the runs of the tests; the verdict.
LEMMA CaseStep ==
  ASSUME MutateSafe, tool = "mutate",
         CaseKey \/ ReadSource \/ GoodRun \/ Recheck \/ BadRun \/ Restore \/ SaveCache
  PROVE  MutateSafe' /\ tree.edits \subseteq tree'.edits \cup hasty
<1>1. job # Nil /\ CaseRun(job) /\ UNCHANGED <<tree, lock, journal, hasty>> /\ tree.edits \subseteq tree'.edits \cup hasty
  BY DEF MutateSafe, MutateTypes, CaseKey, ReadSource, GoodRun, Recheck, BadRun, Restore, SaveCache, At, In, mutateVars
<1>2. job.pc \notin {"release", "free", "save"} => job.nr \in DOMAIN PlantList
  BY <1>1 DEF MutateSafe, MutateTypes
<1>4. \A pc : LET j == [job EXCEPT !.pc = pc] IN CaseRun(j) /\ j.nr = job.nr /\ j.src = job.src /\ j.pc = pc
  BY <1>1 DEF CaseRun
<1>5. AllLeft /\ left' = left => \A c \in tree.plants : Left(c)'
  BY DEF AllLeft, Left
<1>6. CASE CaseKey
  <2>1. job.pc = "key" /\ AllLeft /\ left' = left
    BY <1>1, <1>6 DEF CaseKey, At, In, mutateVars, MutateSafe, MutateKnows, AtRest
  <2>2. CASE CaseEnds({})
    BY <1>1, <1>2, <1>5, <2>1, <2>2, CaseEndsStep
  <2>3. CASE Goto("read")
    BY <1>1, <1>4, <2>1, <2>3, CaseGoesOn DEF Goto, AfterRead
  <2>4. CASE Set("key", KeyOf, "read")
    <3>1. CaseRun(job') /\ job'.nr = job.nr /\ job'.src = job.src /\ job'.pc = "read"
      BY <1>1, <2>4 DEF Set, CaseRun
    <3> QED
      BY <1>1, <2>1, <3>1, CaseGoesOn DEF AfterRead
  <2> QED
    BY <1>1, <1>6, <2>2, <2>3, <2>4 DEF CaseKey
<1>7. CASE ReadSource
  <2>1. job.pc = "read" /\ AllLeft /\ left' = left
    BY <1>1, <1>7 DEF ReadSource, At, In, mutateVars, MutateSafe, MutateKnows, AtRest
  <2>2. CASE CaseEnds({})
    BY <1>1, <1>2, <1>5, <2>1, <2>2, CaseEndsStep
  <2>3. CASE ThisCase \notin tree.plants /\ Set("src", tree, "good")
    <3>1. CaseRun(job') /\ job'.nr = job.nr /\ job'.src = tree /\ job'.pc = "good"
      BY <1>1, <2>3 DEF Set, CaseRun
    <3>2. AllLeft' /\ ThisCase' = ThisCase /\ \A c : Left(c)' <=> Left(c)
      BY <1>1, <2>1, <3>1 DEF AllLeft, Left, ThisCase
    <3>3. MutateTypes' /\ JournalUndoes' /\ PlantIsJournaled'
      BY <1>1, <1>2, <2>1, <3>1, <3>2 DEF MutateSafe, MutateTypes, JournalUndoes, PlantIsJournaled, Undoes
    <3>4. MutateKnows'
      <4>1. lock # Nil
        BY <1>1, <2>1 DEF MutateSafe, MutateKnows
      <4> QED
        BY <1>1, <2>3, <3>1, <3>2, <4>1 DEF MutateKnows, AllLeft
    <3> QED
      BY <1>1, <3>3, <3>4 DEF MutateSafe
  <2> QED
    BY <1>1, <1>7, <2>2, <2>3 DEF ReadSource
<1>8. CASE GoodRun
  <2>1. job.pc = "good" /\ AllLeft /\ left' = left /\ ThisCase \notin tree.plants
    BY <1>1, <1>8 DEF GoodRun, At, In, mutateVars, MutateSafe, MutateKnows, AtRest
  <2>2. CaseRun(job') /\ job'.nr = job.nr /\ job'.src = job.src /\ job'.pc = "recheck"
    BY <1>1, <1>8 DEF GoodRun, Set, CaseRun
  <2> QED
    BY <1>1, <2>1, <2>2, CaseGoesOn DEF AfterRead
<1>9. CASE Recheck
  <2>1. job.pc = "recheck" /\ AllLeft /\ left' = left /\ ThisCase \notin tree.plants
    BY <1>1, <1>9 DEF Recheck, At, In, mutateVars, MutateSafe, MutateKnows, AtRest
  <2>2. CASE CaseEnds({})
    BY <1>1, <1>2, <1>5, <2>1, <2>2, CaseEndsStep DEF AfterRead
  <2>3. CASE tree = job.src /\ Goto("journal")
    BY <1>1, <1>4, <2>1, <2>3, CaseGoesOn DEF Goto, AfterRead
  <2> QED
    BY <1>1, <1>9, <2>2, <2>3 DEF Recheck
<1>10. CASE BadRun
  <2>1. job.pc = "bad" /\ left' = left
    BY <1>10 DEF BadRun, At, In, mutateVars
  <2>2. CaseRun(job') /\ job'.nr = job.nr /\ job'.src = job.src /\ job'.pc = "restore"
    BY <1>1, <1>10 DEF BadRun, Set, CaseRun
  <2> QED
    BY <1>1, <2>1, <2>2, CaseGoesOn DEF AfterRead, AtRest
<1>11. CASE Restore
  <2>1. job.pc = "restore" /\ ThisCase \notin job.src.plants /\ \A c \in tree.plants : c = ThisCase \/ Left(c)
    BY <1>1, <1>11 DEF Restore, At, In, MutateSafe, MutateKnows, AfterRead
  <2>2. CASE tree = Planted(job.src, ThisCase) /\ Goto("undo") /\ left' = left
    <3>1. tree.edits = job.src.edits
      BY <1>1, <2>1, <2>2 DEF Planted, MutateSafe, MutateTypes, AfterRead, AnyFile
    <3> QED
      BY <1>1, <1>4, <2>1, <2>2, <3>1, CaseGoesOn DEF Goto, AfterRead, AtRest
  <2>3. CASE tree = job.src /\ Goto("unjournal") /\ left' = left
    BY <1>1, <1>4, <2>1, <2>3, CaseGoesOn DEF Goto, AfterRead, AllLeft
  <2>4. CASE Leaves("kept")
    <3>1. \A c \in tree.plants : Left(c)'
      <4>1. left \subseteq left' /\ (ThisCase \in tree.plants => <<ThisCase, "kept">> \in left')
        BY <2>4 DEF Leaves
      <4> QED
        BY <2>1, <4>1, LeftGrows, PairIsLeft
    <3>2. CASE CaseEnds({})
      BY <1>1, <1>2, <2>1, <3>1, <3>2, CaseEndsStep DEF AfterRead
    <3>3. CASE Goto("release")
      <4>1. CaseRun(job') /\ job'.pc = "release"
        BY <1>4, <3>3 DEF Goto
      <4>2. MutateTypes' /\ JournalUndoes' /\ PlantIsJournaled'
        BY <1>1, <3>1, <4>1 DEF MutateSafe, MutateTypes, JournalUndoes, PlantIsJournaled, AfterRead
      <4>3. MutateKnows'
        BY <1>1, <3>1, <4>1 DEF MutateKnows, AllLeft, AfterRead
      <4> QED
        BY <1>1, <4>2, <4>3 DEF MutateSafe
    <3> QED
      BY <1>1, <1>11, <2>1, <3>2, <3>3, <2>2, <2>3 DEF Restore
  <2> QED
    BY <1>11, <2>2, <2>3, <2>4 DEF Restore
<1>12. CASE SaveCache
  <2>1. job' = Nil /\ left' = left
    BY <1>12 DEF SaveCache, Finish
  <2> QED
    BY <1>1, <2>1 DEF MutateSafe, MutateTypes, JournalUndoes, MutateKnows, PlantIsJournaled, AllLeft, Undoes, Left
<1> QED
  BY <1>6, <1>7, <1>8, <1>9, <1>10, <1>11, <1>12

\* The journal, the plant and what takes them back.
LEMMA PlantStep ==
  ASSUME MutateSafe, tool = "mutate", WriteJournal \/ Plant \/ Undo \/ Unjournal
  PROVE  MutateSafe' /\ tree.edits \subseteq tree'.edits \cup hasty
<1>1. job # Nil /\ CaseRun(job) /\ job.pc \in AfterRead /\ job.nr \in DOMAIN PlantList /\ job.src \in AnyFile /\ hasty' = hasty /\ lock' = lock
  BY DEF MutateSafe, MutateTypes, WriteJournal, Plant, Undo, Unjournal, At, In, AfterRead
<1>2. \A pc : LET j == [job EXCEPT !.pc = pc] IN CaseRun(j) /\ j.nr = job.nr /\ j.src = job.src /\ j.pc = pc
  BY <1>1 DEF CaseRun
<1>3. ThisCase \in Plantable /\ ThisCase \notin job.src.plants /\ job.src.edits \subseteq tree.edits
  BY <1>1, MutateAssumption DEF ThisCase, Plantable, MutateSafe, MutateKnows
<1>0. lock' # Nil
  BY <1>1 DEF MutateSafe, MutateKnows
<1>4. CASE WriteJournal
  <2>1. AllLeft /\ ThisCase \notin tree.plants /\ UNCHANGED <<tree, left>> /\ tree.edits \subseteq job.src.edits \cup hasty
    BY <1>1, <1>4 DEF WriteJournal, At, In, MutateSafe, MutateKnows, AtRest
  <2>2. journal' = [case |-> ThisCase, original |-> job.src] /\ journal' # Nil
    BY <1>1, <1>3, <1>4, MutateAssumption DEF WriteJournal
  <2>3. CaseRun(job') /\ job'.nr = job.nr /\ job'.src = job.src /\ job'.pc = "plant"
    BY <1>2, <1>4 DEF WriteJournal, Goto
  <2>4. AllLeft' /\ ThisCase' = ThisCase /\ \A c : Left(c)' <=> Left(c)
    BY <2>1, <2>3 DEF AllLeft, Left, ThisCase
  <2>5. MutateTypes'
    BY <1>1, <2>1, <2>3 DEF MutateSafe, MutateTypes
  <2>6. JournalUndoes' /\ PlantIsJournaled'
    BY <1>1, <1>3, <2>1, <2>2, <2>4 DEF JournalUndoes, PlantIsJournaled, AllLeft
  <2>7. MutateKnows'
    BY <1>0, <1>1, <1>3, <2>1, <2>2, <2>3, <2>4 DEF MutateKnows, AllLeft
  <2> QED
    BY <2>1, <2>5, <2>6, <2>7 DEF MutateSafe
<1>5. CASE Plant
  <2>1. /\ AllLeft /\ journal = [case |-> ThisCase, original |-> job.src] /\ journal' = journal
        /\ tree.edits \subseteq job.src.edits \cup hasty
    BY <1>1, <1>5 DEF Plant, At, In, MutateSafe, MutateKnows, AtRest
  <2>2. tree' = [edits |-> job.src.edits, plants |-> job.src.plants \cup {ThisCase}] /\ tree' \in AnyFile
    BY <1>1, <1>3, <1>5 DEF Plant, Planted, AnyFile
  <2>3. CaseRun(job') /\ job'.nr = job.nr /\ job'.src = job.src /\ job'.pc = "bad" /\ ThisCase' = ThisCase
    BY <1>2, <1>5 DEF Plant, Goto, ThisCase
  <2>4. \A c \in job.src.plants : Left(c)'
    <3>1. left \subseteq left' /\ \A c \in job.src.plants \ tree.plants : <<c, "hasty">> \in left'
      BY <1>5 DEF Plant, Hasty
    <3> QED
      BY <2>1, <3>1, LeftGrows, PairIsLeft DEF AllLeft
  <2>5. MutateTypes'
    BY <1>1, <2>2, <2>3 DEF MutateTypes
  <2>6. JournalUndoes' /\ PlantIsJournaled' 
    <3>1. JournalUndoes'
      BY <1>1, <1>3, <2>1, <2>2, <2>4 DEF JournalUndoes
    <3>2. journal # Nil
      BY <1>1, <1>3, <2>1, MutateAssumption
    <3>3. Undoes(ThisCase)'
      BY <1>3, <2>1, <2>2, <2>3, <3>2 DEF Undoes
    <3>4. \A c : c = ThisCase => Undoes(c)'
      BY <1>3, <2>1, <2>2, <2>3, <3>2 DEF Undoes
    <3> QED
      BY <2>2, <2>4, <3>1, <3>4 DEF PlantIsJournaled
  <2>7. MutateKnows'
    BY <1>1, <1>3, <2>1, <2>2, <2>3, <2>4 DEF MutateSafe, MutateKnows, AllLeft, AtRest, AfterRead
  <2> QED
    BY <2>1, <2>2, <2>5, <2>6, <2>7 DEF MutateSafe
<1>6. CASE Undo
  <2>1. journal' = journal /\ tree' = job.src /\ tree.edits \subseteq job.src.edits \cup hasty
    BY <1>1, <1>6 DEF Undo, At, In, MutateSafe, MutateKnows
  <2>2. CaseRun(job') /\ job'.nr = job.nr /\ job'.src = job.src /\ job'.pc = "unjournal" /\ ThisCase' = ThisCase
    BY <1>2, <1>6 DEF Undo, Goto, ThisCase
  <2>3. \A c \in tree.plants : c = ThisCase \/ Left(c)
    BY <1>1 DEF MutateSafe, MutateKnows
  <2>4. \A c \in job.src.plants : Left(c)'
    <3>1. {x \in left : x[1] # ThisCase} \subseteq left' /\ \A c \in job.src.plants \ tree.plants : <<c, "hasty">> \in left'
      BY <1>6 DEF Undo, Hasty
    <3> QED
      BY <1>3, <2>3, <3>1, StaysLeft, PairIsLeft
  <2>5. MutateTypes' /\ JournalUndoes' /\ PlantIsJournaled'
    BY <1>1, <2>1, <2>2, <2>4 DEF MutateSafe, MutateTypes, JournalUndoes, PlantIsJournaled
  <2>6. MutateKnows'
    BY <1>0, <1>1, <1>3, <2>1, <2>2, <2>4 DEF MutateKnows, AllLeft
  <2> QED
    BY <2>1, <2>5, <2>6 DEF MutateSafe
<1>7. CASE Unjournal
  <2>1. UNCHANGED <<tree, left>> /\ journal' \in {journal, Nil} /\ AllLeft
    BY <1>1, <1>7 DEF Unjournal, At, In, MutateSafe, MutateKnows, AtRest
  <2>2. \A c \in tree.plants : Left(c)'
    BY <2>1 DEF AllLeft, Left
  <2>3. CASE Goto("release")
    <3>1. CaseRun(job') /\ job'.pc = "release"
      BY <1>2, <2>3 DEF Goto
    <3>2. MutateTypes' /\ JournalUndoes' /\ PlantIsJournaled'
      BY <1>1, <2>1, <2>2, <3>1 DEF MutateSafe, MutateTypes, JournalUndoes, PlantIsJournaled, AfterRead
    <3>3. MutateKnows'
      BY <1>1, <2>1, <2>2, <3>1 DEF MutateKnows, AllLeft, AfterRead
    <3> QED
      BY <2>1, <3>2, <3>3 DEF MutateSafe
  <2>4. CASE \E keys : CaseEnds(keys)
    BY <1>1, <2>1, <2>2, <2>4, CaseEndsStep
  <2> QED
    BY <1>7, <2>1, <2>3, <2>4 DEF Unjournal
<1> QED
  BY <1>4, <1>5, <1>6, <1>7

\* A run is cancelled or killed; people edit the file and the tests; doctor removes the lock.
LEMMA MutateBesideStep ==
  ASSUME MutateSafe, tool = "mutate", MutateCancel \/ MutateKill \/ TreeEdit \/ TestEdit \/ DoctorFix
  PROVE  MutateSafe' /\ tree.edits \subseteq tree'.edits \cup hasty
<1>1. CASE MutateCancel
  <2>1. job # Nil /\ CaseRun(job) /\ UNCHANGED <<tree, lock, journal, hasty>>
    BY <1>1 DEF MutateCancel, Mutating, In, MutateSafe, MutateTypes
  <2>3. CASE job.pc \in {"journal", "plant", "bad"}
    <3>1. job' = [job EXCEPT !.pc = "restore", !.stop = TRUE] /\ left' = left
      BY <1>1, <2>3 DEF MutateCancel
    <3>2. CaseRun(job') /\ job'.nr = job.nr /\ job'.src = job.src /\ job'.pc = "restore"
      BY <2>1, <3>1 DEF CaseRun
    <3> QED
      BY <2>1, <2>3, <3>1, <3>2, CaseGoesOn DEF AfterRead, AtRest
  <2>4. CASE job.pc \in {"key", "read", "good", "recheck", "restore", "undo", "unjournal"}
    <3>1. job' = [job EXCEPT !.pc = "release", !.stop = TRUE]
      BY <1>1, <2>4 DEF MutateCancel
    <3>2. CaseRun(job') /\ job'.pc = "release"
      BY <2>1, <3>1 DEF CaseRun
    <3>3. \A c \in tree.plants : Left(c)'
      <4>1. CASE job.pc \in {"restore", "undo", "unjournal"}
        <5>1. Leaves("signal")
          BY <1>1, <4>1 DEF MutateCancel
        <5>2. \A c \in tree.plants : c = ThisCase \/ Left(c)
          BY <2>1, <4>1 DEF MutateSafe, MutateKnows, AfterRead
        <5> QED
          <6>1. left \subseteq left' /\ (ThisCase \in tree.plants => <<ThisCase, "signal">> \in left')
            BY <5>1 DEF Leaves
          <6> QED
            BY <5>2, <6>1, LeftGrows, PairIsLeft
      <4>2. CASE job.pc \in {"key", "read", "good", "recheck"}
        <5>1. left' = left
          BY <1>1, <4>2 DEF MutateCancel
        <5>2. AllLeft
          BY <2>1, <4>2 DEF MutateSafe, MutateKnows, AtRest
        <5> QED
          BY <5>1, <5>2 DEF AllLeft, Left
      <4> QED
        BY <2>4, <4>1, <4>2
    <3>4. MutateTypes' /\ JournalUndoes' /\ PlantIsJournaled'
      BY <2>1, <3>2, <3>3 DEF MutateSafe, MutateTypes, JournalUndoes, PlantIsJournaled, AfterRead
    <3>5. MutateKnows'
      BY <2>1, <3>2, <3>3 DEF MutateKnows, AllLeft, AfterRead
    <3> QED
      BY <2>1, <3>4, <3>5 DEF MutateSafe
  <2>5. CASE job.pc \notin {"journal", "plant", "bad", "key", "read", "good", "recheck", "restore", "undo", "unjournal"}
    <3>1. job' = Nil /\ left' = left
      BY <1>1, <2>5 DEF MutateCancel, Stops
    <3> QED
      BY <2>1, <3>1 DEF MutateSafe, MutateTypes, JournalUndoes, MutateKnows, PlantIsJournaled, AllLeft, Undoes, Left
  <2> QED
    BY <2>1, <2>3, <2>4, <2>5
<1>2. CASE MutateKill
  BY <1>2 DEF MutateKill, Stops, mutateVars, MutateSafe, MutateTypes, JournalUndoes, MutateKnows, PlantIsJournaled, AllLeft, Undoes, Left
<1>3. CASE TreeEdit
  <2>1. PICK e \in Edit, plants \in SUBSET tree.plants :
          /\ tree' = [edits |-> tree.edits \cup {e}, plants |-> plants]
          /\ left' = {x \in left : x[1] \in plants}
          /\ hasty' = IF Mutating /\ job.pc \in {"journal", "plant", "undo"} THEN hasty \cup {e} ELSE hasty
    BY <1>3 DEF TreeEdit
  <2>2. tree' \in AnyFile /\ tree'.edits = tree.edits \cup {e} /\ tree'.plants = plants
    BY <2>1 DEF AnyFile, Edit, MutateSafe, MutateTypes
  <2>3. UNCHANGED <<job, lock, journal>> /\ hasty \subseteq hasty' /\ ThisCase' = ThisCase
    BY <1>3, <2>1 DEF TreeEdit, ThisCase
  <2>4. \A c \in plants : Left(c) => Left(c)'
    BY <2>1 DEF Left
  <2>5. AllLeft => AllLeft'
    BY <2>1, <2>2, <2>4 DEF AllLeft
  <2>6. \A c : Undoes(c) => Undoes(c)'
    BY <2>2, <2>3 DEF Undoes
  <2>7. MutateTypes' /\ JournalUndoes' /\ PlantIsJournaled'
    BY <2>1, <2>2, <2>3, <2>4, <2>6 DEF MutateSafe, MutateTypes, JournalUndoes, PlantIsJournaled
  <2>8. job # Nil /\ job.pc \in {"journal", "plant", "undo"} => e \in hasty'
    BY <2>1 DEF Mutating, In
  <2>9. MutateKnows'
    BY <2>1, <2>2, <2>3, <2>4, <2>5, <2>8 DEF MutateSafe, MutateKnows
  <2> QED
    BY <2>2, <2>7, <2>9 DEF MutateSafe
<1>4. CASE TestEdit
  <2>1. UNCHANGED <<job, tree, lock, journal, left>> /\ hasty \subseteq hasty'
    BY <1>4 DEF TestEdit
  <2> QED
    BY <2>1 DEF MutateSafe, MutateTypes, JournalUndoes, MutateKnows, PlantIsJournaled, AllLeft, Undoes, Left, ThisCase
<1>5. CASE DoctorFix
  <2>1. UNCHANGED <<job, tree, journal, hasty>> /\ lock' = Nil /\ (job = Nil \/ job.pc = "lock")
    BY <1>5 DEF DoctorFix, At, In
  <2>2. \A c \in tree.plants : Left(c)'
    <3>1. /\ left \subseteq left'
          /\ \A c \in tree.plants : (\A x \in left : x[1] # c) => <<c, "doctor">> \in left'
      BY <1>5 DEF DoctorFix
    <3>2. \A c : Left(c) \/ \A x \in left : x[1] # c
      BY DEF Left
    <3> QED
      BY <3>1, <3>2, LeftGrows, PairIsLeft
  <2>3. MutateTypes' /\ JournalUndoes' /\ PlantIsJournaled'
    BY <2>1, <2>2 DEF MutateSafe, MutateTypes, JournalUndoes, PlantIsJournaled
  <2>4. MutateKnows'
    BY <2>1, <2>2 DEF MutateKnows, AllLeft, AfterRead
  <2> QED
    BY <2>1, <2>3, <2>4 DEF MutateSafe
<1> QED
  BY <1>1, <1>2, <1>3, <1>4, <1>5

LEMMA MutateNextInv == MutateIInv /\ [Next]_vars => MutateIInv' /\ (tree.edits \subseteq tree'.edits \cup hasty)
<1> SUFFICES ASSUME MutateIInv, [Next]_vars
             PROVE  MutateIInv' /\ (tree.edits \subseteq tree'.edits \cup hasty)
  OBVIOUS
<1>1. CASE tool # "mutate"
  BY <1>1, OnlyMutations DEF MutateIInv, mutateVars, PlantIsJournaled, Undoes, Left
<1>2. CASE tool = "mutate" /\ UNCHANGED <<jobVars, mutateVars>>
  BY <1>2, OnlyMutations DEF MutateIInv, MutateSafe, mutateVars, jobVars, PlantIsJournaled, MutateTypes,
     JournalUndoes, MutateKnows, AllLeft, Undoes, Left, ThisCase
<1>3. CASE tool = "mutate" /\ MutateNext
  <2>1. MutateSafe
    BY <1>3 DEF MutateIInv
  <2>2. MutateSafe' /\ (tree.edits \subseteq tree'.edits \cup hasty)
    BY <1>3, <2>1, LockStep, CaseStep, PlantStep, MutateBesideStep DEF MutateNext
  <2> QED
    BY <2>2 DEF MutateSafe, MutateIInv
<1> QED
  BY <1>1, <1>2, <1>3, OnlyMutations

\* In every reachable state the file, the journal and the run belong together.
THEOREM MutateInvariant == Spec => []MutateIInv
<1>1. MutateIInv /\ [Next]_vars => MutateIInv'
  BY MutateNextInv
<1> QED
  BY MutateInitInv, <1>1, PTL DEF Spec

\* A plant on disk is one that the journal undoes, or it was left there for a known reason.
THEOREM Journaled == Spec => []PlantIsJournaled
<1>1. MutateIInv => PlantIsJournaled
  BY DEF MutateIInv
<1> QED
  BY MutateInvariant, <1>1, PTL

\* Nobody's edit is lost, but between a check and the write right after it.
THEOREM EditsStay == Spec => OthersEditsStay
<1>1. MutateIInv /\ [Next]_vars => [tree.edits \subseteq tree'.edits \cup hasty]_tree
  BY MutateNextInv
<1> QED
  BY MutateInvariant, <1>1, PTL DEF Spec, OthersEditsStay

(***************************************************************************)
(* The driver: it decides to send on a calm machine only, and then it does. *)
(***************************************************************************)
\* What the driver knows at each of its places: it has counted the calm checks
\* right, and its count of wakes in vain is the true one.
TickInv ==
  /\ driver.idle \in Nat /\ calm \in 0..IdleNeeded /\ driver.stale \in Nat /\ dull = driver.stale /\ dull < StaleLimit
  /\ driver = [first |-> driver.first, since |-> driver.since, head |-> driver.head, stale |-> driver.stale, idle |-> driver.idle]
  /\ used \in [run : Nat, edit : Nat, upset : Nat] /\ (used.run = 0 => driver.idle <= calm)
  /\ job # Nil =>
       /\ used.run > 0
       /\ job.pc # "decide" => driver.idle <= calm
       /\ job = [pc |-> job.pc, head |-> job.head, busy |-> job.busy]
       /\ job.pc = "decide" /\ ~job.busy => UpTo(driver.idle, IdleNeeded) <= calm
       /\ job.pc = "send" => calm = IdleNeeded
       /\ job.pc = "send" /\ driver.first /\ job.head = driver.head => driver.stale + 1 < StaleLimit

\* The checks that passed the pane over have all been counted towards the wait.
WakeInv ==
  /\ driver.since \in 0..Cooldown /\ driver.idle \in 0..IdleNeeded /\ passed \in Nat
  /\ passed <= driver.since \/ driver.since = Cooldown
  /\ passed <= driver.idle \/ driver.idle = IdleNeeded
  /\ WakesCome

TickIInv == (tool = "tick" => TickInv /\ WakeInv) /\ WakesSpare /\ WakesCome

LEMMA OnlyTick ==
  ASSUME [Next]_vars
  PROVE  /\ tool' = tool
         /\ tool = "tick" => TickNext \/ UNCHANGED <<jobVars, tickVars>>
         /\ tool # "tick" => UNCHANGED tickVars
BY DEF Next, BenchNext, vars, benchVars, tickVars, jobVars

LEMMA TickInitInv == Init => TickIInv
BY TickAssumption DEF Init, TickInit, JobInit, TickIInv, TickInv, WakeInv, WakesSpare, WakesCome, At, In, UpTo

LEMMA TickStep ==
  ASSUME TickInv, tool = "tick", TickNext
  PROVE  TickInv'
  <1> USE TickAssumption DEF TickInv, At, In, Goto, Set, Finish, tickVars
  <1>1. CASE TickBegin
    BY <1>1 DEF TickBegin, Begin, Count
  <1>2. CASE TickRead
    BY <1>2 DEF TickRead
  <1>3. CASE TickLook
    <2>1. job # Nil /\ job.pc = "look" /\ UNCHANGED <<driver, dull, used>>
      BY <1>3 DEF TickLook
    <2>2. job' = [pc |-> "decide", head |-> job.head, busy |-> job'.busy] /\ (~job'.busy => ~(run \/ pane))
      <3>1. job' = [job EXCEPT !["busy"] = run \/ pane, !.pc = "decide"]
        BY <1>3 DEF TickLook
      <3>2. job' = [pc |-> "decide", head |-> job.head, busy |-> run \/ pane]
        BY <2>1, <3>1
      <3> QED
        BY <3>2
    <2>3. calm' = IF run \/ pane THEN 0 ELSE UpTo(calm, IdleNeeded)
      BY <1>3 DEF TickLook
    <2>4. calm' \in 0..IdleNeeded
      BY <2>3 DEF UpTo
    <2>5. ~(run \/ pane) => UpTo(driver.idle, IdleNeeded) <= calm'
      BY <2>1, <2>3 DEF UpTo
    <2>6. ~job'.busy => UpTo(driver.idle, IdleNeeded) <= calm'
      BY <2>2, <2>5
    <2> QED
      BY <2>1, <2>2, <2>4, <2>6 DEF UpTo
  <1>4. CASE TickDecide
    <2>1. job # Nil /\ job.pc = "decide" /\ UNCHANGED <<calm, dull, used>>
      BY <1>4 DEF TickDecide
    <2>2. driver' = [driver EXCEPT !.idle = Rested, !.since = UpTo(@, Cooldown)]
      BY <1>4 DEF TickDecide
    <2>3. Rested \in Nat /\ Rested <= calm
      BY <2>1 DEF Rested, UpTo
    <2>4. \/ job' = [job EXCEPT !.pc = "read"]
          \/ job' = [job EXCEPT !.pc = "stale"]
          \/ job' = [job EXCEPT !.pc = "send"] /\ Rested >= IdleNeeded /\ (driver.first => ~Stale)
      BY <1>4 DEF TickDecide, Decide
    <2>5. driver' = [first |-> driver.first, since |-> UpTo(driver.since, Cooldown), head |-> driver.head, stale |-> driver.stale,
                     idle |-> Rested]
      BY <2>2
    <2>6. job' = [pc |-> job'.pc, head |-> job.head, busy |-> job.busy] /\ job'.pc \in {"read", "stale", "send"}
      BY <2>1, <2>4
    <2>7. job'.pc = "send" => calm = IdleNeeded /\ (driver.first /\ job.head = driver.head => driver.stale + 1 < StaleLimit)
      BY <2>1, <2>3, <2>4 DEF Stale
    <2> QED
      BY <2>1, <2>3, <2>5, <2>6, <2>7
  <1>5. CASE TickSend
    BY <1>5 DEF TickSend, Fails, Upset, Count
  <1>6. CASE TickExit
    BY <1>6 DEF TickExit
  <1>7. CASE TickWorld
    BY <1>7 DEF TickWorld, Upset, ByOthers, Count
  <1> QED
    BY <1>1, <1>2, <1>3, <1>4, <1>5, <1>6, <1>7 DEF TickNext

\* A check passes the pane over only while one of the waits lasts, and is counted in both.
LEMMA WakeStep ==
  ASSUME TickInv, WakeInv, TickNext
  PROVE  WakeInv'
  <1>0. Cooldown \in Nat /\ IdleNeeded \in Nat /\ Cooldown # 0 /\ IdleNeeded # 0
    BY TickAssumption
  <1>1. CASE TickDecide
    <2>1. driver' = [driver EXCEPT !.idle = Rested, !.since = UpTo(@, Cooldown)]
      BY <1>1 DEF TickDecide
    <2>2. driver'.idle = Rested /\ driver'.since = UpTo(driver.since, Cooldown)
      BY <2>1 DEF TickInv
    <2>3. CASE job.busy
      <3>1. passed' = 0 /\ driver'.idle = 0
        BY <1>1, <2>2, <2>3 DEF TickDecide, Rested
      <3> QED
        BY <1>0, <2>2, <3>1 DEF WakeInv, WakesCome, UpTo
    <2>4. CASE ~job.busy
      <3>1. Rested = UpTo(driver.idle, IdleNeeded)
        BY <2>4 DEF Rested
      <3>2. \/ passed' = passed
            \/ passed' = passed + 1 /\ (Rested < IdleNeeded \/ driver.since < Cooldown)
        BY <1>1, <2>4 DEF TickDecide, Decide
      <3> HIDE DEF Rested
      <3> QED
        BY <1>0, <2>2, <3>1, <3>2 DEF WakeInv, WakesCome, UpTo
    <2> QED
      BY <2>3, <2>4
  <1>2. CASE TickSend
    <2>1. \/ UNCHANGED <<driver, passed>>
          \/ passed' = 0 /\ driver'.since = 0 /\ driver'.idle = 0
      BY <1>2 DEF TickSend
    <2> QED
      BY <1>0, <2>1 DEF WakeInv, WakesCome
  <1>3. CASE TickBegin \/ TickRead \/ TickLook \/ TickExit \/ TickWorld
    <2>1. UNCHANGED <<driver, passed>>
      BY <1>3 DEF TickBegin, TickRead, TickLook, TickExit, TickWorld, tickVars
    <2> QED
      BY <2>1 DEF WakeInv, WakesCome
  <1> QED
    BY <1>1, <1>2, <1>3 DEF TickNext

LEMMA TickNextInv == TickIInv /\ [Next]_vars => TickIInv'
<1> SUFFICES ASSUME TickIInv, [Next]_vars
             PROVE  TickIInv'
  OBVIOUS
<1>1. CASE tool = "tick" /\ TickNext
  <2>1. TickInv' /\ WakeInv'
    BY <1>1, TickStep, WakeStep DEF TickIInv
  <2>2. WakesSpare'
    BY <2>1, <1>1 DEF TickInv, WakesSpare, At, In
  <2> QED
    BY <2>1, <2>2 DEF TickIInv, WakeInv
<1>2. CASE tool = "tick" /\ UNCHANGED <<jobVars, tickVars>>
  BY <1>2, OnlyTick DEF TickIInv, TickInv, WakeInv, WakesSpare, WakesCome, jobVars, tickVars, At, In
<1>3. CASE tool # "tick"
  BY <1>3, OnlyTick DEF TickIInv, WakesSpare, WakesCome, tickVars, At, In
<1> QED
  BY <1>1, <1>2, <1>3, OnlyTick

\* A send is decided only after IdleNeeded calm checks in a row, and wakes in vain
\* are few.
THEOREM Spared == Spec => []WakesSpare
<1>1. TickIInv => WakesSpare
  BY DEF TickIInv
<1> QED
  BY TickInitInv, TickNextInv, <1>1, PTL DEF Spec

\* A pane that rests is not passed over for longer than its cooldown, or its first
\* idle checks.
THEOREM Woken == Spec => []WakesCome
<1>1. TickIInv => WakesCome
  BY DEF TickIInv
<1> QED
  BY TickInitInv, TickNextInv, <1>1, PTL DEF Spec

(***************************************************************************)
(* The refresh of omp: what it carries over is what it replaces.           *)
(***************************************************************************)
RefreshFields == {"pc", "attempt", "first", "child", "requests", "shas"}
Request == [of : Feature, shape : {Sends[<<f, v>>] : f \in Feature, v \in Build}]
Sent(f) == [of |-> f, shape |-> Sends[<<f, entry>>]]

\* An install that is not over has replaced one part at most; the package is
\* still only after it is over.
InstallFits ==
  /\ entry \in Build /\ modules \in Build /\ still \in BOOLEAN /\ moved \in BOOLEAN
  /\ still => putting = Nil
  /\ putting = Nil => entry = modules
  /\ putting # Nil => /\ putting = [to |-> putting.to, left |-> putting.left] /\ putting.to \in Build
                      /\ putting.left \in {{"entry", "modules"}, {"entry"}, {"modules"}}
                      /\ putting.left = {"entry"} => modules = putting.to
                      /\ putting.left = {"modules"} => entry = putting.to

\* What an attempt that no install has overtaken has heard since it began.
HeardNone == Len(job.requests) = job.first
HeardFind == Len(job.requests) = job.first + 1 /\ job.requests[job.first + 1] = Sent("find")
HeardBoth ==
  /\ Len(job.requests) = job.first + 2
  /\ job.requests[job.first + 1] = Sent("find") /\ job.requests[job.first + 2] = Sent("title")

Heard ==
  /\ job.pc = "talk" /\ job.child = "rpc" => HeardNone
  /\ job.pc = "quit" /\ job.child = "rpc" => HeardFind
  /\ job.pc = "pty" => HeardFind
  /\ job.pc = "talk" /\ job.child = "pty" => HeardFind
  /\ job.pc = "quit" /\ job.child = "pty" => HeardBoth
  /\ job.pc \in {"modules", "compare"} => HeardBoth
  /\ job.pc = "compare" => job.shas = [f \in Feature |-> Module[<<f, modules>>]]

AttemptFits ==
  job # Nil =>
    /\ DOMAIN job = RefreshFields /\ job.first \in Nat /\ job.requests \in Seq(Request)
    /\ job.pc # "settle" /\ ~moved => entry = modules /\ Heard

RefreshIInv == (tool = "refresh" => InstallFits /\ AttemptFits) /\ CarriedIsSame

LEMMA OnlyRefresh ==
  ASSUME [Next]_vars
  PROVE  /\ tool' = tool
         /\ tool = "refresh" => RefreshNext \/ UNCHANGED <<jobVars, refreshVars>>
         /\ tool # "refresh" => UNCHANGED refreshVars
BY DEF Next, BenchNext, vars, benchVars, refreshVars, jobVars

LEMMA RefreshInitInv == Init => RefreshIInv
BY RefreshAssumption DEF Init, RefreshInit, JobInit, RefreshIInv, InstallFits, AttemptFits, CarriedIsSame, At, In

\* A command begins or ends, or the attempt begins: nothing has been heard yet.
LEMMA RefreshEndsStep ==
  ASSUME InstallFits, AttemptFits, tool = "refresh", UNCHANGED tool,
         RefreshBegin \/ Settle \/ Retry \/ RefreshFails \/ Report \/ RefreshKill
  PROVE  InstallFits' /\ AttemptFits' /\ CarriedIsSame'
<1> USE DEF At, In, Goto, Finish, Stops, Upset, Begin, Count, refreshVars
<1>1. CASE RefreshBegin
  <2>1. /\ job' = [pc |-> "settle", attempt |-> 1, first |-> 0, child |-> Nil, requests |-> <<>>, shas |-> Nil]
        /\ UNCHANGED <<entry, modules, putting, still, moved>>
    BY <1>1 DEF RefreshBegin
  <2>2. job'.requests \in Seq(Request)
    BY <2>1, EmptySeq
  <2> QED
    BY <2>1, <2>2 DEF InstallFits, AttemptFits, RefreshFields, CarriedIsSame
<1>2. CASE Settle \/ Retry
  <2>1. /\ job # Nil /\ job.pc \in {"settle", "retry"} /\ UNCHANGED <<entry, modules, putting, still>>
        /\ moved' \in BOOLEAN
    BY <1>2 DEF Settle, Retry, Refreshing, Settled, InstallFits
  <2>2. \/ job' = Nil
        \/ /\ job' = [job EXCEPT !.pc = "rpc"] \/ job' = [job EXCEPT !.attempt = 2, !.pc = "rpc"]
           /\ ~moved' => putting = Nil
        \/ job' = [job EXCEPT !.pc = "failed"] /\ moved' = moved /\ job.pc = "retry"
    BY <1>2 DEF Settle, Retry, Refreshing, Settled, InstallFits
  <2>3. /\ InstallFits'
        /\ ~moved' /\ job' # Nil => entry' = modules'
    BY <2>1, <2>2 DEF InstallFits, AttemptFits
  <2>4. job' # Nil => /\ DOMAIN job' = RefreshFields /\ job'.pc \in {"rpc", "failed"}
                      /\ job'.first = job.first /\ job'.requests = job.requests
    BY <2>1, <2>2 DEF AttemptFits, RefreshFields
  <2> QED
    BY <2>1, <2>3, <2>4 DEF AttemptFits, Heard, CarriedIsSame
<1>3. CASE RefreshFails \/ Report \/ RefreshKill
  BY <1>3 DEF RefreshFails, Report, RefreshKill, InstallFits, AttemptFits, CarriedIsSame
<1> QED
  BY <1>1, <1>2, <1>3

\* A leg.
LEMMA LegStep ==
  ASSUME InstallFits, AttemptFits, tool = "refresh", UNCHANGED tool,
         LegStart \/ TalkRpc \/ TalkTitle \/ QuitRpc \/ QuitTitle \/ ReadModules
  PROVE  InstallFits' /\ AttemptFits' /\ CarriedIsSame'
<1> USE DEF At, In, Refreshing, refreshVars
<1>1. job # Nil /\ UNCHANGED <<entry, modules, putting, still, moved, baseline, outcome>>
  BY DEF LegStart, TalkRpc, TalkTitle, Talk, QuitRpc, QuitTitle, Quit, ReadModules
<1>2. /\ DOMAIN job = RefreshFields /\ job.first \in Nat /\ job.requests \in Seq(Request) /\ Len(job.requests) \in Nat
      /\ job.pc # "settle" /\ ~moved => entry = modules /\ Heard
  BY <1>1 DEF AttemptFits
<1>3. InstallFits'
  BY <1>1 DEF InstallFits
<1> SUFFICES AttemptFits' /\ (job' # Nil => job'.pc # "reported")
  BY <1>3 DEF CarriedIsSame
<1>4. CASE LegStart
  <2>1. job' = [job EXCEPT !.child = job.pc, !.pc = "talk", !.first = IF job.pc = "rpc" THEN Len(job.requests) ELSE @]
    BY <1>4 DEF LegStart
  <2>2. /\ DOMAIN job' = RefreshFields /\ job'.pc = "talk" /\ job'.child = job.pc /\ job'.requests = job.requests
        /\ job'.first = IF job.pc = "rpc" THEN Len(job.requests) ELSE job.first
    BY <1>2, <2>1 DEF RefreshFields
  <2>3. job.pc \in {"rpc", "pty"}
    BY <1>4 DEF LegStart
  <2> QED
    BY <1>1, <1>2, <2>2, <2>3 DEF AttemptFits, Heard, HeardNone, HeardFind, Sent
<1>5. ASSUME NEW leg \in {"rpc", "pty"}, NEW f \in Feature, Talk(leg, f), leg = "rpc" <=> f = "find"
      PROVE  AttemptFits' /\ (job' # Nil => job'.pc # "reported")
  <2> DEFINE sent == Append(job.requests, Sent(f))
  <2>1. /\ job.pc = "talk" /\ job.child = leg
        /\ \/ job' = [job EXCEPT !.requests = sent, !.pc = "quit"]
           \/ \E rs \in {job.requests, sent}, pc \in {"again", "broken"} : job' = [job EXCEPT !.requests = rs, !.pc = pc]
    BY <1>5 DEF Talk, Sent, Set
  <2>2. Sent(f) \in Request
    BY DEF Sent, Request, InstallFits
  <2>3. sent \in Seq(Request) /\ Len(sent) = Len(job.requests) + 1 /\ sent[Len(job.requests) + 1] = Sent(f)
        /\ \A i \in 1..Len(job.requests) : sent[i] = job.requests[i]
    BY <1>2, <2>2
  <2> HIDE DEF sent
  <2>4. /\ DOMAIN job' = RefreshFields /\ job'.pc \in {"quit", "again", "broken"} /\ job'.child = leg
        /\ job'.first = job.first /\ job'.requests \in {job.requests, sent}
        /\ job'.pc = "quit" => job'.requests = sent
    BY <1>2, <2>1 DEF RefreshFields
  <2>5. job'.requests \in Seq(Request)
    BY <1>2, <2>3, <2>4
  <2>6. ~moved' => entry' = modules'
    BY <1>1, <1>2, <2>1
  <2>7. ~moved' => Heard'
    <3> SUFFICES ASSUME ~moved, job'.pc = "quit"
                 PROVE  Heard'
      BY <1>1, <2>4 DEF Heard
    <3>0. job'.pc = "quit"
      OBVIOUS
    <3>1. CASE leg = "rpc"
      <4>1. Len(job.requests) = job.first
        BY <1>2, <2>1, <3>1 DEF Heard, HeardNone
      <4>2. HeardFind'
        BY <1>1, <1>2, <1>5, <2>3, <2>4, <3>1, <4>1 DEF HeardFind, Sent, Feature
      <4> QED
        BY <2>4, <3>1, <4>2 DEF Heard
    <3>2. CASE leg = "pty"
      <4>1. HeardFind
        BY <1>2, <2>1, <3>2 DEF Heard
      <4>2. /\ job'.requests = sent /\ Len(sent) = job.first + 2 /\ sent[job.first + 2] = Sent("title")
            /\ sent[job.first + 1] = Sent("find")
        <5>1. f = "title"
          BY <1>5, <3>2 DEF Feature
        <5>2. Len(job.requests) = job.first + 1 /\ job.requests[job.first + 1] = Sent("find") /\ job.first \in Nat
          BY <1>2, <4>1 DEF HeardFind
        <5>3. job.first + 1 \in 1..Len(job.requests) /\ Len(job.requests) + 1 = job.first + 2
          BY ONLY <5>2
        <5>4. job'.requests = sent
          BY ONLY <2>4, <3>0
        <5>5. sent[job.first + 1] = Sent("find")
          BY ONLY <2>3, <5>2, <5>3
        <5>6. Len(sent) = job.first + 2 /\ sent[job.first + 2] = Sent("title")
          BY ONLY <2>3, <5>1, <5>3
        <5> QED
          BY ONLY <5>4, <5>5, <5>6
      <4>3. HeardBoth'
        BY <1>1, <2>4, <4>2 DEF HeardBoth, Sent
      <4> QED
        BY <2>4, <3>2, <4>3 DEF Heard
    <3> QED
      BY <3>1, <3>2
  <2> QED
    BY <1>2, <2>4, <2>5, <2>6, <2>7 DEF AttemptFits
<1>6. CASE TalkRpc \/ TalkTitle
  BY <1>5, <1>6 DEF TalkRpc, TalkTitle, Feature
<1>7. CASE QuitRpc \/ QuitTitle
  <2>1. \/ /\ job.child = "rpc"
           /\ job' = [job EXCEPT !.child = Nil, !.pc = CASE job.pc = "quit" -> "pty" [] job.pc = "again" -> "retry" [] OTHER -> "failed"]
        \/ /\ job.child = "pty"
           /\ job' = [job EXCEPT !.child = Nil, !.pc = CASE job.pc = "quit" -> "modules" [] job.pc = "again" -> "retry" [] OTHER -> "failed"]
        \/ job' = [job EXCEPT !.pc = "failed"]
    BY <1>7 DEF QuitRpc, QuitTitle, Quit, Fails
  <2>2. job.pc \in {"quit", "again", "broken"}
    BY <1>7 DEF QuitRpc, QuitTitle, Quit
  <2>3. /\ DOMAIN job' = RefreshFields /\ job'.first = job.first /\ job'.requests = job.requests
        /\ job'.pc \in {"retry", "failed"} \/ (job.pc = "quit" /\ job.child = "rpc" /\ job'.pc = "pty")
             \/ (job.pc = "quit" /\ job.child = "pty" /\ job'.pc = "modules")
    BY <1>2, <2>1, <2>2 DEF RefreshFields
  <2> QED
    BY <1>1, <1>2, <2>2, <2>3 DEF AttemptFits, Heard, HeardFind, HeardBoth, Sent
<1>8. CASE ReadModules
  <2>1. job.pc = "modules" /\ job' = [job EXCEPT !["shas"] = [f \in Feature |-> Module[<<f, modules>>]], !.pc = "compare"]
    BY <1>8 DEF ReadModules, Set
  <2>2. /\ DOMAIN job' = RefreshFields /\ job'.first = job.first /\ job'.requests = job.requests /\ job'.pc = "compare"
        /\ job'.shas = [f \in Feature |-> Module[<<f, modules>>]]
    BY <1>2, <2>1 DEF RefreshFields
  <2> QED
    BY <1>1, <1>2, <2>1, <2>2 DEF AttemptFits, Heard, HeardBoth, Sent
<1> QED
  BY <1>4, <1>6, <1>7, <1>8

\* An attempt that heard both legs captured what the installed version sends.
LEMMA CapturedIsSent ==
  ASSUME job.first \in Nat, job.requests \in Seq(Request), HeardBoth
  PROVE  Captured = [f \in Feature |-> {Sends[<<f, entry>>]}]
<1>1. /\ Slice \in Seq(Request) /\ Len(Slice) = 2 /\ Slice[1] = Sent("find") /\ Slice[2] = Sent("title")
  <2>1. /\ job.first + 1 \in Nat /\ Len(job.requests) = job.first + 2
        /\ job.requests[job.first + 1] = Sent("find") /\ job.requests[job.first + 2] = Sent("title")
    BY DEF HeardBoth
  <2>2. \A i \in (job.first + 1)..Len(job.requests) : job.requests[i] \in Request
    BY <2>1
  <2> DEFINE m == job.first + 1
             n == Len(job.requests)
  <2>3. m \in Int /\ n \in Int /\ n - m + 1 = 2 /\ \A i \in m..n : job.requests[i] \in Request
    BY <2>1, <2>2
  <2>4. Slice = SubSeq(job.requests, m, n)
    BY DEF Slice
  <2> HIDE DEF m, n
  <2>5. /\ Slice \in Seq(Request) /\ Len(Slice) = 2
        /\ \A i \in 1..2 : Slice[i] = job.requests[m + i - 1]
    BY <2>3, <2>4, SubSeqProperties
  <2>6. Slice[1] = job.requests[job.first + 1] /\ Slice[2] = job.requests[job.first + 2]
    <3>1. 1 \in 1..2 /\ 2 \in 1..2 /\ m + 1 - 1 = job.first + 1 /\ m + 2 - 1 = job.first + 2
      BY <2>1 DEF m
    <3> QED
      BY ONLY <2>5, <3>1
  <2> QED
    BY ONLY <2>1, <2>5, <2>6
<1>2. 1..Len(Slice) = {1, 2}
  BY <1>1
<1>3. ASSUME NEW f \in Feature
      PROVE  {Slice[i].shape : i \in {j \in 1..Len(Slice) : Slice[j].of = f}} = {Sends[<<f, entry>>]}
  <2>1. Slice[1].of = "find" /\ Slice[1].shape = Sends[<<"find", entry>>] /\ Slice[2].of = "title" /\ Slice[2].shape = Sends[<<"title", entry>>]
    BY <1>1 DEF Sent
  <2>2. f = "find" => {j \in {1, 2} : Slice[j].of = f} = {1}
    BY <2>1
  <2>3. f = "title" => {j \in {1, 2} : Slice[j].of = f} = {2}
    BY <2>1
  <2> QED
    BY <1>2, <2>1, <2>2, <2>3 DEF Feature
<1> QED
  BY <1>3 DEF Captured

LEMMA CompareStep ==
  ASSUME InstallFits, AttemptFits, tool = "refresh", UNCHANGED tool, Compare
  PROVE  InstallFits' /\ AttemptFits' /\ CarriedIsSame'
<1>1. /\ job # Nil /\ job.pc = "compare" /\ job' = [job EXCEPT !.pc = "reported"]
      /\ UNCHANGED <<entry, modules, putting, still, moved>>
      /\ DOMAIN job = RefreshFields /\ job.first \in Nat /\ job.requests \in Seq(Request)
      /\ ~moved => entry = modules /\ HeardBoth /\ job.shas = [f \in Feature |-> Module[<<f, modules>>]]
  BY DEF Compare, Refreshing, At, In, AttemptFits, Heard
<1>2. /\ DOMAIN job' = RefreshFields /\ job'.first = job.first /\ job'.requests = job.requests /\ job'.pc = "reported"
  BY <1>1 DEF RefreshFields
<1>3. InstallFits' /\ AttemptFits'
  BY <1>1, <1>2 DEF InstallFits, AttemptFits, Heard
<1>4. ASSUME ~moved
      PROVE  /\ entry' = modules'
             /\ \A f \in Feature :
                  CASE outcome'[f] = "NEW" -> baseline' = Installed(entry)
                    [] OTHER -> outcome'[f] = "CARRIED" <=> ( /\ Installed(entry).shapes[f] = baseline'.shapes[f]
                                                             /\ Installed(entry).modules[f] = baseline'.modules[f])
  <2>1. Captured = [f \in Feature |-> {Sends[<<f, entry>>]}] /\ job.shas = [f \in Feature |-> Module[<<f, entry>>]]
    BY <1>1, <1>4, CapturedIsSent
  <2>2. Baseline = Installed(entry) /\ Captured = Installed(entry).shapes /\ job.shas = Installed(entry).modules
    BY <2>1 DEF Baseline, Installed
  <2>3. CASE baseline = Nil
    <3>1. baseline' = Installed(entry) /\ outcome' = [f \in Feature |-> "NEW"]
      BY <2>2, <2>3 DEF Compare
    <3> QED
      BY <1>1, <1>4, <3>1
  <2>4. CASE baseline # Nil
    <3>1. baseline' = baseline /\ outcome' = [f \in Feature |-> IF Carried(f) THEN "CARRIED" ELSE "STALE"]
      BY <2>4 DEF Compare
    <3>2. \A f \in Feature : Carried(f) <=> /\ Installed(entry).shapes[f] = baseline.shapes[f]
                                           /\ Installed(entry).modules[f] = baseline.modules[f]
      BY <2>2 DEF Carried
    <3>3. \A f \in Feature : outcome'[f] # "NEW" /\ (outcome'[f] = "CARRIED" <=> Carried(f))
      BY <3>1
    <3> QED
      BY <1>1, <1>4, <3>1, <3>2, <3>3
  <2> QED
    BY <2>3, <2>4
<1>5. Installed(entry)' = Installed(entry)
  BY <1>1 DEF Installed
<1> QED
  BY <1>1, <1>3, <1>4, <1>5 DEF CarriedIsSame, Installed

\* An install, beside or between the refreshes.
LEMMA InstallStep ==
  ASSUME InstallFits, AttemptFits, CarriedIsSame, tool = "refresh", UNCHANGED tool, RefreshWorld
  PROVE  InstallFits' /\ AttemptFits' /\ CarriedIsSame'
<1>1. job' = job /\ baseline' = baseline /\ outcome' = outcome
  BY DEF RefreshWorld, Install, jobVars
<1>2. InstallFits' /\ (moved' \/ UNCHANGED <<entry, modules, moved>>)
  <2>1. CASE putting = Nil /\ ~still /\ still' = TRUE /\ UNCHANGED <<entry, modules, putting, moved>>
    BY <2>1 DEF InstallFits
  <2>2. CASE putting = Nil /\ still' = FALSE /\ UNCHANGED <<entry, modules, moved>>
             /\ \E v \in Build \ {entry} : putting' = [to |-> v, left |-> {"entry", "modules"}]
    <3>1. PICK v \in Build : putting' = [to |-> v, left |-> {"entry", "modules"}]
      BY <2>2
    <3>2. /\ putting' = [to |-> putting'.to, left |-> putting'.left] /\ putting'.to \in Build
          /\ putting'.left = {"entry", "modules"} /\ putting'.left # {"entry"} /\ putting'.left # {"modules"}
      BY <3>1
    <3>3. entry = modules
      BY <2>2 DEF InstallFits
    <3> QED
      BY <2>2, <3>2, <3>3 DEF InstallFits
  <2>3. CASE /\ putting # Nil /\ still' = FALSE /\ moved' = TRUE
             /\ \E part \in putting.left :
                  /\ putting' = IF putting.left = {part} THEN Nil ELSE [putting EXCEPT !.left = @ \ {part}]
                  /\ entry' = IF part = "entry" THEN putting.to ELSE entry
                  /\ modules' = IF part = "modules" THEN putting.to ELSE modules
    <3>1. PICK part \in putting.left :
                  /\ putting' = IF putting.left = {part} THEN Nil ELSE [putting EXCEPT !.left = @ \ {part}]
                  /\ entry' = IF part = "entry" THEN putting.to ELSE entry
                  /\ modules' = IF part = "modules" THEN putting.to ELSE modules
      BY <2>3
    <3>2. CASE putting.left = {"entry", "modules"}
      <4>1. putting' = [putting EXCEPT !.left = @ \ {part}] /\ part \in {"entry", "modules"}
        BY <3>1, <3>2
      <4>2. putting' = [to |-> putting.to, left |-> IF part = "entry" THEN {"modules"} ELSE {"entry"}]
        <5>1. putting.left \ {part} = IF part = "entry" THEN {"modules"} ELSE {"entry"}
          BY <3>2, <4>1
        <5> QED
          BY <2>3, <4>1, <5>1 DEF InstallFits
      <4>3. /\ putting'.to = putting.to /\ putting' = [to |-> putting'.to, left |-> putting'.left]
            /\ part = "entry" => putting'.left = {"modules"} /\ entry' = putting.to /\ modules' = modules
            /\ part = "modules" => putting'.left = {"entry"} /\ modules' = putting.to /\ entry' = entry
        BY <3>1, <4>2
      <4>4. {"entry"} # {"modules"}
        OBVIOUS
      <4>5. putting.to \in Build /\ putting' # Nil
        BY <2>3, <4>2, RefreshAssumption DEF InstallFits
      <4> QED
        BY <2>3, <4>1, <4>3, <4>4, <4>5 DEF InstallFits
    <3>3. CASE putting.left = {"entry"} \/ putting.left = {"modules"}
      BY <2>3, <3>1, <3>3 DEF InstallFits
    <3> QED
      BY <2>3, <3>2, <3>3 DEF InstallFits
  <2> QED
    BY <2>1, <2>2, <2>3 DEF RefreshWorld, Install
<1>3. ~moved' => UNCHANGED <<entry, modules, moved>>
  BY <1>2
<1>4. AttemptFits'
  BY <1>1, <1>3 DEF AttemptFits, Heard, HeardNone, HeardFind, HeardBoth, Sent
<1>5. CarriedIsSame'
  BY <1>1, <1>3 DEF CarriedIsSame, At, In, Installed
<1> QED
  BY <1>2, <1>4, <1>5

LEMMA RefreshNextInv == RefreshIInv /\ [Next]_vars => RefreshIInv'
<1> SUFFICES ASSUME RefreshIInv, [Next]_vars
             PROVE  RefreshIInv'
  OBVIOUS
<1>1. CASE tool # "refresh"
  BY <1>1, OnlyRefresh DEF RefreshIInv, CarriedIsSame, At, In
<1>2. CASE tool = "refresh" /\ UNCHANGED <<jobVars, refreshVars>>
  <2>1. UNCHANGED <<tool, job, entry, modules, putting, still, baseline, outcome, moved>>
    BY <1>2, OnlyRefresh DEF jobVars, refreshVars
  <2>2. InstallFits' /\ AttemptFits'
    BY <1>2, <2>1 DEF RefreshIInv, InstallFits, AttemptFits, Heard, HeardNone, HeardFind, HeardBoth, Sent
  <2>3. CarriedIsSame'
    BY <2>1 DEF RefreshIInv, CarriedIsSame, At, In, Installed
  <2> QED
    BY <2>2, <2>3 DEF RefreshIInv
<1>3. CASE tool = "refresh" /\ RefreshNext
  <2>1. InstallFits /\ AttemptFits /\ CarriedIsSame /\ UNCHANGED tool
    BY <1>3, OnlyRefresh DEF RefreshIInv
  <2> QED
    BY <1>3, <2>1, RefreshEndsStep, LegStep, CompareStep, InstallStep DEF RefreshNext, RefreshIInv
<1> QED
  BY <1>1, <1>2, <1>3, OnlyRefresh

\* A proof is carried over an update exactly when the new version sends the
\* same and has the same module.
THEOREM CarriedRightly == Spec => []CarriedIsSame
<1>1. RefreshIInv => CarriedIsSame
  BY DEF RefreshIInv
<1> QED
  BY <1>1, RefreshInitInv, RefreshNextInv, PTL DEF Spec

(***************************************************************************)
(* The gateway as a service: the loaded agent is the one on record.        *)
(***************************************************************************)
ShellFields == {"op", "pc", "first", "had", "before", "want", "temp", "again", "own"}
AgentFields == {"listed", "runs", "process"}

GoodPin(w) == w.pkg \in DOMAIN exports /\ w.sha = w.pkg.gateway

\* What a command looks at before it writes a plist.
Pinning == {"sha", "package", "copy", "copyrest", "publish", "write"}

AgentFits ==
  /\ DOMAIN agent = AgentFields
  /\ agent.listed # "yes" => agent.process = "none"
  /\ DOMAIN shells = Shell
  /\ \A s \in Shell : shells[s] = NoCommand \/ (DOMAIN shells[s] = ShellFields /\ shells[s].pc # "none")

PinsFit == ExportsArePinned /\ \A s \in Shell : ShellAt(s, "write") => GoodPin(shells[s].want)

\* One command at a time: what runs is what the plist names, and what awaits
\* the end of a job leaves none listed.
OneAtATime ==
  "overlap" \notin hurry =>
    /\ \A s, t \in Shell : shells[s] # NoCommand /\ shells[t] # NoCommand => s = t
    /\ agent.process # "none" => plist # Nil /\ agent.runs = plist
    /\ \A s \in Shell : /\ shells[s].pc \in Pinning => shells[s].first \/ shells[s].had # Nil \/ plist = Nil
                        /\ shells[s].pc = "write" => plist = Nil
                        /\ shells[s].pc \in {"silent", "stopped"} => ~Loaded

\* A process that was told to end is waited for.
Awaited ==
  hurry = {} =>
    /\ dying => \E s \in Shell : shells[s].pc \in {"unlisted", "silent"}
    /\ \A s \in Shell : ShellAt(s, "done") => shells[s].own

AgentIInv == AgentFits /\ PinsFit /\ OneAtATime /\ Awaited

LEMMA OnlyAgent ==
  ASSUME [Next]_vars
  PROVE  AgentNext \/ UNCHANGED agentVars
BY DEF Next, BenchNext, vars, agentVars

LEMMA AgentInitInv == Init => AgentIInv
<1> SUFFICES ASSUME AgentInit
             PROVE  AgentIInv
  BY DEF Init
<1>1. /\ exports = [x \in {} |-> Nil] /\ plist = Nil /\ agent = [listed |-> "no", runs |-> Nil, process |-> "none"]
      /\ dying = FALSE /\ shells = [s \in Shell |-> [pc |-> "none"]] /\ hurry = {}
  BY DEF AgentInit, NoJob, NoCommand
<1>2. DOMAIN exports = {} /\ DOMAIN shells = Shell /\ \A s \in Shell : shells[s] = [pc |-> "none"] /\ shells[s].pc = "none"
  BY <1>1
<1>3. AgentFits
  BY <1>1, <1>2 DEF AgentFits, NoCommand, AgentFields
<1>4. PinsFit
  BY <1>1, <1>2 DEF PinsFit, ExportsArePinned, ShellAt
<1>5. OneAtATime /\ Awaited
  BY <1>1, <1>2 DEF OneAtATime, Awaited, NoCommand, Pinning, ShellAt
<1> QED
  BY <1>3, <1>4, <1>5 DEF AgentIInv

\* What a step of the command in shell s has to show.
LEMMA ShellStep ==
  ASSUME AgentIInv, NEW s \in Shell, NEW c, ShellDo(s, c),
         c = NoCommand \/ (DOMAIN c = ShellFields /\ c.pc # "none"),
         DOMAIN exports \subseteq DOMAIN exports', ExportsArePinned',
         c.pc = "write" => c.want.pkg \in DOMAIN exports' /\ c.want.sha = c.want.pkg.gateway,
         DOMAIN agent' = AgentFields,
         agent'.listed # "yes" => agent'.process = "none",
         hurry \subseteq hurry',
         "overlap" \notin hurry' =>
           /\ \A t \in Shell \ {s} : shells[t] = NoCommand
           /\ agent'.process # "none" => plist' # Nil /\ agent'.runs = plist'
           /\ c.pc \in Pinning => c.first \/ c.had # Nil \/ plist' = Nil
           /\ c.pc = "write" => plist' = Nil
           /\ c.pc \in {"silent", "stopped"} => agent'.listed = "no",
         hurry' = {} =>
           /\ dying' => c.pc \in {"unlisted", "silent"} \/ (dying /\ shells[s].pc \notin {"unlisted", "silent"})
           /\ c.pc = "done" => c.own
  PROVE  AgentIInv'
<1>1. shells' = [shells EXCEPT ![s] = c]
  BY DEF ShellDo
<1>2. DOMAIN shells' = Shell /\ shells'[s] = c /\ \A t \in Shell \ {s} : shells'[t] = shells[t]
  BY <1>1 DEF AgentIInv, AgentFits
<1>3. AgentFits'
  BY <1>2 DEF AgentIInv, AgentFits
<1>4. PinsFit'
  <2> SUFFICES ASSUME NEW t \in Shell, shells'[t].pc = "write"
               PROVE  GoodPin(shells[t].want)'
    BY DEF PinsFit, ShellAt
  <2>1. CASE t = s
    BY <1>2, <2>1 DEF GoodPin
  <2>2. CASE t # s
    BY <1>2, <2>2 DEF AgentIInv, PinsFit, ShellAt, GoodPin
  <2> QED
    BY <2>1, <2>2
<1>5. "overlap" \notin hurry' => \A t \in Shell \ {s} : shells'[t] = NoCommand /\ shells'[t].pc = "none"
  BY <1>2 DEF NoCommand
<1>6. OneAtATime'
  BY <1>2, <1>5 DEF OneAtATime, Loaded, Pinning
<1>7. Awaited'
  <2> SUFFICES ASSUME hurry' = {}
               PROVE  /\ dying' => shells'[s].pc \in {"unlisted", "silent"}
                      /\ \A t \in Shell : shells'[t].pc = "done" => shells'[t].own
    BY DEF Awaited, ShellAt
  <2>1. hurry = {} /\ \A t \in Shell \ {s} : shells[t].pc = "none"
    BY DEF NoCommand
  <2>2. dying => shells[s].pc \in {"unlisted", "silent"}
    BY <2>1 DEF AgentIInv, Awaited
  <2> QED
    BY <1>2, <1>5, <2>2
<1> QED
  BY <1>3, <1>4, <1>6, <1>7 DEF AgentIInv

\* What is known of a command at pc.
LEMMA ShellRuns ==
  ASSUME AgentIInv, NEW s \in Shell, NEW pc, ShellAt(s, pc), pc # "none"
  PROVE  /\ shells[s] # NoCommand /\ DOMAIN shells[s] = ShellFields
         /\ "overlap" \notin hurry => \A t \in Shell \ {s} : shells[t] = NoCommand
         /\ hurry = {} /\ pc \notin {"unlisted", "silent"} => ~dying
<1>1. shells[s] # NoCommand /\ DOMAIN shells[s] = ShellFields
  BY DEF AgentIInv, AgentFits, ShellAt, NoCommand
<1>2. "overlap" \notin hurry => \A t \in Shell \ {s} : shells[t] = NoCommand
  BY <1>1 DEF AgentIInv, OneAtATime
<1>3. hurry = {} => \A t \in Shell \ {s} : shells[t].pc = "none"
  BY <1>2 DEF NoCommand
<1> QED
  BY <1>1, <1>2, <1>3 DEF AgentIInv, Awaited, ShellAt

\* The command alone goes on, beside the pin, the job and the plist.
LEMMA ShellGoes ==
  ASSUME AgentIInv, NEW s \in Shell, NEW c, ShellDo(s, c), shells[s].pc \notin {"none", "unlisted", "silent"},
         c = NoCommand \/ (DOMAIN c = ShellFields /\ c.pc \notin {"none", "write", "silent", "stopped"}),
         c.pc \in Pinning => \/ c.first = shells[s].first /\ c.had = shells[s].had /\ shells[s].pc \in Pinning
                             \/ c.had = plist,
         c.pc = "done" => c.own <=> (agent.process = "up"),
         c.pc = "done" => Answers,
         UNCHANGED <<exports, plist, agent, dying, hurry>>
  PROVE  AgentIInv'
<1>1. c.pc \notin {"write", "silent", "stopped"}
  BY DEF NoCommand
<1>2. ShellAt(s, shells[s].pc)
  BY DEF ShellAt
<1>3. /\ "overlap" \notin hurry => \A t \in Shell \ {s} : shells[t] = NoCommand
      /\ hurry = {} => ~dying
  BY <1>2, ShellRuns
<1>4. "overlap" \notin hurry => (c.pc \in Pinning => c.first \/ c.had # Nil \/ plist = Nil)
  BY DEF AgentIInv, OneAtATime
<1>5. hurry = {} => (c.pc = "done" => c.own)
  BY <1>3 DEF Answers
<1>6. ExportsArePinned'
  BY DEF AgentIInv, PinsFit, ExportsArePinned
<1>7. /\ DOMAIN agent = AgentFields
      /\ agent.listed # "yes" => agent.process = "none"
      /\ "overlap" \notin hurry => (agent.process # "none" => plist # Nil /\ agent.runs = plist)
  BY DEF AgentIInv, AgentFits, OneAtATime
<1> QED
  BY <1>1, <1>3, <1>4, <1>5, <1>6, <1>7, ShellStep

LEMMA PlainSteps ==
  ASSUME AgentIInv, NEW s \in Shell,
         ShaGateway(s) \/ ExportGateway(s) \/ ExportRest(s) \/ InstallStatus(s) \/ InstallAgent(s) \/ Done(s)
  PROVE  AgentIInv'
<1> USE DEF StillAgent, Pinning
<1>1. CASE ShaGateway(s)
  <2> DEFINE c == [shells[s] EXCEPT !.want = [sha |-> source.gateway, pkg |-> Nil], !.pc = "package"]
  <2>1. ShellAt(s, "sha") /\ ShellDo(s, c) /\ UNCHANGED <<exports, plist, agent, dying, hurry>>
    BY <1>1 DEF ShaGateway
  <2>2. DOMAIN shells[s] = ShellFields /\ shells[s].pc = "sha"
    BY <2>1, ShellRuns DEF ShellAt
  <2>3. DOMAIN c = ShellFields /\ c.pc = "package" /\ c.first = shells[s].first /\ c.had = shells[s].had
    BY <2>2 DEF ShellFields
  <2> HIDE DEF c
  <2> QED
    BY <2>1, <2>2, <2>3, ShellGoes
<1>2. CASE ExportGateway(s)
  <2> DEFINE c == [shells[s] EXCEPT !.temp = source, !.pc = "copyrest"]
  <2>1. ShellAt(s, "copy") /\ ShellDo(s, c) /\ UNCHANGED <<exports, plist, agent, dying, hurry>>
    BY <1>2 DEF ExportGateway
  <2>2. DOMAIN shells[s] = ShellFields /\ shells[s].pc = "copy"
    BY <2>1, ShellRuns DEF ShellAt
  <2>3. DOMAIN c = ShellFields /\ c.pc = "copyrest" /\ c.first = shells[s].first /\ c.had = shells[s].had
    BY <2>2 DEF ShellFields
  <2> HIDE DEF c
  <2> QED
    BY <2>1, <2>2, <2>3, ShellGoes
<1>3. CASE ExportRest(s)
  <2> DEFINE c == [shells[s] EXCEPT !.temp.rest = source.rest, !.pc = "publish"]
  <2>1. ShellAt(s, "copyrest") /\ ShellDo(s, c) /\ UNCHANGED <<exports, plist, agent, dying, hurry>>
    BY <1>3 DEF ExportRest
  <2>2. DOMAIN shells[s] = ShellFields /\ shells[s].pc = "copyrest"
    BY <2>1, ShellRuns DEF ShellAt
  <2>3. DOMAIN c = ShellFields /\ c.pc = "publish" /\ c.first = shells[s].first /\ c.had = shells[s].had
    BY <2>2 DEF ShellFields
  <2> HIDE DEF c
  <2> QED
    BY <2>1, <2>2, <2>3, ShellGoes
<1>4. CASE InstallStatus(s)
  <2> DEFINE c == [shells[s] EXCEPT !.before = [up |-> Answers, plist |-> plist # Nil], !.pc = "agent"]
  <2>1. ShellAt(s, "status") /\ (ShellDo(s, NoCommand) \/ ShellDo(s, c)) /\ UNCHANGED <<exports, plist, agent, dying, hurry>>
    BY <1>4 DEF InstallStatus, ShellEnds
  <2>2. DOMAIN shells[s] = ShellFields /\ shells[s].pc = "status"
    BY <2>1, ShellRuns DEF ShellAt
  <2>3. DOMAIN c = ShellFields /\ c.pc = "agent"
    BY <2>2 DEF ShellFields
  <2>4. NoCommand.pc = "none"
    BY DEF NoCommand
  <2> HIDE DEF c
  <2> QED
    BY <2>1, <2>2, <2>3, <2>4, ShellGoes
<1>5. CASE InstallAgent(s)
  <2> DEFINE c == [shells[s] EXCEPT !.had = plist, !.first = FALSE, !.pc = "sha"]
  <2>1. ShellAt(s, "agent") /\ ShellDo(s, c) /\ UNCHANGED <<exports, plist, agent, dying, hurry>>
    BY <1>5 DEF InstallAgent
  <2>2. DOMAIN shells[s] = ShellFields /\ shells[s].pc = "agent"
    BY <2>1, ShellRuns DEF ShellAt
  <2>3. DOMAIN c = ShellFields /\ c.pc = "sha" /\ c.had = plist
    BY <2>2 DEF ShellFields
  <2> HIDE DEF c
  <2> QED
    BY <2>1, <2>2, <2>3, ShellGoes
<1>6. CASE Done(s)
  <2>1. ShellAt(s, "done") /\ ShellDo(s, NoCommand) /\ UNCHANGED <<exports, plist, agent, dying, hurry>>
    BY <1>6 DEF Done, ShellEnds
  <2>2. shells[s].pc = "done" /\ NoCommand.pc = "none"
    BY <2>1 DEF ShellAt, NoCommand
  <2> QED
    BY <2>1, <2>2, ShellGoes
<1> QED
  BY <1>1, <1>2, <1>3, <1>4, <1>5, <1>6

\* The export is there, or cannot be used.
LEMMA ExportedStep ==
  ASSUME AgentIInv, NEW s \in Shell, NEW good, NEW want, Exported(s, good, want),
         shells[s].pc \in {"package", "publish"}, good \in BOOLEAN,
         good => want.pkg \in DOMAIN exports' /\ want.sha = want.pkg.gateway,
         DOMAIN exports \subseteq DOMAIN exports', ExportsArePinned',
         UNCHANGED <<plist, agent, dying, hurry>>
  PROVE  AgentIInv'
<1>1. /\ DOMAIN shells[s] = ShellFields
      /\ hurry = {} => ~dying
      /\ "overlap" \notin hurry => \A t \in Shell \ {s} : shells[t] = NoCommand
  BY ShellRuns DEF ShellAt
<1>2. /\ DOMAIN agent = AgentFields
      /\ agent.listed # "yes" => agent.process = "none"
      /\ "overlap" \notin hurry => /\ agent.process # "none" => plist # Nil /\ agent.runs = plist
                                   /\ shells[s].first \/ shells[s].had # Nil \/ plist = Nil
  BY DEF AgentIInv, AgentFits, OneAtATime, Pinning
<1> DEFINE pc == IF shells[s].first THEN "status" ELSE IF shells[s].had = Nil THEN "write" ELSE "boot"
           c == [shells[s] EXCEPT !.want = want, !.temp = Nil, !.pc = pc]
           d == [shells[s] EXCEPT !.op = "undo", !.temp = Nil, !.pc = "halt"]
<1>3. \/ good /\ ShellDo(s, c)
      \/ ShellDo(s, NoCommand)
      \/ ShellDo(s, d)
  BY DEF Exported, InstallFails, ShellEnds
<1>4. CASE good /\ ShellDo(s, c)
  <2>1. pc \in {"status", "write", "boot"} /\ (pc = "write" => ~shells[s].first /\ shells[s].had = Nil)
    OBVIOUS
  <2>2. DOMAIN c = ShellFields /\ c.pc = pc /\ c.want = want
    BY <1>1 DEF ShellFields
  <2> HIDE DEF c, pc
  <2>3. "overlap" \notin hurry => (c.pc = "write" => plist = Nil) /\ c.pc \notin {"silent", "stopped"}
    BY <1>2, <2>1, <2>2
  <2>4. c.pc \notin Pinning \ {"write"} /\ c.pc # "done" /\ c.pc # "none"
    BY <2>1, <2>2 DEF Pinning
  <2>5. c.want.pkg \in DOMAIN exports' /\ c.want.sha = c.want.pkg.gateway
    BY <1>4, <2>2
  <2> QED
    BY <1>1, <1>2, <1>4, <2>2, <2>3, <2>4, <2>5, ShellStep
<1>5. CASE ShellDo(s, NoCommand)
  <2>1. NoCommand.pc = "none"
    BY DEF NoCommand
  <2> QED
    BY <1>1, <1>2, <1>5, <2>1, ShellStep DEF Pinning
<1>6. CASE ShellDo(s, d)
  <2>1. DOMAIN d = ShellFields /\ d.pc = "halt"
    BY <1>1 DEF ShellFields
  <2> HIDE DEF d
  <2> QED
    BY <1>1, <1>2, <1>6, <2>1, ShellStep DEF Pinning
<1> QED
  BY <1>3, <1>4, <1>5, <1>6

\* An export is used, made, or published.
LEMMA ExportSteps ==
  ASSUME AgentIInv, NEW s \in Shell, ShaPackage(s) \/ Publish(s)
  PROVE  AgentIInv'
<1>1. ExportsArePinned
  BY DEF AgentIInv, PinsFit
<1>2. CASE ShaPackage(s)
  <2> DEFINE want == [shells[s].want EXCEPT !.pkg = source]
             c == [shells[s] EXCEPT !.want = want, !.pc = "copy"]
  <2>1. /\ ShellAt(s, "package") /\ UNCHANGED <<exports, plist, agent, dying, hurry>>
        /\ \/ want.pkg \in DOMAIN exports /\ Exported(s, ValidExport(exports[want.pkg], want), want)
           \/ ShellDo(s, c)
    BY <1>2 DEF ShaPackage, StillAgent
  <2>2. DOMAIN shells[s] = ShellFields /\ shells[s].pc = "package"
    BY <2>1, ShellRuns DEF ShellAt
  <2>3. DOMAIN c = ShellFields /\ c.pc = "copy" /\ c.first = shells[s].first /\ c.had = shells[s].had
    BY <2>2 DEF ShellFields
  <2> HIDE DEF want, c
  <2>4. CASE want.pkg \in DOMAIN exports /\ Exported(s, ValidExport(exports[want.pkg], want), want)
    <3>1. ValidExport(exports[want.pkg], want) \in BOOLEAN
      BY DEF ValidExport
    <3>2. ValidExport(exports[want.pkg], want) => want.pkg \in DOMAIN exports' /\ want.sha = want.pkg.gateway
      BY <2>1, <2>4 DEF ValidExport
    <3>3. ExportsArePinned'
      BY <1>1, <2>1 DEF ExportsArePinned
    <3> QED
      BY <2>1, <2>2, <2>4, <3>1, <3>2, <3>3, ExportedStep
  <2>5. CASE ShellDo(s, c)
    BY <2>1, <2>2, <2>3, <2>5, ShellGoes DEF Pinning
  <2> QED
    BY <2>1, <2>4, <2>5
<1>3. CASE Publish(s)
  <2> DEFINE want == shells[s].want
             there == want.pkg \in DOMAIN exports
             good == ValidExport(shells[s].temp, want) /\ (there => ValidExport(exports[want.pkg], want))
  <2>1. /\ shells[s].pc = "publish" /\ UNCHANGED <<plist, agent, dying, hurry>> /\ Exported(s, good, want)
        /\ exports' = IF good THEN [id \in DOMAIN exports \union {want.pkg} |->
                                      IF id \in DOMAIN exports THEN exports[id] ELSE shells[s].temp]
                      ELSE exports
    BY <1>3 DEF Publish, ShellAt
  <2>2. good \in BOOLEAN /\ (good => shells[s].temp = want.pkg /\ want.sha = want.pkg.gateway)
    BY DEF ValidExport
  <2> HIDE DEF want, there, good
  <2>3. DOMAIN exports \subseteq DOMAIN exports' /\ (good => want.pkg \in DOMAIN exports')
    BY <2>1
  <2>4. \A id \in DOMAIN exports' : exports'[id] = id
    BY <1>1, <2>1, <2>2 DEF ExportsArePinned
  <2>5. ExportsArePinned'
    BY <1>1, <2>1, <2>3, <2>4 DEF ExportsArePinned
  <2>6. good => want.pkg \in DOMAIN exports' /\ want.sha = want.pkg.gateway
    BY <2>2, <2>3
  <2> QED
    BY <2>1, <2>2, <2>3, <2>5, <2>6, ExportedStep
<1> QED
  BY <1>2, <1>3

\* What a command that starts, waits for or takes back the job knows before.
LEMMA JobKnown ==
  ASSUME AgentIInv, NEW s \in Shell, NEW pc, ShellAt(s, pc), pc # "none"
  PROVE  /\ DOMAIN shells[s] = ShellFields /\ shells[s].pc = pc
         /\ DOMAIN agent = AgentFields
         /\ agent.listed # "yes" => agent.process = "none"
         /\ "overlap" \notin hurry =>
              /\ \A t \in Shell \ {s} : shells[t] = NoCommand
              /\ agent.process # "none" => plist # Nil /\ agent.runs = plist
              /\ pc = "write" => plist = Nil
              /\ pc \in {"silent", "stopped"} => ~Loaded
         /\ hurry = {} /\ pc \notin {"unlisted", "silent"} => ~dying
         /\ ExportsArePinned
<1>1. AgentFits /\ OneAtATime /\ ExportsArePinned
  BY DEF AgentIInv, PinsFit
<1> QED
  BY <1>1, ShellRuns DEF AgentFits, OneAtATime, ShellAt

\* The command ends, or goes on at a place of which nothing more is asked.
Easy(c) == c = NoCommand \/ (DOMAIN c = ShellFields /\ c.pc \in {"boot", "wait", "bootout", "halt", "unlisted"})

LEMMA EasyStep ==
  ASSUME AgentIInv, NEW s \in Shell, NEW pc, ShellAt(s, pc), pc # "none", NEW c, ShellDo(s, c), Easy(c),
         UNCHANGED exports, hurry \subseteq hurry',
         plist' # Nil => plist'.pkg \in DOMAIN exports /\ plist'.sha = plist'.pkg.gateway,
         DOMAIN agent' = AgentFields,
         agent'.listed # "yes" => agent'.process = "none",
         "overlap" \notin hurry => (agent'.process # "none" => plist' # Nil /\ agent'.runs = plist'),
         hurry' = {} => (dying' => (pc \notin {"unlisted", "silent"} /\ dying) \/ c.pc = "unlisted")
  PROVE  AgentIInv'
<1>1. c.pc \notin Pinning \cup {"silent", "stopped", "done"} /\ (c = NoCommand \/ (DOMAIN c = ShellFields /\ c.pc # "none"))
  BY DEF Easy, NoCommand, Pinning
<1>2. ExportsArePinned'
  BY DEF AgentIInv, PinsFit, ExportsArePinned
<1>3. "overlap" \notin hurry => \A t \in Shell \ {s} : shells[t] = NoCommand
  BY JobKnown
<1>4. shells[s].pc = pc
  BY DEF ShellAt
<1> QED
  BY <1>1, <1>2, <1>3, <1>4, ShellStep DEF Pinning

LEMMA SucceedsStep ==
  ASSUME AgentIInv, NEW s \in Shell, shells[s].pc \in {"boot", "wait"}, Succeeds(s), Answers,
         UNCHANGED <<exports, plist, agent, dying, hurry>>
  PROVE  AgentIInv'
<1> DEFINE c == [shells[s] EXCEPT !.own = agent.process = "up", !.pc = "done"]
<1>1. ShellDo(s, c) /\ ShellAt(s, shells[s].pc)
  BY DEF Succeeds, ShellAt
<1>2. DOMAIN shells[s] = ShellFields
  BY <1>1, JobKnown
<1>3. DOMAIN c = ShellFields /\ c.pc = "done" /\ (c.own <=> agent.process = "up")
  BY <1>2 DEF ShellFields
<1> HIDE DEF c
<1> QED
  BY <1>1, <1>3, ShellGoes DEF Pinning

LEMMA InstallFailsStep ==
  ASSUME NEW s \in Shell, DOMAIN shells[s] = ShellFields, InstallFails(s)
  PROVE  \E c : ShellDo(s, c) /\ Easy(c)
<1> DEFINE c == [shells[s] EXCEPT !.op = "undo", !.temp = Nil, !.pc = "halt"]
<1>1. ShellDo(s, NoCommand) \/ ShellDo(s, c)
  BY DEF InstallFails, ShellEnds
<1>2. Easy(NoCommand)
  BY DEF Easy
<1>3. DOMAIN c = ShellFields /\ c.pc = "halt"
  BY DEF ShellFields
<1> HIDE DEF c
<1> QED
  BY <1>1, <1>2, <1>3 DEF Easy

LEMMA GotoStep ==
  ASSUME NEW s \in Shell, DOMAIN shells[s] = ShellFields, NEW pc, ShellGoto(s, pc)
  PROVE  \E c : ShellDo(s, c) /\ DOMAIN c = ShellFields /\ c.pc = pc /\ \A f \in ShellFields \ {"pc"} : c[f] = shells[s][f]
<1> DEFINE c == [shells[s] EXCEPT !.pc = pc]
<1>1. ShellDo(s, c) /\ DOMAIN c = ShellFields /\ c.pc = pc /\ \A f \in ShellFields \ {"pc"} : c[f] = shells[s][f]
  BY DEF ShellGoto, ShellFields
<1> HIDE DEF c
<1> QED
  BY <1>1

LEMMA EndsEasily == ASSUME NEW s \in Shell, ShellEnds(s) PROVE ShellDo(s, NoCommand) /\ Easy(NoCommand)
BY DEF ShellEnds, Easy

LEMMA WritePlistStep == ASSUME AgentIInv, NEW s \in Shell, WritePlist(s) PROVE AgentIInv'
<1>1. /\ ShellAt(s, "write") /\ plist' = shells[s].want /\ ShellGoto(s, "boot")
      /\ UNCHANGED <<exports, agent, dying, hurry>>
  BY DEF WritePlist
<1>2. plist'.pkg \in DOMAIN exports /\ plist'.sha = plist'.pkg.gateway
  BY <1>1 DEF AgentIInv, PinsFit, GoodPin
<1>3. "overlap" \notin hurry => agent.process = "none"
  BY <1>1, JobKnown
<1>4. PICK c : ShellDo(s, c) /\ DOMAIN c = ShellFields /\ c.pc = "boot"
  BY <1>1, JobKnown, GotoStep
<1> QED
  BY <1>1, <1>2, <1>3, <1>4, JobKnown, EasyStep DEF Easy

LEMMA BootstrapStep == ASSUME AgentIInv, NEW s \in Shell, Bootstrap(s) PROVE AgentIInv'
<1>1. ShellAt(s, "boot") /\ UNCHANGED <<exports, dying, hurry>>
  BY DEF Bootstrap
<1>2. /\ DOMAIN shells[s] = ShellFields /\ shells[s].pc = "boot"
      /\ DOMAIN agent = AgentFields
      /\ agent.listed # "yes" => agent.process = "none"
      /\ "overlap" \notin hurry => (agent.process # "none" => plist # Nil /\ agent.runs = plist)
      /\ plist # Nil => plist.pkg \in DOMAIN exports /\ plist.sha = plist.pkg.gateway
  BY <1>1, JobKnown DEF ExportsArePinned
<1>3. CASE (\E c : ShellDo(s, c) /\ Easy(c)) /\ UNCHANGED <<plist, agent>>
  BY <1>1, <1>2, <1>3, EasyStep
<1>4. CASE Answers /\ Succeeds(s) /\ UNCHANGED <<plist, agent>>
  BY <1>1, <1>2, <1>4, SucceedsStep
<1>5. CASE /\ plist # Nil /\ ShellGoto(s, "wait") /\ UNCHANGED plist
           /\ agent' = [listed |-> "yes", runs |-> plist, process |-> "starting"]
  <2>1. PICK c : ShellDo(s, c) /\ Easy(c)
    BY <1>2, <1>5, GotoStep DEF Easy
  <2> QED
    BY <1>1, <1>2, <1>5, <2>1, EasyStep DEF AgentFields
<1>6. CASE (\E c : ShellDo(s, c) /\ Easy(c)) /\ ~Loaded /\ UNCHANGED agent /\ plist' \in {plist, Nil}
  <2>1. agent.process = "none"
    BY <1>2, <1>6 DEF Loaded
  <2> QED
    BY <1>1, <1>2, <1>6, <2>1, EasyStep
<1>7. \/ /\ shells[s].op = "start" /\ UNCHANGED <<plist, agent>>
         /\ ShellEnds(s) \/ ShellGoto(s, "wait")
      \/ /\ Loaded /\ shells[s].op = "install" /\ UNCHANGED <<plist, agent>>
         /\ (Answers /\ Succeeds(s)) \/ InstallFails(s)
      \/ /\ ~Loaded /\ plist # Nil /\ ShellGoto(s, "wait") /\ UNCHANGED plist
         /\ agent' = [listed |-> "yes", runs |-> plist, process |-> "starting"]
      \/ /\ ~Loaded /\ UNCHANGED agent
         /\ InstallFails(s) \/ ShellEnds(s)
         /\ plist' \in {plist, Nil}
  BY DEF Bootstrap
<1>8. ShellEnds(s) \/ ShellGoto(s, "wait") \/ InstallFails(s) => \E c : ShellDo(s, c) /\ Easy(c)
  BY <1>2, EndsEasily, InstallFailsStep, GotoStep DEF Easy
<1> QED
  BY <1>3, <1>4, <1>5, <1>6, <1>7, <1>8

LEMMA BootedOutShape ==
  ASSUME AgentFits
  PROVE  DOMAIN BootedOut = AgentFields /\ BootedOut.process = "none"
BY DEF AgentFits, BootedOut, AgentFields

LEMMA HealthSteps == ASSUME AgentIInv, NEW s \in Shell, WaitHealth(s) \/ InstallBootout(s) PROVE AgentIInv'
<1>1. \A pc \in {"wait", "bootout"} : ShellAt(s, pc) =>
      /\ DOMAIN shells[s] = ShellFields /\ shells[s].pc = pc
      /\ DOMAIN agent = AgentFields
      /\ agent.listed # "yes" => agent.process = "none"
      /\ "overlap" \notin hurry => (agent.process # "none" => plist # Nil /\ agent.runs = plist)
      /\ plist # Nil => plist.pkg \in DOMAIN exports /\ plist.sha = plist.pkg.gateway
  BY JobKnown DEF ExportsArePinned
<1>2. CASE WaitHealth(s)
  <2>1. /\ ShellAt(s, "wait") /\ UNCHANGED <<exports, plist, agent, dying, hurry>>
        /\ (Answers /\ Succeeds(s)) \/ ShellEnds(s) \/ ShellGoto(s, "bootout")
    BY <1>2 DEF WaitHealth
  <2>2. CASE Answers /\ Succeeds(s)
    BY <1>1, <2>1, <2>2, SucceedsStep
  <2>3. CASE ShellEnds(s) \/ ShellGoto(s, "bootout")
    <3>1. PICK c : ShellDo(s, c) /\ Easy(c)
      BY <1>1, <2>1, <2>3, EndsEasily, GotoStep DEF Easy
    <3> QED
      BY <1>1, <2>1, <3>1, EasyStep
  <2> QED
    BY <2>1, <2>2, <2>3
<1>3. CASE InstallBootout(s)
  <2>1. /\ ShellAt(s, "bootout") /\ agent' = IF Loaded THEN BootedOut ELSE agent
        /\ hurry' = hurry \union {"unawaited"} /\ plist' \in {plist, Nil} /\ InstallFails(s) /\ UNCHANGED exports
    BY <1>3 DEF InstallBootout
  <2>2. PICK c : ShellDo(s, c) /\ Easy(c)
    BY <1>1, <2>1, InstallFailsStep
  <2>3. /\ DOMAIN agent' = AgentFields
        /\ agent'.process = "none"
    BY <1>1, <2>1, BootedOutShape DEF Loaded, AgentIInv
  <2> QED
    BY <1>1, <2>1, <2>2, <2>3, EasyStep
<1> QED
  BY <1>2, <1>3

LEMMA StopSteps == ASSUME AgentIInv, NEW s \in Shell, Halt(s) \/ AwaitDown(s) \/ Stopped(s) PROVE AgentIInv'
<1>1. \A pc \in {"halt", "unlisted", "silent", "stopped"} : ShellAt(s, pc) =>
      /\ DOMAIN shells[s] = ShellFields /\ shells[s].pc = pc
      /\ DOMAIN agent = AgentFields
      /\ agent.listed # "yes" => agent.process = "none"
      /\ "overlap" \notin hurry => /\ \A t \in Shell \ {s} : shells[t] = NoCommand
                                   /\ agent.process # "none" => plist # Nil /\ agent.runs = plist
                                   /\ pc \in {"silent", "stopped"} => ~Loaded
      /\ plist # Nil => plist.pkg \in DOMAIN exports /\ plist.sha = plist.pkg.gateway
  BY JobKnown DEF ExportsArePinned
<1>2. CASE Halt(s)
  <2>1. /\ ShellAt(s, "halt") /\ UNCHANGED <<exports, plist, hurry>>
        /\ \/ plist = Nil /\ ShellEnds(s) /\ UNCHANGED <<agent, dying>>
           \/ plist # Nil /\ ShellGoto(s, "unlisted") /\ agent' \in {BootedOut, agent}
    BY <1>2 DEF Halt
  <2>2. PICK c : ShellDo(s, c) /\ Easy(c) /\ (c.pc = "unlisted" \/ UNCHANGED <<agent, dying>>)
    BY <1>1, <2>1, EndsEasily, GotoStep DEF Easy
  <2>3. /\ DOMAIN agent' = AgentFields
        /\ agent'.process = "none" \/ agent' = agent
    BY <1>1, <2>1, BootedOutShape DEF AgentIInv
  <2> QED
    BY <1>1, <2>1, <2>2, <2>3, EasyStep
<1>3. CASE AwaitDown(s)
  <2>1. /\ UNCHANGED <<exports, plist, agent, dying>> /\ hurry \subseteq hurry'
        /\ shells'[s] = NoCommand => hurry' # {}
        /\ hurry' # hurry => hurry' # {}
    BY <1>3 DEF AwaitDown, StillAgent
  <2>2. CASE ShellAt(s, "unlisted") /\ ~Loaded /\ ShellGoto(s, "silent")
    <3>1. PICK c : ShellDo(s, c) /\ DOMAIN c = ShellFields /\ c.pc = "silent"
      BY <1>1, <2>2, GotoStep
    <3>2. ExportsArePinned'
      BY <2>1 DEF AgentIInv, PinsFit, ExportsArePinned
    <3>3. c.pc \notin Pinning /\ agent.listed = "no"
      BY <2>2, <3>1 DEF Pinning, Loaded
    <3> QED
      BY <1>1, <2>1, <2>2, <3>1, <3>2, <3>3, ShellStep
  <2>3. CASE ShellAt(s, "silent") /\ Answers /\ ShellGoto(s, "unlisted")
    <3>1. PICK c : ShellDo(s, c) /\ DOMAIN c = ShellFields /\ c.pc = "unlisted"
      BY <1>1, <2>3, GotoStep
    <3> QED
      BY <1>1, <2>1, <2>3, <3>1, EasyStep DEF Easy
  <2>4. CASE ShellAt(s, "silent") /\ ~Answers /\ ShellGoto(s, "stopped")
    <3>1. PICK c : ShellDo(s, c) /\ DOMAIN c = ShellFields /\ c.pc = "stopped"
      BY <1>1, <2>4, GotoStep
    <3>2. ExportsArePinned' /\ ~dying
      BY <2>1, <2>4 DEF AgentIInv, PinsFit, ExportsArePinned, Answers
    <3>3. c.pc \notin Pinning /\ ("overlap" \notin hurry => agent.listed = "no")
      BY <1>1, <2>4, <3>1 DEF Pinning, Loaded
    <3> QED
      BY <1>1, <2>1, <2>4, <3>1, <3>2, <3>3, ShellStep
  <2>5. CASE ShellAt(s, "unlisted") /\ ShellEnds(s)
    <3>1. shells'[s] = NoCommand
      BY <2>5 DEF ShellEnds, ShellDo, AgentIInv, AgentFits
    <3> QED
      BY <1>1, <2>1, <2>5, <3>1, EndsEasily, EasyStep
  <2> QED
    BY <1>3, <2>2, <2>3, <2>4, <2>5 DEF AwaitDown
<1>4. CASE Stopped(s)
  <2>1. ShellAt(s, "stopped") /\ UNCHANGED <<exports, agent, dying, hurry>> /\ plist' \in {plist, Nil}
    BY <1>4 DEF Stopped
  <2> DEFINE c == [shells[s] EXCEPT !.op = "start", !.pc = "boot"]
             d == [shells[s] EXCEPT !.again = TRUE, !.pc = "halt"]
  <2>2. ShellDo(s, NoCommand) \/ ShellDo(s, c) \/ ShellDo(s, d)
    BY <1>4 DEF Stopped, ShellEnds
  <2>3. Easy(NoCommand) /\ DOMAIN c = ShellFields /\ c.pc = "boot" /\ DOMAIN d = ShellFields /\ d.pc = "halt"
    BY <1>1, <2>1 DEF Easy, ShellFields
  <2>4. "overlap" \notin hurry => agent.process = "none"
    BY <1>1, <2>1 DEF Loaded
  <2> HIDE DEF c, d
  <2>5. PICK e : ShellDo(s, e) /\ Easy(e)
    BY <2>2, <2>3 DEF Easy
  <2> QED
    BY <1>1, <2>1, <2>4, <2>5, EasyStep
<1> QED
  BY <1>2, <1>3, <1>4

\* A command begins, or is killed.
LEMMA BeginKillSteps == ASSUME AgentIInv, NEW s \in Shell, AgentBegin(s) \/ AgentKill(s) PROVE AgentIInv'
<1>1. /\ AgentFits /\ OneAtATime /\ ExportsArePinned /\ ExportsArePinned'
      /\ UNCHANGED <<exports, plist, agent, dying>> /\ hurry \subseteq hurry'
  BY DEF AgentBegin, AgentKill, StillAgent, AgentIInv, PinsFit, ExportsArePinned
<1>2. CASE AgentBegin(s)
  <2>1. PICK op \in {"install", "start", "stop", "remove"} :
          ShellDo(s, [op |-> op, pc |-> CASE op = "install" -> IF plist = Nil THEN "status" ELSE "sha"
                                          [] op = "start" -> "boot" [] OTHER -> "halt",
                      first |-> TRUE, had |-> plist, before |-> [up |-> TRUE, plist |-> TRUE],
                      want |-> Nil, temp |-> Nil, again |-> FALSE, own |-> FALSE])
    BY <1>2 DEF AgentBegin
  <2> DEFINE c == [op |-> op, pc |-> CASE op = "install" -> IF plist = Nil THEN "status" ELSE "sha"
                                       [] op = "start" -> "boot" [] OTHER -> "halt",
                   first |-> TRUE, had |-> plist, before |-> [up |-> TRUE, plist |-> TRUE],
                   want |-> Nil, temp |-> Nil, again |-> FALSE, own |-> FALSE]
  <2>2. DOMAIN c = ShellFields /\ c.pc \in {"status", "sha", "boot", "halt"} /\ c.had = plist /\ (c.pc = "sha" => plist # Nil)
    BY DEF ShellFields
  <2>3. ShellDo(s, c) /\ shells[s].pc = "none"
    BY <1>2, <2>1 DEF AgentBegin, NoCommand
  <2>4. "overlap" \notin hurry' => \A t \in Shell : shells[t] = NoCommand
    BY <1>2 DEF AgentBegin
  <2> HIDE DEF c
  <2>5. c.pc \in Pinning => c.had # Nil
    BY <2>2 DEF Pinning
  <2> QED
    BY <1>1, <2>2, <2>3, <2>4, <2>5, ShellStep DEF AgentFits, OneAtATime
<1>3. CASE AgentKill(s)
  <2>1. ShellDo(s, NoCommand) /\ shells[s] # NoCommand /\ (hurry' = {} => ~dying) /\ NoCommand.pc = "none"
    BY <1>3 DEF AgentKill, ShellEnds, NoCommand
  <2>2. "overlap" \notin hurry => \A t \in Shell \ {s} : shells[t] = NoCommand
    BY <1>1, <2>1 DEF OneAtATime
  <2>3. NoCommand.pc \notin Pinning
    BY DEF NoCommand, Pinning
  <2> QED
    BY <1>1, <2>1, <2>2, <2>3, ShellStep DEF AgentFits, OneAtATime
<1> QED
  BY <1>2, <1>3

\* launchd and the people beside.
LEMMA AgentWorldStep == ASSUME AgentIInv, Launchd \/ AgentEdit PROVE AgentIInv'
<1>1. UNCHANGED <<exports, plist, shells, hurry>>
  BY DEF Launchd, AgentEdit
<1>2. /\ DOMAIN agent' = AgentFields
      /\ agent'.listed # "yes" => agent'.process = "none"
      /\ agent'.process # "none" => agent.process # "none" /\ agent'.runs = agent.runs
      /\ agent.listed = "no" => agent'.listed = "no"
      /\ dying' => dying
  BY DEF Launchd, AgentEdit, AgentIInv, AgentFits, NoJob, AgentFields
<1>3. AgentFits' /\ PinsFit'
  BY <1>1, <1>2 DEF AgentIInv, AgentFits, PinsFit, ExportsArePinned, GoodPin, ShellAt
<1>4. OneAtATime'
  BY <1>1, <1>2 DEF AgentIInv, OneAtATime, Loaded
<1>5. Awaited'
  BY <1>1, <1>2 DEF AgentIInv, Awaited, ShellAt
<1> QED
  BY <1>3, <1>4, <1>5 DEF AgentIInv

LEMMA AgentNextInv == AgentIInv /\ [Next]_vars => AgentIInv'
<1> SUFFICES ASSUME AgentIInv, [Next]_vars
             PROVE  AgentIInv'
  OBVIOUS
<1>1. CASE UNCHANGED agentVars
  BY <1>1 DEF agentVars, AgentIInv, AgentFits, PinsFit, ExportsArePinned, GoodPin, ShellAt, OneAtATime, Loaded, Awaited
<1>2. CASE AgentNext
  BY <1>2, PlainSteps, ExportSteps, WritePlistStep, BootstrapStep, HealthSteps, StopSteps, BeginKillSteps, AgentWorldStep
     DEF AgentNext
<1> QED
  BY <1>1, <1>2, OnlyAgent

\* What launchd runs is what was exported, named and asked for: across edits,
\* failed installs, crashes and removals.
THEOREM Pinned == Spec => []AgentIsPinned
<1>1. AgentIInv => AgentIsPinned
  <2> SUFFICES ASSUME AgentIInv
               PROVE  ExportsArePinned /\ StatusIsTrue /\ StartedIsServing
    BY DEF AgentIsPinned
  <2>1. ExportsArePinned
    BY DEF AgentIInv, PinsFit
  <2>2. StatusIsTrue
    BY DEF AgentIInv, OneAtATime, StatusIsTrue, CodeStatus
  <2>3. StartedIsServing
    BY DEF AgentIInv, Awaited, StartedIsServing
  <2> QED
    BY <2>1, <2>2, <2>3
<1> QED
  BY <1>1, AgentInitInv, AgentNextInv, PTL DEF Spec

(***************************************************************************)
(* Campaigns: a case is tried once, under the pins of its campaign, and its*)
(* outcome stays.                                                          *)
(***************************************************************************)
CampFields == {"profile", "stage", "id", "rows", "tried", "scores"}
RunnerFields == {"pc", "profile", "on", "code", "nr", "leg", "row", "doc"}
WorldState == [pins : {0, 1}, omp : {0, 1}, source : DOMAIN CaseGrader]

\* A runner that works on its campaign, and one that is at a case of it.
Trying == {"start", "trial", "record", "recording"}
Working == {"manifest", "dirs", "next"} \cup Trying

\* What is graded in a varied campaign is what the grader of its specs makes of
\* the trace, measured under its pins.
RowFits(row, profile, id) ==
  row.status \in Graded /\ profile = "varied" => row.status = row.trace[id.specs] /\ row.under = {id.pins}

\* The cases of a campaign support a score of PASS.
Supported(c) ==
  \A k \in Case : /\ c.rows[k] # Nil /\ c.rows[k].status \in Graded
                  /\ c.profile = "varied" => c.rows[k].status = "PASS"

CampFits(c) ==
  /\ DOMAIN c = CampFields /\ c.profile \in Profile /\ c.rows \in [Case -> {Nil} \cup CaseRow]
  /\ \A k \in Case : c.rows[k] # Nil => RowFits(c.rows[k], c.profile, c.id)
  /\ \A s \in DOMAIN c.scores : "PASS" \in c.scores[s] => Supported(c)

\* The identity of the campaign that v works on was read not after the world w, and
\* its specs are those of the code of v.
IdFits(v, id, w) ==
  id.pins \in {0, 1} /\ id.pins <= w.pins /\ (v.profile = "varied" => id.specs = CaseGrader[v.code])

\* The pins that a leg has seen are between those of its campaign and the present ones.
LegFits(v, id, w) ==
  /\ DOMAIN v.leg = {"pins", "under"} /\ v.leg.under # {}
  /\ v.leg.under \subseteq {p \in {0, 1} : id.pins <= p /\ p <= w.pins}
  /\ v.profile = "varied" => v.leg.pins = id.pins

\* A running command v, beside the campaigns cs and the world w.
EvalFits(v, cs, w) ==
  /\ DOMAIN v = RunnerFields /\ v.pc # "none" /\ v.code \in DOMAIN CaseGrader /\ v.nr \in Nat
  /\ v.pc # "create" => v.on \in DOMAIN cs
  /\ v.pc \in Working => v.profile = cs[v.on].profile /\ IdFits(v, cs[v.on].id, w) /\ v.nr > 0
  /\ v.pc \in {"create", "open"} => v.nr > 0 /\ v.profile \in Profile
  /\ v.pc \in Trying => /\ v.nr \in DOMAIN CaseList /\ cs[v.on].rows[CaseList[v.nr]] = Nil
                        /\ CaseList[v.nr] \in cs[v.on].tried
  /\ v.pc = "trial" => LegFits(v, cs[v.on].id, w)
  /\ v.pc \in {"record", "recording"} => v.row \in CaseRow /\ RowFits(v.row, v.profile, cs[v.on].id)
  /\ v.pc \in {"look", "replace"} /\ v.doc.status = "PASS" => Supported(cs[v.on])

Evaluations ==
  /\ IsSeq(camps) /\ \A i \in DOMAIN camps : CampFits(camps[i])
  /\ world \in WorldState /\ DOMAIN runners = Runner
  /\ \A r \in Runner : runners[r] = NoEval \/ EvalFits(runners[r], camps, world)

SameTry(v, x) == v.pc \in Trying /\ x.pc \in Trying /\ v.on = x.on /\ CaseList[v.nr] = CaseList[x.nr]

\* One eval run at a time, and nobody tries a case beside another.
OnlyOne ==
  \A r, t \in Runner :
    /\ runners[r] # NoEval /\ runners[r].profile = "e2e" /\ runners[t] # NoEval /\ runners[t].profile = "e2e" => r = t
    /\ SameTry(runners[r], runners[t]) => r = t

Tries == \A x \in DOMAIN attempts : x[1] \in DOMAIN camps /\ x[2] \in camps[x[1]].tried

CampIInv == Evaluations /\ OnlyOne /\ Tries /\ TriedOnce

\* The campaigns ds come after cs: nothing recorded is lost or changed.
Kept(cs, ds) ==
  \A i \in DOMAIN cs :
    /\ i \in DOMAIN ds /\ ds[i].profile = cs[i].profile /\ ds[i].id = cs[i].id /\ cs[i].tried \subseteq ds[i].tried
    /\ \A k \in Case : cs[i].rows[k] # Nil => /\ ds[i].rows[k] # Nil /\ ds[i].rows[k].status = cs[i].rows[k].status
                                              /\ ds[i].rows[k].trace = cs[i].rows[k].trace

LEMMA OnlyCampaign ==
  ASSUME [Next]_vars
  PROVE  CampNext \/ UNCHANGED campVars
BY DEF Next, BenchNext, vars, campVars

LEMMA CampInitInv == Init => CampIInv
<1> SUFFICES ASSUME CampInit
             PROVE  CampIInv
  BY DEF Init
<1>1. /\ camps = <<>> /\ runners = [r \in Runner |-> NoEval] /\ world = [pins |-> 0, omp |-> 0, source |-> 0]
      /\ DOMAIN attempts = {}
  BY DEF CampInit
<1>2. camps \in Seq({}) /\ DOMAIN camps = {}
  BY <1>1
<1>3. Evaluations
  BY <1>1, <1>2, SeqIsSeq, CampaignAssumption DEF Evaluations, WorldState
<1>4. \A r \in Runner : runners[r] = NoEval /\ runners[r].pc = "none"
  BY <1>1 DEF NoEval
<1>5. OnlyOne
  BY <1>4 DEF OnlyOne, SameTry, Trying
<1>6. Tries /\ TriedOnce
  BY <1>1 DEF Tries, TriedOnce
<1> QED
  BY <1>3, <1>5, <1>6 DEF CampIInv

LEMMA SupportKept ==
  ASSUME NEW cs, NEW ds, Kept(cs, ds), NEW i \in DOMAIN cs, Supported(cs[i])
  PROVE  Supported(ds[i])
BY DEF Kept, Supported

LEMMA KeptSame == \A cs : Kept(cs, cs)
BY DEF Kept

\* A command goes on beside what others do.
LEMMA EvalKept ==
  ASSUME NEW v, NEW cs, NEW ds, NEW w \in WorldState, NEW u \in WorldState, EvalFits(v, cs, w), Kept(cs, ds), w.pins <= u.pins,
         v.pc \in Trying => ds[v.on].rows[CaseList[v.nr]] = Nil
  PROVE  EvalFits(v, ds, u)
<1>1. w.pins \in {0, 1} /\ u.pins \in {0, 1}
  BY DEF WorldState
<1>2. v.pc # "create" => v.on \in DOMAIN ds /\ ds[v.on].profile = cs[v.on].profile /\ ds[v.on].id = cs[v.on].id
  BY DEF EvalFits, Kept
<1>3. /\ v.pc \in Working => v.profile = ds[v.on].profile /\ IdFits(v, ds[v.on].id, u) /\ v.nr > 0
      /\ v.pc \in Trying => v.nr \in DOMAIN CaseList /\ CaseList[v.nr] \in ds[v.on].tried
  <2>1. v.pc \in Working => v.profile = ds[v.on].profile /\ v.nr > 0 /\ IdFits(v, ds[v.on].id, w)
    BY <1>2 DEF EvalFits, Working, Trying
  <2>2. v.pc \in Working => IdFits(v, ds[v.on].id, u)
    BY <1>1, <2>1 DEF IdFits
  <2>3. v.pc \in Trying => v.nr \in DOMAIN CaseList /\ CaseList[v.nr] \in ds[v.on].tried
    BY DEF EvalFits, Kept, Trying
  <2> QED
    BY <2>1, <2>2, <2>3
<1>4. v.pc = "trial" => LegFits(v, ds[v.on].id, u)
  <2>1. v.pc = "trial" => LegFits(v, ds[v.on].id, w) /\ ds[v.on].id.pins \in {0, 1}
    BY <1>2 DEF EvalFits, Working, Trying, IdFits
  <2> QED
    BY <1>1, <2>1 DEF LegFits
<1>5. v.pc \in {"look", "replace"} /\ v.doc.status = "PASS" => Supported(ds[v.on])
  BY SupportKept DEF EvalFits
<1>6. v.pc \in {"record", "recording"} => v.row \in CaseRow /\ RowFits(v.row, v.profile, ds[v.on].id)
  BY <1>2 DEF EvalFits
<1> QED
  BY <1>2, <1>3, <1>4, <1>5, <1>6 DEF EvalFits

\* What a step of the command r has to show.
LEMMA EvalStep ==
  ASSUME CampIInv, NEW r \in Runner, NEW v, RunnerDo(r, v), Kept(camps, camps'), IsSeq(camps'),
         \A i \in DOMAIN camps' : CampFits(camps'[i]), UNCHANGED world,
         v = NoEval \/ EvalFits(v, camps', world),
         \A t \in Runner \ {r} :
           /\ v # NoEval /\ v.profile = "e2e" => runners[t] = NoEval \/ runners[t].profile # "e2e"
           /\ ~SameTry(v, runners[t])
           /\ runners[t].pc \in Trying => camps'[runners[t].on].rows[CaseList[runners[t].nr]] = Nil,
         Tries', TriedOnce'
  PROVE  CampIInv'
<1>1. DOMAIN runners' = Runner /\ runners'[r] = v /\ \A t \in Runner \ {r} : runners'[t] = runners[t]
  BY DEF RunnerDo, CampIInv, Evaluations
<1>2. ASSUME NEW t \in Runner
      PROVE  runners'[t] = NoEval \/ EvalFits(runners'[t], camps', world')
  <2>1. CASE t = r
    BY <1>1, <2>1
  <2>2. CASE t # r
    <3>1. world \in WorldState /\ (runners[t] = NoEval \/ EvalFits(runners[t], camps, world)) /\ world.pins <= world.pins
      BY DEF CampIInv, Evaluations, WorldState
    <3>2. runners[t].pc \in Trying => camps'[runners[t].on].rows[CaseList[runners[t].nr]] = Nil
      BY <2>2
    <3>3. runners[t] = NoEval \/ EvalFits(runners[t], camps', world)
      BY <3>1, <3>2, EvalKept
    <3> QED
      BY <1>1, <2>2, <3>3
  <2> QED
    BY <2>1, <2>2
<1>3. Evaluations'
  BY <1>1, <1>2 DEF CampIInv, Evaluations
<1>4. ASSUME NEW s \in Runner, NEW t \in Runner
      PROVE  /\ runners'[s] # NoEval /\ runners'[s].profile = "e2e" /\ runners'[t] # NoEval /\ runners'[t].profile = "e2e" => s = t
             /\ SameTry(runners'[s], runners'[t]) => s = t
  <2>1. \A x, y : SameTry(x, y) => SameTry(y, x)
    BY DEF SameTry
  <2>2. CASE s = r \/ t = r
    BY <1>1, <2>1, <2>2
  <2>3. CASE s # r /\ t # r
    BY <1>1, <2>3 DEF CampIInv, OnlyOne
  <2> QED
    BY <2>2, <2>3
<1>5. OnlyOne'
  BY <1>4 DEF OnlyOne, SameTry
<1> QED
  BY <1>3, <1>5 DEF CampIInv

\* A command that goes on, or ends, without changing its campaign.
LEMMA EvalGoes ==
  ASSUME CampIInv, NEW r \in Runner, NEW v, RunnerDo(r, v), UNCHANGED <<camps, world, attempts>>, runners[r] # NoEval,
         \/ v = NoEval
         \/ /\ EvalFits(v, camps, world) /\ v.profile = runners[r].profile
            /\ v.pc \in Trying => runners[r].pc \in Trying /\ v.on = runners[r].on /\ v.nr = runners[r].nr
  PROVE  CampIInv'
<1>1. /\ IsSeq(camps) /\ (\A i \in DOMAIN camps : CampFits(camps[i])) /\ OnlyOne /\ Tries /\ TriedOnce
      /\ \A t \in Runner : runners[t] = NoEval \/ EvalFits(runners[t], camps, world)
  BY DEF CampIInv, Evaluations
<1>2. Tries' /\ TriedOnce'
  BY <1>1 DEF Tries, TriedOnce
<1>3. NoEval.pc = "none" /\ "none" \notin Trying
  BY DEF NoEval, Trying
<1>4. ASSUME NEW t \in Runner \ {r}
      PROVE  /\ v # NoEval /\ v.profile = "e2e" => runners[t] = NoEval \/ runners[t].profile # "e2e"
             /\ ~SameTry(v, runners[t])
             /\ runners[t].pc \in Trying => camps[runners[t].on].rows[CaseList[runners[t].nr]] = Nil
  <2>1. v # NoEval /\ v.profile = "e2e" => runners[t] = NoEval \/ runners[t].profile # "e2e"
    BY <1>1 DEF OnlyOne
  <2>2. ~SameTry(v, runners[t])
    BY <1>1, <1>3 DEF OnlyOne, SameTry
  <2>3. runners[t].pc \in Trying => camps[runners[t].on].rows[CaseList[runners[t].nr]] = Nil
    BY <1>1, <1>3 DEF EvalFits
  <2> QED
    BY <2>1, <2>2, <2>3
<1> QED
  BY <1>1, <1>2, <1>4, KeptSame, EvalStep

\* What is known of a command at pc.
LEMMA EvalKnown ==
  ASSUME CampIInv, NEW r \in Runner, NEW pc, RunnerAt(r, pc), pc # "none"
  PROVE  /\ runners[r] # NoEval /\ EvalFits(runners[r], camps, world) /\ runners[r].pc = pc
         /\ DOMAIN runners[r] = RunnerFields
BY DEF CampIInv, Evaluations, EvalFits, RunnerAt, NoEval

LEMMA EvalGoto ==
  ASSUME NEW r \in Runner, DOMAIN runners[r] = RunnerFields, NEW pc, RunnerGoto(r, pc)
  PROVE  \E v : RunnerDo(r, v) /\ DOMAIN v = RunnerFields /\ v.pc = pc /\ \A f \in RunnerFields \ {"pc"} : v[f] = runners[r][f]
<1> DEFINE v == [runners[r] EXCEPT !.pc = pc]
<1>1. RunnerDo(r, v) /\ DOMAIN v = RunnerFields /\ v.pc = pc /\ \A f \in RunnerFields \ {"pc"} : v[f] = runners[r][f]
  BY DEF RunnerGoto, RunnerFields
<1> HIDE DEF v
<1> QED
  BY <1>1

\* A command ends.
LEMMA EvalEnds ==
  ASSUME CampIInv, NEW r \in Runner, NEW pc, RunnerAt(r, pc), pc # "none", RunnerEnds(r), UNCHANGED <<camps, world, attempts>>
  PROVE  CampIInv'
BY EvalKnown, EvalGoes DEF RunnerEnds

LEMMA ResumeStep == ASSUME CampIInv, NEW r \in Runner, Resume(r) PROVE CampIInv'
<1>1. RunnerAt(r, "open") /\ UNCHANGED <<camps, world, attempts>>
  BY DEF Resume, StillCamp
<1>2. /\ runners[r] # NoEval /\ EvalFits(runners[r], camps, world) /\ runners[r].pc = "open"
      /\ DOMAIN runners[r] = RunnerFields
  BY <1>1, EvalKnown
<1>3. CASE RunnerEnds(r)
  BY <1>1, <1>3, EvalEnds
<1>4. CASE Opens(r) /\ RunnerGoto(r, "next")
  <2>1. PICK v : RunnerDo(r, v) /\ DOMAIN v = RunnerFields /\ v.pc = "next" /\ \A f \in RunnerFields \ {"pc"} : v[f] = runners[r][f]
    BY <1>2, <1>4, EvalGoto
  <2>2. /\ v.profile = runners[r].profile /\ v.on = runners[r].on /\ v.code = runners[r].code /\ v.nr = runners[r].nr
    BY <2>1 DEF RunnerFields
  <2>3. IdFits(v, camps[v.on].id, world)
    <3>1. camps[v.on].id.pins = world.pins /\ (v.profile = "varied" => camps[v.on].id.specs = CaseGrader[v.code])
      BY <1>4, <2>2 DEF Opens, Mine, Identity, GraderOf
    <3> QED
      BY <3>1 DEF IdFits, CampIInv, Evaluations, WorldState
  <2>4. v.profile = camps[v.on].profile
    BY <1>4, <2>2 DEF Opens, Mine
  <2>5. EvalFits(v, camps, world)
    BY <1>2, <2>1, <2>2, <2>3, <2>4 DEF EvalFits, Trying
  <2> QED
    BY <1>1, <1>2, <2>1, <2>2, <2>5, EvalGoes DEF Trying
<1> QED
  BY <1>3, <1>4 DEF Resume

LEMMA LegStep2 == ASSUME CampIInv, NEW r \in Runner, LegBegins(r) PROVE CampIInv'
<1> DEFINE v == [runners[r] EXCEPT !.pc = "trial",
                   !.leg = [pins |-> IF runners[r].profile = "varied" THEN camps[runners[r].on].id.pins ELSE world.pins,
                            under |-> {world.pins}]]
<1>1. RunnerAt(r, "start") /\ UNCHANGED <<camps, world, attempts>> /\ RunnerDo(r, v)
  BY DEF LegBegins, StillCamp, Mine
<1>2. /\ runners[r] # NoEval /\ EvalFits(runners[r], camps, world) /\ runners[r].pc = "start"
      /\ DOMAIN runners[r] = RunnerFields /\ world \in WorldState
  BY <1>1, EvalKnown DEF CampIInv, Evaluations
<1>3. /\ DOMAIN v = RunnerFields /\ v.pc = "trial" /\ v.profile = runners[r].profile /\ v.on = runners[r].on /\ v.code = runners[r].code
      /\ v.nr = runners[r].nr
      /\ v.leg = [pins |-> IF runners[r].profile = "varied" THEN camps[runners[r].on].id.pins ELSE world.pins, under |-> {world.pins}]
  BY <1>2 DEF RunnerFields
<1> HIDE DEF v
<1>4. IdFits(v, camps[v.on].id, world) /\ v.profile = camps[v.on].profile /\ v.nr > 0
  BY <1>2, <1>3 DEF EvalFits, IdFits, Working, Trying
<1>5. LegFits(v, camps[v.on].id, world)
  BY <1>2, <1>3, <1>4 DEF LegFits, IdFits, WorldState
<1>6. EvalFits(v, camps, world)
  BY <1>2, <1>3, <1>4, <1>5 DEF EvalFits, Trying
<1> QED
  BY <1>1, <1>2, <1>3, <1>6, EvalGoes DEF Trying

\* A row that a trial leaves fits.
LEMMA TrialStep == ASSUME CampIInv, NEW r \in Runner, Trial(r) PROVE CampIInv'
<1>1. RunnerAt(r, "trial") /\ UNCHANGED <<camps, world, attempts>>
  BY DEF Trial, StillCamp
<1>2. /\ runners[r] # NoEval /\ EvalFits(runners[r], camps, world) /\ runners[r].pc = "trial"
      /\ DOMAIN runners[r] = RunnerFields /\ world \in WorldState
  BY <1>1, EvalKnown DEF CampIInv, Evaluations
<1> DEFINE id == camps[runners[r].on].id
<1>0. LegFits(runners[r], id, world) /\ IdFits(runners[r], id, world) /\ runners[r].code \in DOMAIN CaseGrader
      /\ runners[r].profile = camps[runners[r].on].profile
  BY <1>2 DEF EvalFits, Working, Trying
<1>3. ASSUME NEW row, RunnerDo(r, [runners[r] EXCEPT !.pc = "record", !.row = row]), row \in CaseRow,
             RowFits(row, runners[r].profile, id)
      PROVE  CampIInv'
  <2> DEFINE v == [runners[r] EXCEPT !.pc = "record", !.row = row]
  <2>1. /\ DOMAIN v = RunnerFields /\ v.pc = "record" /\ v.profile = runners[r].profile /\ v.on = runners[r].on /\ v.code = runners[r].code
        /\ v.nr = runners[r].nr /\ v.row = row
    BY <1>2 DEF RunnerFields
  <2>2. RunnerDo(r, v)
    BY <1>3
  <2> HIDE DEF v
  <2>4. IdFits(v, camps[v.on].id, world) /\ RowFits(v.row, v.profile, camps[v.on].id)
    BY <1>0, <1>3, <2>1 DEF IdFits
  <2>3. EvalFits(v, camps, world)
    BY <1>0, <1>2, <1>3, <2>1, <2>4 DEF EvalFits, Working, Trying
  <2> QED
    BY <1>1, <1>2, <2>1, <2>2, <2>3, EvalGoes DEF Trying
<1>4. runners[r].leg.under \in SUBSET {0, 1}
  BY <1>0 DEF LegFits
<1>5. ASSUME NEW did \in CaseTrace,
             RunnerDo(r, [runners[r] EXCEPT !.pc = "record",
               !.row = [status |-> IF Moved(r) THEN "VOID" ELSE did[GraderOf(r)], trace |-> did, intact |-> TRUE,
                        under |-> runners[r].leg.under]])
      PROVE  CampIInv'
  <2> DEFINE row == [status |-> IF Moved(r) THEN "VOID" ELSE did[GraderOf(r)], trace |-> did, intact |-> TRUE,
                     under |-> runners[r].leg.under]
  <2>0. did[GraderOf(r)] \in Graded
    BY <1>0, CampaignAssumption DEF GraderOf, Grader
  <2>1. row \in CaseRow
    BY <1>4, <2>0 DEF CaseRow, CaseStatus
  <2>2. ~Moved(r) /\ runners[r].profile = "varied" => runners[r].leg.under = {id.pins} /\ id.specs = GraderOf(r)
    <3>1. id.pins \in {0, 1} /\ world.pins \in {0, 1}
      BY <1>0, <1>2 DEF WorldState, IdFits
    <3> QED
      BY <1>0, <3>1 DEF LegFits, IdFits, Moved, GraderOf
  <2>3. RowFits(row, runners[r].profile, id)
    BY <2>2 DEF RowFits, Graded
  <2> QED
    BY <1>3, <1>5, <2>1, <2>3
<1>6. ASSUME NEW s \in {"VOID", "ERROR"},
             RunnerDo(r, [runners[r] EXCEPT !.pc = "record",
               !.row = [status |-> s, trace |-> Ungraded, intact |-> TRUE, under |-> runners[r].leg.under]])
      PROVE  CampIInv'
  <2> DEFINE row == [status |-> s, trace |-> Ungraded, intact |-> TRUE, under |-> runners[r].leg.under]
  <2>0. Ungraded \in CaseTrace
    BY CampaignAssumption DEF Ungraded
  <2>1. row \in CaseRow
    BY <1>4, <2>0 DEF CaseRow, CaseStatus, Graded
  <2>2. RowFits(row, runners[r].profile, id)
    BY DEF RowFits, Graded
  <2> QED
    BY <1>3, <1>6, <2>1, <2>2
<1>7. CASE RunnerEnds(r)
  BY <1>1, <1>7, EvalEnds
<1> QED
  BY <1>5, <1>6, <1>7 DEF Trial

LEMMA RecordCheckStep == ASSUME CampIInv, NEW r \in Runner, RecordCheck(r) PROVE CampIInv'
<1>1. RunnerAt(r, "record") /\ UNCHANGED <<camps, world, attempts>> /\ (RunnerGoto(r, "recording") \/ RunnerEnds(r))
  BY DEF RecordCheck, StillCamp
<1>2. /\ runners[r] # NoEval /\ EvalFits(runners[r], camps, world) /\ runners[r].pc = "record"
      /\ DOMAIN runners[r] = RunnerFields
  BY <1>1, EvalKnown
<1>3. CASE RunnerEnds(r)
  BY <1>1, <1>3, EvalEnds
<1>4. CASE RunnerGoto(r, "recording")
  <2>1. PICK v : RunnerDo(r, v) /\ DOMAIN v = RunnerFields /\ v.pc = "recording" /\ \A f \in RunnerFields \ {"pc"} : v[f] = runners[r][f]
    BY <1>2, <1>4, EvalGoto
  <2>2. /\ v.profile = runners[r].profile /\ v.on = runners[r].on /\ v.code = runners[r].code /\ v.nr = runners[r].nr /\ v.row = runners[r].row
    BY <2>1 DEF RunnerFields
  <2>4. IdFits(v, camps[v.on].id, world) /\ RowFits(v.row, v.profile, camps[v.on].id) /\ v.row \in CaseRow
    BY <1>2, <2>2 DEF EvalFits, IdFits, Working, Trying
  <2>3. EvalFits(v, camps, world)
    BY <1>2, <2>1, <2>2, <2>4 DEF EvalFits, Working, Trying
  <2> QED
    BY <1>1, <1>2, <2>1, <2>2, <2>3, EvalGoes DEF Trying
<1> QED
  BY <1>1, <1>3, <1>4

\* A score of PASS is made of graded cases, in a varied campaign of passes.
LEMMA ScoreStep == ASSUME CampIInv, NEW r \in Runner, Score(r) PROVE CampIInv'
<1> DEFINE rows == Mine(r).rows
           scores == [c \in Case |-> CaseScore(rows[c], GraderOf(r))]
           v == [runners[r] EXCEPT !.pc = "look", !.doc = [status |-> Overall(scores), scorer |-> Nil]]
           fit == Mine(r).profile = "varied" => Mine(r).id.specs = GraderOf(r)
<1>1. RunnerAt(r, "score") /\ UNCHANGED <<camps, world, attempts>>
  BY DEF Score, StillCamp
<1>2. /\ runners[r] # NoEval /\ EvalFits(runners[r], camps, world) /\ runners[r].pc = "score"
      /\ DOMAIN runners[r] = RunnerFields /\ runners[r].on \in DOMAIN camps /\ CampFits(camps[runners[r].on])
  BY <1>1, EvalKnown DEF CampIInv, Evaluations, EvalFits
<1>3. (fit /\ RunnerDo(r, v)) \/ RunnerEnds(r)
  BY DEF Score
<1>4. ASSUME fit, Overall(scores) = "PASS"
      PROVE  Supported(camps[runners[r].on])
  <2>1. \A c \in Case : scores[c] = "PASS"
    BY <1>4 DEF Overall
  <2> SUFFICES ASSUME NEW c \in Case
               PROVE  /\ rows[c] # Nil /\ rows[c].status \in Graded
                      /\ camps[runners[r].on].profile = "varied" => rows[c].status = "PASS"
    BY DEF Supported, Mine
  <2>2. CaseScore(rows[c], GraderOf(r)) = "PASS"
    BY <2>1
  <2>3. rows[c] # Nil /\ (rows[c].status \in Graded => rows[c].trace[GraderOf(r)] = "PASS")
        /\ (rows[c].status \notin Graded => rows[c].status = "PASS")
    BY <2>2 DEF CaseScore
  <2>4. rows[c].status \in Graded
    BY <2>3 DEF Graded
  <2>5. RowFits(rows[c], camps[runners[r].on].profile, camps[runners[r].on].id)
    BY <1>2, <2>3 DEF CampFits, Mine
  <2>6. camps[runners[r].on].profile = "varied" => camps[runners[r].on].id.specs = GraderOf(r)
    BY <1>4 DEF Mine
  <2> HIDE DEF rows
  <2> QED
    BY <2>3, <2>4, <2>5, <2>6 DEF RowFits
<1>5. CASE fit /\ RunnerDo(r, v)
  <2>1. /\ DOMAIN v = RunnerFields /\ v.pc = "look" /\ v.profile = runners[r].profile /\ v.on = runners[r].on /\ v.code = runners[r].code
        /\ v.nr = runners[r].nr /\ v.doc.status = Overall(scores)
    BY <1>2 DEF RunnerFields
  <2> HIDE DEF v
  <2>2. v.doc.status = "PASS" => Supported(camps[v.on])
    BY <1>4, <1>5, <2>1
  <2>3. EvalFits(v, camps, world)
    BY <1>2, <2>1, <2>2 DEF EvalFits, Working, Trying
  <2> QED
    BY <1>1, <1>2, <1>5, <2>1, <2>3, EvalGoes DEF Trying
<1>6. CASE RunnerEnds(r)
  BY <1>1, <1>6, EvalEnds
<1> QED
  BY <1>3, <1>5, <1>6

\* The document is kept for the scorer that has no file.
LEMMA LookStep2 == ASSUME CampIInv, NEW r \in Runner, LookForScore(r) PROVE CampIInv'
<1> DEFINE v == [runners[r] EXCEPT !.pc = "replace", !.doc.scorer = world.source]
<1>1. RunnerAt(r, "look") /\ UNCHANGED <<camps, world, attempts>> /\ (RunnerEnds(r) \/ RunnerDo(r, v))
  BY DEF LookForScore, StillCamp
<1>2. /\ runners[r] # NoEval /\ EvalFits(runners[r], camps, world) /\ runners[r].pc = "look"
      /\ DOMAIN runners[r] = RunnerFields
  BY <1>1, EvalKnown
<1>3. CASE RunnerEnds(r)
  BY <1>1, <1>3, EvalEnds
<1>4. CASE RunnerDo(r, v)
  <2>1. /\ DOMAIN v = RunnerFields /\ v.pc = "replace" /\ v.profile = runners[r].profile /\ v.on = runners[r].on
        /\ v.code = runners[r].code /\ v.nr = runners[r].nr /\ v.doc = [runners[r].doc EXCEPT !.scorer = world.source]
    BY <1>2 DEF RunnerFields
  <2> HIDE DEF v
  <2>2. v.doc.status = runners[r].doc.status
    BY <2>1
  <2>3. EvalFits(v, camps, world)
    BY <1>2, <2>1, <2>2 DEF EvalFits, Working, Trying
  <2> QED
    BY <1>1, <1>2, <1>4, <2>1, <2>3, EvalGoes DEF Trying
<1> QED
  BY <1>1, <1>3, <1>4

LEMMA EvalKillStep == ASSUME CampIInv, NEW r \in Runner, EvalKill(r) PROVE CampIInv'
BY EvalGoes DEF EvalKill, RunnerEnds, StillCamp

\* One field of the campaign of r is stored.
LEMMA Stored ==
  ASSUME CampIInv, NEW r \in Runner, runners[r].on \in DOMAIN camps, NEW f \in CampFields, NEW x, Store(r, f, x)
  PROVE  LET on == runners[r].on
         IN /\ IsSeq(camps') /\ DOMAIN camps' = DOMAIN camps /\ \A i \in DOMAIN camps \ {on} : camps'[i] = camps[i]
            /\ DOMAIN camps'[on] = CampFields /\ camps'[on][f] = x
            /\ \A g \in CampFields \ {f} : camps'[on][g] = camps[on][g]
<1> DEFINE on == runners[r].on
           e == [camps[on] EXCEPT ![f] = x]
<1>1. IsSeq(camps) /\ DOMAIN camps[on] = CampFields
  BY DEF CampIInv, Evaluations, CampFits
<1>2. camps' = [camps EXCEPT ![on] = e]
  BY DEF Store
<1>3. DOMAIN e = CampFields /\ e[f] = x /\ \A g \in CampFields \ {f} : e[g] = camps[on][g]
  BY <1>1
<1> HIDE DEF e
<1>4. IsSeq(camps') /\ DOMAIN camps' = DOMAIN camps
  BY <1>1, <1>2, SeqExcept
<1> QED
  BY <1>2, <1>3, <1>4

\* What is stored by the only one at its case keeps what was recorded.
LEMMA StoreStep ==
  ASSUME CampIInv, NEW r \in Runner, NEW pc, RunnerAt(r, pc), pc # "none", runners[r].on \in DOMAIN camps,
         NEW f \in {"stage", "tried", "rows", "scores"}, NEW x, Store(r, f, x), NEW v, RunnerDo(r, v), UNCHANGED world,
         Kept(camps, camps'), CampFits(camps'[runners[r].on]),
         v = NoEval \/ (EvalFits(v, camps', world) /\ v.profile = runners[r].profile),
         \A t \in Runner \ {r} :
           /\ ~SameTry(v, runners[t])
           /\ runners[t].pc \in Trying /\ runners[t].on = runners[r].on
                => camps'[runners[r].on].rows[CaseList[runners[t].nr]] = Nil,
         Tries', TriedOnce'
  PROVE  CampIInv'
<1>1. /\ IsSeq(camps') /\ DOMAIN camps' = DOMAIN camps /\ \A i \in DOMAIN camps \ {runners[r].on} : camps'[i] = camps[i]
  BY Stored DEF CampFields
<1>2. /\ \A i \in DOMAIN camps : CampFits(camps[i])
      /\ \A t \in Runner : runners[t] = NoEval \/ EvalFits(runners[t], camps, world)
      /\ OnlyOne /\ runners[r] # NoEval
  BY EvalKnown DEF CampIInv, Evaluations
<1>3. \A i \in DOMAIN camps' : CampFits(camps'[i])
  BY <1>1, <1>2
<1>4. ASSUME NEW t \in Runner \ {r}
      PROVE  /\ v # NoEval /\ v.profile = "e2e" => runners[t] = NoEval \/ runners[t].profile # "e2e"
             /\ ~SameTry(v, runners[t])
             /\ runners[t].pc \in Trying => camps'[runners[t].on].rows[CaseList[runners[t].nr]] = Nil
  <2>1. v # NoEval /\ v.profile = "e2e" => runners[t] = NoEval \/ runners[t].profile # "e2e"
    BY <1>2 DEF OnlyOne
  <2>2. ASSUME runners[t].pc \in Trying
        PROVE  camps'[runners[t].on].rows[CaseList[runners[t].nr]] = Nil
    <3>1. runners[t] # NoEval
      BY <2>2 DEF NoEval, Trying
    <3>2. runners[t].on \in DOMAIN camps /\ camps[runners[t].on].rows[CaseList[runners[t].nr]] = Nil
      BY <1>2, <2>2, <3>1 DEF EvalFits, Trying
    <3>3. CASE runners[t].on = runners[r].on
      BY <2>2, <3>3
    <3>4. CASE runners[t].on # runners[r].on
      BY <1>1, <3>2, <3>4
    <3> QED
      BY <3>3, <3>4
  <2> QED
    BY <2>1, <2>2
<1> QED
  BY <1>1, <1>3, <1>4, EvalStep

\* Storing what is not recorded, which keeps the rest.
LEMMA StoreKeeps ==
  ASSUME CampIInv, NEW r \in Runner, runners[r].on \in DOMAIN camps, NEW f \in {"stage", "tried"}, NEW x, Store(r, f, x),
         f = "tried" => camps[runners[r].on].tried \subseteq x
  PROVE  /\ Kept(camps, camps') /\ CampFits(camps'[runners[r].on])
         /\ camps'[runners[r].on].rows = camps[runners[r].on].rows
<1> DEFINE on == runners[r].on
<1>1. /\ DOMAIN camps' = DOMAIN camps /\ \A i \in DOMAIN camps \ {on} : camps'[i] = camps[i]
      /\ DOMAIN camps'[on] = CampFields /\ camps'[on][f] = x
      /\ \A g \in CampFields \ {f} : camps'[on][g] = camps[on][g]
  BY Stored DEF CampFields
<1>2. /\ camps'[on].profile = camps[on].profile /\ camps'[on].id = camps[on].id /\ camps'[on].rows = camps[on].rows
      /\ camps'[on].scores = camps[on].scores /\ camps[on].tried \subseteq camps'[on].tried
  BY <1>1 DEF CampFields
<1>3. CampFits(camps[on])
  BY DEF CampIInv, Evaluations
<1>4. CampFits(camps'[on])
  BY <1>1, <1>2, <1>3 DEF CampFits, Supported
<1>5. ASSUME NEW i \in DOMAIN camps
      PROVE  /\ i \in DOMAIN camps' /\ camps'[i].profile = camps[i].profile /\ camps'[i].id = camps[i].id /\ camps[i].tried \subseteq camps'[i].tried
             /\ camps'[i].rows = camps[i].rows /\ camps'[i].scores = camps[i].scores
  BY <1>1, <1>2
<1>6. Kept(camps, camps')
  BY <1>5 DEF Kept
<1> QED
  BY <1>2, <1>4, <1>6

\* A campaign is made and filled.
LEMMA CreateStep == ASSUME CampIInv, NEW r \in Runner, Create(r) PROVE CampIInv' /\ Kept(camps, camps')
<1>1. UNCHANGED <<world, attempts>>
  BY DEF Create
<1>2. CASE RunnerAt(r, "create")
  <2> DEFINE e == [profile |-> runners[r].profile, stage |-> "dir", id |-> Identity(r),
                   rows |-> [c \in Case |-> Nil], tried |-> {}, scores |-> <<>>]
             v == [runners[r] EXCEPT !.pc = "manifest", !.on = Len(camps) + 1]
  <2>1. camps' = Append(camps, e) /\ RunnerDo(r, v)
    BY <1>2, EvalKnown DEF Create, RunnerAt
  <2>2. /\ runners[r] # NoEval /\ EvalFits(runners[r], camps, world) /\ runners[r].pc = "create"
        /\ DOMAIN runners[r] = RunnerFields
    BY <1>2, EvalKnown
  <2>3. /\ DOMAIN v = RunnerFields /\ v.pc = "manifest" /\ v.profile = runners[r].profile /\ v.on = Len(camps) + 1 /\ v.code = runners[r].code
        /\ v.nr = runners[r].nr
    BY <2>2 DEF RunnerFields
  <2>4. /\ e.profile = runners[r].profile /\ e.id = Identity(r) /\ e.rows = [c \in Case |-> Nil] /\ DOMAIN e.scores = {}
        /\ DOMAIN e = CampFields
    BY DEF CampFields
  <2>5. CampFits(e)
    BY <2>2, <2>4 DEF CampFits, Supported, EvalFits
  <2> HIDE DEF e, v
  <2>13. IdFits(v, e.id, world)
    BY <2>3, <2>4 DEF IdFits, Identity, GraderOf, CampIInv, Evaluations, WorldState
  <2>6. IsSeq(camps) /\ \A i \in DOMAIN camps : CampFits(camps[i])
    BY DEF CampIInv, Evaluations
  <2>7. /\ IsSeq(camps') /\ Len(camps') = Len(camps) + 1 /\ camps'[Len(camps')] = e
        /\ DOMAIN camps' = DOMAIN camps \cup {Len(camps')} /\ \A i \in DOMAIN camps : camps'[i] = camps[i]
    <3>1. IsSeq(camps') /\ Len(camps') = Len(camps) + 1
      BY <2>1, <2>6, SeqAppend
    <3>2. camps'[Len(camps')] = e
      BY <2>1, <2>6, SeqAppend
    <3>3. DOMAIN camps' = DOMAIN camps \cup {Len(camps')}
      BY <2>1, <2>6, SeqAppend
    <3>4. \A i \in DOMAIN camps : camps'[i] = camps[i]
      BY <2>1, <2>6, SeqAppend
    <3> QED
      BY <3>1, <3>2, <3>3, <3>4
  <2>8. Kept(camps, camps')
    BY <2>7 DEF Kept
  <2>9. \A i \in DOMAIN camps' : CampFits(camps'[i])
    BY <2>5, <2>6, <2>7
  <2>10. EvalFits(v, camps', world)
    BY <2>2, <2>3, <2>4, <2>7, <2>13 DEF EvalFits, Working, Trying
  <2>11. Tries' /\ TriedOnce'
    BY <1>1, <2>7 DEF CampIInv, Tries, TriedOnce
  <2>12. ASSUME NEW t \in Runner \ {r}
         PROVE  /\ v # NoEval /\ v.profile = "e2e" => runners[t] = NoEval \/ runners[t].profile # "e2e"
                /\ ~SameTry(v, runners[t])
                /\ runners[t].pc \in Trying => camps'[runners[t].on].rows[CaseList[runners[t].nr]] = Nil
    <3>1. v # NoEval /\ v.profile = "e2e" => runners[t] = NoEval \/ runners[t].profile # "e2e"
      BY <2>2, <2>3 DEF CampIInv, OnlyOne
    <3>2. ~SameTry(v, runners[t])
      BY <2>3 DEF SameTry, Trying
    <3>3. runners[t] # NoEval => EvalFits(runners[t], camps, world)
      BY DEF CampIInv, Evaluations
    <3>4. runners[t].pc \in Trying => camps'[runners[t].on].rows[CaseList[runners[t].nr]] = Nil
      BY <2>7, <3>3 DEF EvalFits, NoEval, Trying
    <3> QED
      BY <3>1, <3>2, <3>4
  <2> QED
    BY <1>1, <2>1, <2>7, <2>8, <2>9, <2>10, <2>11, <2>12, EvalStep
<1>3. ASSUME NEW pc \in {"manifest", "dirs"}, NEW x, NEW next \in {"dirs", "next"}, RunnerAt(r, pc), Store(r, "stage", x), RunnerGoto(r, next)
      PROVE  CampIInv' /\ Kept(camps, camps')
  <2>1. /\ runners[r] # NoEval /\ EvalFits(runners[r], camps, world) /\ runners[r].pc = pc
        /\ DOMAIN runners[r] = RunnerFields /\ runners[r].on \in DOMAIN camps
    BY <1>3, EvalKnown DEF EvalFits
  <2>2. Kept(camps, camps') /\ CampFits(camps'[runners[r].on]) /\ camps'[runners[r].on].rows = camps[runners[r].on].rows
    BY <1>3, <2>1, StoreKeeps
  <2>3. PICK v : RunnerDo(r, v) /\ DOMAIN v = RunnerFields /\ v.pc = next /\ \A f \in RunnerFields \ {"pc"} : v[f] = runners[r][f]
    BY <1>3, <2>1, EvalGoto
  <2>4. /\ v.profile = runners[r].profile /\ v.on = runners[r].on /\ v.code = runners[r].code /\ v.nr = runners[r].nr
    BY <2>3 DEF RunnerFields
  <2>5. EvalFits(v, camps', world)
    <3>2. IdFits(v, camps[v.on].id, world)
      BY <2>1, <2>4 DEF EvalFits, IdFits, Working
    <3>1. EvalFits(v, camps, world)
      BY <2>1, <2>3, <2>4, <3>2 DEF EvalFits, Working, Trying
    <3> QED
      BY <2>2, <2>3, <3>1, EvalKept DEF Trying, CampIInv, Evaluations, WorldState
  <2>6. Tries' /\ TriedOnce'
    BY <1>1, <2>2 DEF CampIInv, Tries, TriedOnce, Kept
  <2>7. ASSUME NEW t \in Runner \ {r}
        PROVE  /\ ~SameTry(v, runners[t])
               /\ runners[t].pc \in Trying /\ runners[t].on = runners[r].on
                    => camps'[runners[r].on].rows[CaseList[runners[t].nr]] = Nil
    <3>1. ~SameTry(v, runners[t])
      BY <2>3 DEF SameTry, Trying
    <3>2. runners[t] # NoEval => EvalFits(runners[t], camps, world)
      BY DEF CampIInv, Evaluations
    <3> QED
      BY <2>2, <3>1, <3>2 DEF EvalFits, NoEval, Trying
  <2> QED
    BY <1>1, <1>3, <2>1, <2>2, <2>3, <2>4, <2>5, <2>6, <2>7, StoreStep
<1> QED
  BY <1>2, <1>3 DEF Create

\* The next case is begun, passed over, or the command ends.
LEMMA NextCaseStep == ASSUME CampIInv, NEW r \in Runner, NextCase(r) PROVE CampIInv' /\ Kept(camps, camps')
<1> DEFINE on == runners[r].on
           c == CaseList[runners[r].nr]
<1>1. RunnerAt(r, "next") /\ UNCHANGED world
  BY DEF NextCase
<1>2. /\ runners[r] # NoEval /\ EvalFits(runners[r], camps, world) /\ runners[r].pc = "next"
      /\ DOMAIN runners[r] = RunnerFields /\ on \in DOMAIN camps /\ runners[r].profile = camps[on].profile
      /\ runners[r].nr \in Nat \ {0} /\ CampFits(camps[on])
  BY <1>1, EvalKnown DEF EvalFits, Working, CampIInv, Evaluations
<1>3. CASE RunnerGoto(r, "score") /\ UNCHANGED <<camps, attempts>>
  <2>1. PICK v : RunnerDo(r, v) /\ DOMAIN v = RunnerFields /\ v.pc = "score" /\ \A f \in RunnerFields \ {"pc"} : v[f] = runners[r][f]
    BY <1>2, <1>3, EvalGoto
  <2>2. /\ v.profile = runners[r].profile /\ v.on = runners[r].on /\ v.code = runners[r].code /\ v.nr = runners[r].nr
    BY <2>1 DEF RunnerFields
  <2>3. EvalFits(v, camps, world)
    BY <1>2, <2>1, <2>2 DEF EvalFits, Working, Trying
  <2> QED
    BY <1>1, <1>2, <1>3, <2>1, <2>2, <2>3, EvalGoes, KeptSame DEF Trying
<1>4. CASE RunnerDo(r, [runners[r] EXCEPT !.nr = @ + 1]) /\ UNCHANGED <<camps, attempts>>
  <2> DEFINE v == [runners[r] EXCEPT !.nr = @ + 1]
  <2>1. /\ DOMAIN v = RunnerFields /\ v.pc = "next" /\ v.profile = runners[r].profile /\ v.on = runners[r].on /\ v.code = runners[r].code
        /\ v.nr \in Nat \ {0} /\ RunnerDo(r, v)
    BY <1>2, <1>4 DEF RunnerFields
  <2> HIDE DEF v
  <2>3. IdFits(v, camps[v.on].id, world)
    BY <1>2, <2>1 DEF EvalFits, IdFits, Working
  <2>2. EvalFits(v, camps, world)
    BY <1>2, <2>1, <2>3 DEF EvalFits, Working, Trying
  <2> QED
    BY <1>1, <1>2, <1>4, <2>1, <2>2, EvalGoes, KeptSame DEF Trying
<1>5. CASE RunnerEnds(r) /\ UNCHANGED <<camps, attempts>>
  BY <1>1, <1>5, EvalEnds, KeptSame
<1>6. ASSUME runners[r].nr <= Len(CaseList), camps[on].rows[c] = Nil, runners[r].profile = "varied" => c \notin camps[on].tried,
             Store(r, "tried", camps[on].tried \cup {c}), RunnerGoto(r, "start"),
             attempts' = Put(attempts, <<on, c>>, 1 + IF <<on, c>> \in DOMAIN attempts THEN attempts[<<on, c>>] ELSE 0)
      PROVE  CampIInv' /\ Kept(camps, camps')
  <2>1. runners[r].nr \in DOMAIN CaseList /\ c \in Case
    BY <1>2, <1>6, CampaignAssumption DEF Case
  <2>2. /\ Kept(camps, camps') /\ CampFits(camps'[on]) /\ camps'[on].rows = camps[on].rows
        /\ DOMAIN camps' = DOMAIN camps /\ camps'[on].tried = camps[on].tried \cup {c}
    BY <1>2, <1>6, StoreKeeps, Stored DEF CampFields
  <2>3. PICK v : RunnerDo(r, v) /\ DOMAIN v = RunnerFields /\ v.pc = "start" /\ \A f \in RunnerFields \ {"pc"} : v[f] = runners[r][f]
    BY <1>2, <1>6, EvalGoto
  <2>4. /\ v.profile = runners[r].profile /\ v.on = on /\ v.code = runners[r].code /\ v.nr = runners[r].nr
    BY <2>3 DEF RunnerFields
  <2>5. EvalFits(v, camps', world)
    <3>1. camps'[on].profile = camps[on].profile /\ camps'[on].id = camps[on].id
      BY <1>2, <2>2 DEF Kept
    <3>2. v.profile = camps'[on].profile /\ IdFits(v, camps'[on].id, world) /\ v.nr > 0
      BY <1>2, <2>4, <3>1 DEF EvalFits, IdFits, Working
    <3> QED
      BY <1>2, <1>6, <2>1, <2>2, <2>3, <2>4, <3>2 DEF EvalFits, Trying
  <2>6. Tries'
    BY <1>2, <1>6, <2>2 DEF CampIInv, Tries, Put, Kept
  <2>7. TriedOnce'
    <3> SUFFICES ASSUME NEW x \in DOMAIN attempts', camps'[x[1]].profile = "varied"
                 PROVE  attempts'[x] <= 1
      BY DEF TriedOnce
    <3>1. CASE x = <<on, c>>
      <4>1. camps[on].profile = "varied"
        BY <1>2, <2>2, <3>1 DEF Kept
      <4>2. x \notin DOMAIN attempts
        BY <1>2, <1>6, <3>1, <4>1 DEF CampIInv, Tries
      <4> QED
        BY <1>6, <3>1, <4>2 DEF Put
    <3>2. CASE x # <<on, c>>
      BY <1>6, <2>2, <3>2 DEF CampIInv, Tries, TriedOnce, Put, Kept
    <3> QED
      BY <3>1, <3>2
  <2>8. ASSUME NEW t \in Runner \ {r}
        PROVE  /\ ~SameTry(v, runners[t])
               /\ runners[t].pc \in Trying /\ runners[t].on = on => camps'[on].rows[CaseList[runners[t].nr]] = Nil
    <3>1. runners[t].pc \in Trying => EvalFits(runners[t], camps, world) /\ runners[t] # NoEval
      BY DEF CampIInv, Evaluations, NoEval, Trying
    <3>2. ASSUME SameTry(v, runners[t])
          PROVE  FALSE
      <4>1. runners[t].pc \in Trying /\ runners[t].on = on /\ CaseList[runners[t].nr] = c
        BY <2>4, <3>2 DEF SameTry
      <4>2. c \in camps[on].tried /\ runners[t].profile = camps[on].profile
        BY <3>1, <4>1 DEF EvalFits, Working
      <4>3. runners[r].profile = "e2e" /\ runners[t].profile = "e2e"
        BY <1>2, <1>6, <4>2 DEF CampFits, Profile
      <4> QED
        BY <1>2, <3>1, <4>1, <4>3 DEF CampIInv, OnlyOne
    <3> QED
      BY <2>2, <3>1, <3>2 DEF EvalFits
  <2> QED
    BY <1>1, <1>2, <1>6, <2>2, <2>3, <2>4, <2>5, <2>6, <2>7, <2>8, StoreStep
<1>7. \/ RunnerGoto(r, "score") /\ UNCHANGED <<camps, attempts>>
      \/ RunnerDo(r, [runners[r] EXCEPT !.nr = @ + 1]) /\ UNCHANGED <<camps, attempts>>
      \/ RunnerEnds(r) /\ UNCHANGED <<camps, attempts>>
      \/ /\ runners[r].nr <= Len(CaseList) /\ camps[on].rows[c] = Nil /\ (runners[r].profile = "varied" => c \notin camps[on].tried)
         /\ Store(r, "tried", camps[on].tried \cup {c}) /\ RunnerGoto(r, "start")
         /\ attempts' = Put(attempts, <<on, c>>, 1 + IF <<on, c>> \in DOMAIN attempts THEN attempts[<<on, c>>] ELSE 0)
  <2>1. Len(CaseList) \in Nat
    BY CampaignAssumption
  <2> HIDE DEF on, c
  <2>2. on = runners[r].on /\ c = CaseList[runners[r].nr] /\ Current(r) = c /\ Mine(r) = camps[on]
    BY DEF on, c, Current, Mine
  <2> QED
    BY <1>2, <2>1, <2>2 DEF NextCase, Claims
<1> QED
  BY <1>3, <1>4, <1>5, <1>6, <1>7

\* The row of the case is written by the only one at it.
LEMMA RecordWriteStep == ASSUME CampIInv, NEW r \in Runner, RecordWrite(r) PROVE CampIInv' /\ Kept(camps, camps')
<1> DEFINE on == runners[r].on
           c == CaseList[runners[r].nr]
           rows == [camps[on].rows EXCEPT ![c] = runners[r].row]
           v == [runners[r] EXCEPT !.pc = "next", !.nr = @ + 1, !.row = Nil, !.leg = Nil]
<1>1. RunnerAt(r, "recording") /\ UNCHANGED <<world, attempts>> /\ Store(r, "rows", rows) /\ RunnerDo(r, v)
  BY DEF RecordWrite, Mine, Current
<1>2. /\ runners[r] # NoEval /\ EvalFits(runners[r], camps, world) /\ runners[r].pc = "recording"
      /\ DOMAIN runners[r] = RunnerFields /\ CampFits(camps[on])
  <2>1. /\ runners[r] # NoEval /\ EvalFits(runners[r], camps, world) /\ DOMAIN runners[r] = RunnerFields
        /\ RunnerAt(r, "recording")
    BY <1>1, EvalKnown
  <2>2. runners[r].pc = "recording" /\ on \in DOMAIN camps
    BY <2>1 DEF RunnerAt, EvalFits
  <2>3. CampFits(camps[on])
    BY <2>2 DEF CampIInv, Evaluations
  <2> QED
    BY <2>1, <2>2, <2>3
<1>3. /\ on \in DOMAIN camps /\ runners[r].profile = camps[on].profile /\ IdFits(runners[r], camps[on].id, world)
      /\ runners[r].nr \in DOMAIN CaseList /\ c \in Case /\ camps[on].rows[c] = Nil
      /\ runners[r].row \in CaseRow /\ RowFits(runners[r].row, camps[on].profile, camps[on].id)
      /\ runners[r].nr \in Nat
  BY <1>2 DEF EvalFits, Working, Trying, Case
<1>4. /\ DOMAIN v = RunnerFields /\ v.pc = "next" /\ v.profile = runners[r].profile /\ v.on = on /\ v.code = runners[r].code
      /\ v.nr = runners[r].nr + 1
  BY <1>2 DEF RunnerFields
<1> HIDE DEF v
<1>14. IdFits(v, camps[on].id, world)
  BY <1>3, <1>4 DEF IdFits
<1>5. /\ rows \in [Case -> {Nil} \cup CaseRow] /\ rows[c] = runners[r].row /\ \A k \in Case \ {c} : rows[k] = camps[on].rows[k]
  BY <1>2, <1>3 DEF CampFits
<1> HIDE DEF rows
<1>6. /\ DOMAIN camps' = DOMAIN camps /\ \A i \in DOMAIN camps \ {on} : camps'[i] = camps[i]
      /\ DOMAIN camps'[on] = CampFields /\ camps'[on].rows = rows
      /\ \A g \in CampFields \ {"rows"} : camps'[on][g] = camps[on][g]
  BY <1>1, <1>3, Stored DEF CampFields
<1>7. /\ camps'[on].profile = camps[on].profile /\ camps'[on].id = camps[on].id /\ camps'[on].tried = camps[on].tried
      /\ camps'[on].scores = camps[on].scores
  BY <1>6 DEF CampFields
<1>8. \A k \in Case : camps[on].rows[k] # Nil => rows[k] = camps[on].rows[k]
  BY <1>3, <1>5
<1>9. Kept(camps, camps')
  BY <1>6, <1>7, <1>8 DEF Kept
<1>10. CampFits(camps'[on])
  <2>1. \A k \in Case : rows[k] # Nil => RowFits(rows[k], camps[on].profile, camps[on].id)
    BY <1>2, <1>3, <1>5 DEF CampFits
  <2>2. ~Supported(camps[on])
    BY <1>3 DEF Supported
  <2> QED
    BY <1>2, <1>5, <1>6, <1>7, <2>1, <2>2 DEF CampFits
<1>11. EvalFits(v, camps', world)
  BY <1>2, <1>3, <1>4, <1>6, <1>7, <1>14 DEF EvalFits, Working, Trying
<1>12. Tries' /\ TriedOnce'
  BY <1>1, <1>9 DEF CampIInv, Tries, TriedOnce, Kept
<1>13. ASSUME NEW t \in Runner \ {r}
       PROVE  /\ ~SameTry(v, runners[t])
              /\ runners[t].pc \in Trying /\ runners[t].on = on => camps'[on].rows[CaseList[runners[t].nr]] = Nil
  <2>1. ~SameTry(v, runners[t])
    BY <1>4 DEF SameTry, Trying
  <2>2. ASSUME runners[t].pc \in Trying, runners[t].on = on
        PROVE  camps'[on].rows[CaseList[runners[t].nr]] = Nil
    <3>1. EvalFits(runners[t], camps, world)
      BY <2>2 DEF CampIInv, Evaluations, NoEval, Trying
    <3>2. runners[t].nr \in DOMAIN CaseList /\ camps[on].rows[CaseList[runners[t].nr]] = Nil
      BY <2>2, <3>1 DEF EvalFits
    <3>3. CaseList[runners[t].nr] # c
      BY <1>2, <2>2 DEF CampIInv, OnlyOne, SameTry, Trying
    <3> QED
      BY <1>5, <1>6, <3>2, <3>3 DEF Case
  <2> QED
    BY <2>1, <2>2
<1> QED
  BY <1>1, <1>2, <1>3, <1>4, <1>9, <1>10, <1>11, <1>12, <1>13, StoreStep

\* A document replaces what the file of its scorer is by now.
LEMMA WriteScoresStep == ASSUME CampIInv, NEW r \in Runner, WriteScores(r) PROVE CampIInv' /\ Kept(camps, camps')
<1> DEFINE on == runners[r].on
           s == runners[r].doc.scorer
           scores == Put(camps[on].scores, s,
                         {runners[r].doc.status} \cup IF s \in DOMAIN camps[on].scores THEN camps[on].scores[s] ELSE {})
<1>1. RunnerAt(r, "replace") /\ UNCHANGED <<world, attempts>> /\ RunnerEnds(r) /\ Store(r, "scores", scores)
  BY DEF WriteScores, Mine
<1>2. /\ runners[r] # NoEval /\ EvalFits(runners[r], camps, world) /\ runners[r].pc = "replace"
      /\ DOMAIN runners[r] = RunnerFields /\ CampFits(camps[on])
  <2>1. /\ runners[r] # NoEval /\ EvalFits(runners[r], camps, world) /\ DOMAIN runners[r] = RunnerFields
        /\ RunnerAt(r, "replace")
    BY <1>1, EvalKnown
  <2>2. runners[r].pc = "replace" /\ on \in DOMAIN camps
    BY <2>1 DEF RunnerAt, EvalFits
  <2>3. CampFits(camps[on])
    BY <2>2 DEF CampIInv, Evaluations
  <2> QED
    BY <2>1, <2>2, <2>3
<1>3. on \in DOMAIN camps /\ (runners[r].doc.status = "PASS" => Supported(camps[on]))
  BY <1>2 DEF EvalFits
<1>4. \A z \in DOMAIN scores : "PASS" \in scores[z] =>
        runners[r].doc.status = "PASS" \/ (z \in DOMAIN camps[on].scores /\ "PASS" \in camps[on].scores[z])
  BY DEF Put
<1> HIDE DEF scores
<1>5. /\ DOMAIN camps' = DOMAIN camps /\ \A i \in DOMAIN camps \ {on} : camps'[i] = camps[i]
      /\ DOMAIN camps'[on] = CampFields /\ camps'[on].scores = scores
      /\ \A g \in CampFields \ {"scores"} : camps'[on][g] = camps[on][g]
  BY <1>1, <1>3, Stored DEF CampFields
<1>6. /\ camps'[on].profile = camps[on].profile /\ camps'[on].id = camps[on].id /\ camps'[on].tried = camps[on].tried
      /\ camps'[on].rows = camps[on].rows
  BY <1>5 DEF CampFields
<1>7. Kept(camps, camps')
  BY <1>5, <1>6 DEF Kept
<1>8. CampFits(camps'[on])
  <2>1. ASSUME NEW z \in DOMAIN scores, "PASS" \in scores[z]
        PROVE  Supported(camps[on])
    BY <1>2, <1>3, <1>4, <2>1 DEF CampFits
  <2>2. Supported(camps[on]) => Supported(camps'[on])
    BY <1>6 DEF Supported
  <2>3. /\ camps'[on].profile \in Profile /\ camps'[on].rows \in [Case -> {Nil} \cup CaseRow]
        /\ \A k \in Case : camps'[on].rows[k] # Nil => RowFits(camps'[on].rows[k], camps'[on].profile, camps'[on].id)
    BY <1>2, <1>6 DEF CampFits
  <2> QED
    BY <1>5, <2>1, <2>2, <2>3 DEF CampFits
<1>9. Tries' /\ TriedOnce'
  BY <1>1, <1>7 DEF CampIInv, Tries, TriedOnce, Kept
<1>10. ASSUME NEW t \in Runner \ {r}
      PROVE  /\ ~SameTry(NoEval, runners[t])
             /\ runners[t].pc \in Trying /\ runners[t].on = on => camps'[on].rows[CaseList[runners[t].nr]] = Nil
  BY <1>6 DEF SameTry, NoEval, Trying, CampIInv, Evaluations, EvalFits
<1>11. RunnerDo(r, NoEval)
  BY <1>1 DEF RunnerEnds
<1> QED
  BY <1>1, <1>2, <1>3, <1>7, <1>8, <1>9, <1>10, <1>11, StoreStep

\* A command begins: a run only when no other holds the slot.
LEMMA BeginsStep ==
  ASSUME CampIInv, NEW r \in Runner, NEW v, RunnerDo(r, v), UNCHANGED <<camps, world, attempts>>, EvalFits(v, camps, world),
         v.pc \notin Trying, v.profile = "e2e" => ~SlotHeld
  PROVE  CampIInv'
<1>1. /\ IsSeq(camps) /\ (\A i \in DOMAIN camps : CampFits(camps[i])) /\ Tries /\ TriedOnce
      /\ \A t \in Runner : runners[t] = NoEval \/ EvalFits(runners[t], camps, world)
  BY DEF CampIInv, Evaluations
<1>2. Tries' /\ TriedOnce'
  BY <1>1 DEF Tries, TriedOnce
<1>3. ASSUME NEW t \in Runner \ {r}
      PROVE  /\ v # NoEval /\ v.profile = "e2e" => runners[t] = NoEval \/ runners[t].profile # "e2e"
             /\ ~SameTry(v, runners[t])
             /\ runners[t].pc \in Trying => camps[runners[t].on].rows[CaseList[runners[t].nr]] = Nil
  BY <1>1 DEF SlotHeld, SameTry, EvalFits, NoEval, Trying
<1> QED
  BY <1>1, <1>2, <1>3, KeptSame, EvalStep

LEMMA EvalBeginStep == ASSUME CampIInv, NEW r \in Runner, EvalBegin(r) PROVE CampIInv'
<1>1. UNCHANGED <<camps, world, attempts>>
  BY DEF EvalBegin, StillCamp
<1>2. PICK profile \in Profile : \E on \in 0..Len(camps) :
        /\ profile = "e2e" => ~SlotHeld
        /\ RunnerDo(r, [pc |-> IF on = 0 THEN "create" ELSE "open", profile |-> profile, on |-> on,
                        code |-> world.source, nr |-> 1, leg |-> Nil, row |-> Nil, doc |-> Nil])
  BY DEF EvalBegin
<1>3. PICK on \in 0..Len(camps) :
        /\ profile = "e2e" => ~SlotHeld
        /\ RunnerDo(r, [pc |-> IF on = 0 THEN "create" ELSE "open", profile |-> profile, on |-> on,
                        code |-> world.source, nr |-> 1, leg |-> Nil, row |-> Nil, doc |-> Nil])
  BY <1>2
<1> DEFINE v == [pc |-> IF on = 0 THEN "create" ELSE "open", profile |-> profile, on |-> on,
                 code |-> world.source, nr |-> 1, leg |-> Nil, row |-> Nil, doc |-> Nil]
<1>4. IsSeq(camps) /\ world \in WorldState
  BY DEF CampIInv, Evaluations
<1>5. on # 0 => on \in DOMAIN camps
  BY <1>4 DEF IsSeq
<1>6. DOMAIN v = RunnerFields /\ v.pc \in {"create", "open"} /\ v.profile = profile /\ v.on = on /\ v.code = world.source /\ v.nr = 1
      /\ (v.pc = "open" => on # 0)
  BY DEF RunnerFields
<1>7. RunnerDo(r, v)
  BY <1>3
<1> HIDE DEF v
<1>8. EvalFits(v, camps, world)
  BY <1>4, <1>5, <1>6 DEF EvalFits, Working, Trying, WorldState
<1> QED
  BY <1>1, <1>3, <1>6, <1>7, <1>8, BeginsStep DEF Trying

LEMMA RescoreBeginStep == ASSUME CampIInv, NEW r \in Runner, RescoreBegin(r) PROVE CampIInv'
<1>1. UNCHANGED <<camps, world, attempts>> /\ world \in WorldState
  BY DEF RescoreBegin, StillCamp, CampIInv, Evaluations
<1>2. PICK on \in DOMAIN camps :
        RunnerDo(r, [pc |-> "score", profile |-> "rescore", on |-> on, code |-> world.source, nr |-> 0,
                     leg |-> Nil, row |-> Nil, doc |-> Nil])
  BY DEF RescoreBegin
<1> DEFINE v == [pc |-> "score", profile |-> "rescore", on |-> on, code |-> world.source, nr |-> 0,
                 leg |-> Nil, row |-> Nil, doc |-> Nil]
<1>3. DOMAIN v = RunnerFields /\ v.pc = "score" /\ v.profile = "rescore" /\ v.on = on /\ v.code = world.source /\ v.nr = 0 /\ RunnerDo(r, v)
  BY <1>2 DEF RunnerFields
<1> HIDE DEF v
<1>4. EvalFits(v, camps, world)
  BY <1>1, <1>3 DEF EvalFits, Working, Trying, WorldState
<1> QED
  BY <1>1, <1>3, <1>4, BeginsStep DEF Trying

\* A pin or a source moves: every leg that is under way has seen it.
LEMMA WorldMoves ==
  ASSUME CampIInv, UNCHANGED <<camps, attempts>>, world' \in WorldState, world.pins <= world'.pins,
         runners' = [r \in Runner |->
             IF runners[r] = NoEval \/ runners[r].leg = Nil THEN runners[r]
             ELSE [runners[r] EXCEPT !.leg.under = @ \cup {world'.pins}]]
  PROVE  CampIInv'
<1>1. /\ IsSeq(camps) /\ (\A i \in DOMAIN camps : CampFits(camps[i])) /\ OnlyOne /\ Tries /\ TriedOnce /\ world \in WorldState
      /\ \A t \in Runner : runners[t] = NoEval \/ EvalFits(runners[t], camps, world)
  BY DEF CampIInv, Evaluations
<1>2. ASSUME NEW t \in Runner
      PROVE  /\ runners[t] = NoEval => runners'[t] = NoEval
             /\ runners[t] # NoEval => /\ EvalFits(runners'[t], camps, world') /\ runners'[t].profile = runners[t].profile
                                       /\ runners'[t].pc = runners[t].pc /\ runners'[t].on = runners[t].on
                                       /\ runners'[t].nr = runners[t].nr
  <2>1. CASE runners[t] = NoEval
    BY <2>1
  <2>2. ASSUME runners[t] # NoEval
        PROVE  EvalFits(runners[t], camps, world')
    <3>1. EvalFits(runners[t], camps, world)
      BY <1>1, <2>2
    <3>2. runners[t].pc \in Trying => camps[runners[t].on].rows[CaseList[runners[t].nr]] = Nil
      BY <3>1 DEF EvalFits
    <3> QED
      BY <1>1, <3>1, <3>2, KeptSame, EvalKept
  <2>3. CASE runners[t] # NoEval /\ runners[t].leg = Nil
    BY <2>2, <2>3
  <2>4. CASE runners[t] # NoEval /\ runners[t].leg # Nil
    <3> DEFINE x == runners[t]
               leg == [x.leg EXCEPT !.under = @ \cup {world'.pins}]
               v == [x EXCEPT !.leg = leg]
    <3>1. runners'[t] = v
      BY <2>4
    <3>2. EvalFits(x, camps, world') /\ DOMAIN x = RunnerFields
      BY <2>2, <2>4 DEF EvalFits
    <3>3. /\ DOMAIN v = RunnerFields /\ v.leg = leg /\ v.pc = x.pc /\ v.profile = x.profile /\ v.on = x.on /\ v.code = x.code
          /\ v.nr = x.nr /\ v.row = x.row /\ v.doc = x.doc
      BY <3>2 DEF RunnerFields
    <3> DEFINE id == camps[x.on].id
    <3> HIDE DEF x, v
    <3>4. x.pc = "trial" => LegFits(v, id, world')
      <4> SUFFICES ASSUME x.pc = "trial"
                   PROVE  LegFits(v, id, world')
        OBVIOUS
      <4>1. LegFits(x, id, world') /\ id.pins <= world'.pins /\ id.pins \in {0, 1} /\ world'.pins \in {0, 1}
        BY <3>2 DEF EvalFits, IdFits, Working, Trying, WorldState
      <4>2. DOMAIN leg = {"pins", "under"} /\ leg.under = x.leg.under \cup {world'.pins} /\ leg.pins = x.leg.pins
        BY <4>1 DEF LegFits
      <4> HIDE DEF leg
      <4> QED
        BY <3>3, <4>1, <4>2 DEF LegFits
    <3>6. x.pc \in Working => IdFits(v, id, world')
      BY <3>2, <3>3 DEF EvalFits, IdFits
    <3>5. EvalFits(v, camps, world')
      BY <3>2, <3>3, <3>4, <3>6 DEF EvalFits
    <3> QED
      BY <2>4, <3>1, <3>3, <3>5 DEF x
  <2> QED
    BY <2>1, <2>3, <2>4
<1>3. Evaluations'
  BY <1>1, <1>2 DEF Evaluations
<1>4. OnlyOne'
  BY <1>1, <1>2 DEF OnlyOne, SameTry, Trying, NoEval
<1>5. Tries' /\ TriedOnce'
  BY <1>1 DEF Tries, TriedOnce
<1> QED
  BY <1>3, <1>4, <1>5 DEF CampIInv

\* A trace file is changed: its row keeps all but its hash.
LEMMA TraceChanges ==
  ASSUME CampIInv, UNCHANGED <<world, runners, attempts>>, NEW i \in DOMAIN camps, NEW c \in Case, camps[i].rows[c] # Nil,
         camps' = [camps EXCEPT ![i].rows[c].intact = FALSE]
  PROVE  CampIInv' /\ Kept(camps, camps')
<1> DEFINE x == camps[i]
           row == [x.rows[c] EXCEPT !.intact = FALSE]
           rows == [x.rows EXCEPT ![c] = row]
           e == [x EXCEPT !.rows = rows]
<1>1. /\ IsSeq(camps) /\ (\A j \in DOMAIN camps : CampFits(camps[j])) /\ OnlyOne /\ Tries /\ TriedOnce /\ world \in WorldState
      /\ (\A t \in Runner : runners[t] = NoEval \/ EvalFits(runners[t], camps, world)) /\ DOMAIN runners = Runner
  BY DEF CampIInv, Evaluations
<1>2. camps' = [camps EXCEPT ![i] = e] /\ CampFits(x)
  BY <1>1
<1>3. IsSeq(camps') /\ DOMAIN camps' = DOMAIN camps
  <2> HIDE DEF e
  <2> QED
    BY <1>1, <1>2, SeqExcept
<1>4. camps'[i] = e /\ \A j \in DOMAIN camps \ {i} : camps'[j] = camps[j]
  <2> HIDE DEF e
  <2> QED
    BY <1>2
<1>5. /\ DOMAIN e = CampFields /\ e.rows = rows /\ e.profile = x.profile /\ e.id = x.id /\ e.tried = x.tried
      /\ e.scores = x.scores
  <2> HIDE DEF rows
  <2> QED
    BY <1>2 DEF CampFits, CampFields
<1>6. x.rows[c] \in CaseRow
  BY <1>2 DEF CampFits
<1>7. row \in CaseRow /\ row.status = x.rows[c].status /\ row.trace = x.rows[c].trace /\ row.under = x.rows[c].under
  <2> DEFINE old == x.rows[c]
  <2>1. old \in CaseRow
    BY <1>6
  <2> HIDE DEF old
  <2>2. [old EXCEPT !.intact = FALSE] \in CaseRow
    BY <2>1 DEF CaseRow
  <2>3. LET n == [old EXCEPT !.intact = FALSE] IN n.status = old.status /\ n.trace = old.trace /\ n.under = old.under
    BY <2>1 DEF CaseRow
  <2> QED
    BY <2>2, <2>3 DEF old
<1>8. row # Nil
  BY <1>7, CampaignAssumption
<1> HIDE DEF row
<1>9. rows \in [Case -> {Nil} \cup CaseRow] /\ rows[c] = row /\ \A k \in Case \ {c} : rows[k] = x.rows[k]
  BY <1>2, <1>7 DEF CampFits
<1> HIDE DEF x, e, rows
<1>10. camps[i] = x
  BY DEF x
<1>11. \A k \in Case : /\ rows[k] = Nil <=> x.rows[k] = Nil
                       /\ x.rows[k] # Nil => /\ rows[k].status = x.rows[k].status /\ rows[k].trace = x.rows[k].trace
                                             /\ rows[k].under = x.rows[k].under
  BY <1>7, <1>8, <1>9, <1>10
<1>12. Kept(camps, camps')
  <2> SUFFICES ASSUME NEW j \in DOMAIN camps
               PROVE  /\ j \in DOMAIN camps' /\ camps'[j].profile = camps[j].profile /\ camps'[j].id = camps[j].id
                      /\ camps[j].tried \subseteq camps'[j].tried
                      /\ \A k \in Case : camps[j].rows[k] # Nil => /\ camps'[j].rows[k] # Nil
                                                                 /\ camps'[j].rows[k].status = camps[j].rows[k].status
                                                                 /\ camps'[j].rows[k].trace = camps[j].rows[k].trace
    BY DEF Kept
  <2>1. CASE j # i
    BY <1>3, <1>4, <2>1
  <2>2. CASE j = i
    <3>1. camps'[j] = e /\ camps[j] = x
      BY <1>4, <1>10, <2>2
    <3>2. e.rows = rows /\ e.profile = x.profile /\ e.id = x.id /\ e.tried = x.tried /\ e.scores = x.scores
      BY <1>5
    <3>3. \A k \in Case : x.rows[k] # Nil => /\ rows[k] # Nil /\ rows[k].status = x.rows[k].status
                                             /\ rows[k].trace = x.rows[k].trace
      BY <1>11
    <3>4. /\ j \in DOMAIN camps' /\ camps[j].tried \subseteq camps'[j].tried
          /\ camps'[j].profile = camps[j].profile /\ camps'[j].id = camps[j].id
          /\ camps'[j].rows = rows /\ camps[j].rows = x.rows
      BY <1>3, <3>1, <3>2
    <3> QED
      BY ONLY <3>3, <3>4, SMT
  <2> QED
    BY <2>1, <2>2
<1>13. CampFits(e)
  <2>1. \A k \in Case : rows[k] # Nil => RowFits(rows[k], x.profile, x.id)
    BY <1>2, <1>11 DEF CampFits, RowFits
  <2>2. Supported(x) => Supported(e)
    BY <1>5, <1>11 DEF Supported
  <2> QED
    BY <1>2, <1>5, <1>9, <2>1, <2>2 DEF CampFits
<1>14. ASSUME NEW t \in Runner
       PROVE  runners[t] = NoEval \/ EvalFits(runners[t], camps', world)
  <2>1. CASE runners[t] = NoEval
    BY <2>1
  <2>2. CASE EvalFits(runners[t], camps, world)
    <3>1. runners[t].pc \in Trying => camps'[runners[t].on].rows[CaseList[runners[t].nr]] = Nil
      <4> SUFFICES ASSUME runners[t].pc \in Trying
                   PROVE  camps'[runners[t].on].rows[CaseList[runners[t].nr]] = Nil
        OBVIOUS
      <4>1. /\ runners[t].on \in DOMAIN camps /\ camps[runners[t].on].rows[CaseList[runners[t].nr]] = Nil
            /\ CaseList[runners[t].nr] \in Case
        BY <2>2 DEF EvalFits, Trying, Case
      <4> QED
        BY <1>4, <1>5, <1>10, <1>11, <4>1
    <3> QED
      <4>1. world \in WorldState /\ world.pins <= world.pins
        BY <1>1 DEF WorldState
      <4> QED
        BY <1>12, <2>2, <3>1, <4>1, EvalKept
  <2> QED
    BY <1>1, <2>1, <2>2
<1>15. Evaluations'
  BY <1>1, <1>3, <1>4, <1>13, <1>14 DEF Evaluations
<1>16. Tries' /\ TriedOnce'
  BY <1>1, <1>12 DEF Tries, TriedOnce, Kept
<1>17. OnlyOne'
  BY <1>1 DEF OnlyOne, SameTry
<1> QED
  BY <1>12, <1>15, <1>16, <1>17 DEF CampIInv

LEMMA CampWorldStep == ASSUME CampIInv, CampWorld PROVE CampIInv' /\ Kept(camps, camps')
<1>1. world \in WorldState
  BY DEF CampIInv, Evaluations
<1>2. CASE UNCHANGED camps
  <2>1. /\ \/ world.pins = 0 /\ world' = [world EXCEPT !.pins = 1]
           \/ world.omp = 0 /\ world' = [world EXCEPT !.omp = 1]
           \/ world.source + 1 \in DOMAIN CaseGrader /\ world' = [world EXCEPT !.source = @ + 1]
        /\ runners' = [r \in Runner |->
             IF runners[r] = NoEval \/ runners[r].leg = Nil THEN runners[r]
             ELSE [runners[r] EXCEPT !.leg.under = @ \cup {world'.pins}]]
        /\ UNCHANGED <<camps, attempts>>
     \/ \E i \in DOMAIN camps, c \in Case :
          camps[i].rows[c] # Nil /\ camps' = [camps EXCEPT ![i].rows[c].intact = FALSE] /\ UNCHANGED <<world, runners, attempts>>
    BY DEF CampWorld
  <2>2. ASSUME world.pins = 0 /\ world' = [world EXCEPT !.pins = 1]
        PROVE  world' \in WorldState /\ world.pins <= world'.pins
    BY <1>1, <2>2 DEF WorldState
  <2>4. ASSUME world' = [world EXCEPT !.omp = 1]
        PROVE  world' \in WorldState /\ world.pins <= world'.pins
    BY <1>1, <2>4 DEF WorldState
  <2>3. ASSUME world.source + 1 \in DOMAIN CaseGrader, world' = [world EXCEPT !.source = @ + 1]
        PROVE  world' \in WorldState /\ world.pins <= world'.pins
    BY <1>1, <2>3 DEF WorldState
  <2> QED
    BY <2>1, <2>2, <2>3, <2>4, WorldMoves, TraceChanges, KeptSame
<1>3. CASE ~UNCHANGED camps
  <2>1. PICK i \in DOMAIN camps, c \in Case :
          camps[i].rows[c] # Nil /\ camps' = [camps EXCEPT ![i].rows[c].intact = FALSE] /\ UNCHANGED <<world, runners, attempts>>
    BY <1>3 DEF CampWorld
  <2> QED
    BY <2>1, TraceChanges
<1> QED
  BY <1>2, <1>3

LEMMA CampStillInv == ASSUME CampIInv, UNCHANGED campVars PROVE CampIInv'
BY DEF campVars, CampIInv, Evaluations, OnlyOne, SameTry, Tries, TriedOnce

LEMMA CampNextInv == ASSUME CampIInv, [Next]_vars PROVE CampIInv' /\ Kept(camps, camps')
<1>1. CASE UNCHANGED campVars
  BY <1>1, CampStillInv, KeptSame DEF campVars
<1>2. ASSUME NEW r \in Runner,
             \/ EvalBegin(r) \/ RescoreBegin(r) \/ Resume(r) \/ LegBegins(r) \/ Trial(r)
             \/ RecordCheck(r) \/ Score(r) \/ LookForScore(r) \/ EvalKill(r)
      PROVE  CampIInv' /\ UNCHANGED camps
  <2>1. CampIInv'
    BY <1>2, EvalBeginStep, RescoreBeginStep, ResumeStep, LegStep2, TrialStep, RecordCheckStep, ScoreStep, LookStep2, EvalKillStep
  <2>2. UNCHANGED camps
    BY <1>2 DEF EvalBegin, RescoreBegin, Resume, LegBegins, Trial, RecordCheck, Score, LookForScore, EvalKill, StillCamp
  <2> QED
    BY <2>1, <2>2
<1>3. ASSUME NEW r \in Runner, Create(r) \/ NextCase(r) \/ RecordWrite(r) \/ WriteScores(r)
      PROVE  CampIInv' /\ Kept(camps, camps')
  BY <1>3, CreateStep, NextCaseStep, RecordWriteStep, WriteScoresStep
<1>4. CASE CampWorld
  BY <1>4, CampWorldStep
<1>5. CASE CampNext
  BY <1>2, <1>3, <1>4, <1>5, KeptSame DEF CampNext
<1> QED
  BY <1>1, <1>5, OnlyCampaign

\* What the two processes of a campaign know of its files, pins and trials at each
\* place of create, resume, try and score.
THEOREM CampInvariant == Spec => []CampIInv
BY CampInitInv, CampNextInv, PTL DEF Spec

\* What a campaign tells stands, for any cases, graders, pins that move and kills: no case
\* of a varied one is tried twice, what it graded was measured under the pins it compares
\* from end to end, and a score of PASS has an outcome of each case, in a varied one a pass.
THEOREM Stands == Spec => []CampaignStands
<1>1. CampIInv => CampaignStands
  BY DEF CampIInv, Evaluations, CampFits, RowFits, Supported, CampaignStands, GradedUnderPins, PassIsRecorded
<1> QED
  BY <1>1, CampInvariant, PTL

\* The outcome and the trace recorded of a case stay, though two commands may have
\* looked for its record before either wrote it.
THEOREM OutcomesStay == Spec => [][KeepsOutcomes]_vars
<1>1. ASSUME Kept(camps, camps')
      PROVE  KeepsOutcomes
  BY <1>1 DEF Kept, KeepsOutcomes
<1>2. CampIInv /\ [Next]_vars => KeepsOutcomes
  BY <1>1, CampNextInv
<1> QED
  BY <1>2, CampInvariant, PTL DEF Spec

(***************************************************************************)
(* Run plans: receipts are merged into the checkout once.                  *)
(***************************************************************************)
\* The counts of what happened are numbers.
Numbered == used \in [run : Nat, edit : Nat, upset : Nat]

\* A result that the proof of job did not write is what the pinned commit had of it.
PlanFits ==
  /\ DOMAIN job = {"pc", "id", "execute", "prior", "todo"} /\ job.pc \in {"export", "prove", "persist", "clean"} /\ job.id \in Int
  /\ job.pc = "export" => export = Nil
  /\ job.pc = "clean" /\ export # Nil => \A n \in Result : export.files[n] \in {Nil, root[n]} \/ <<export.files[n], n>> \in lost
  /\ job.pc \in {"prove", "persist"} =>
       /\ export \in [pin : [Receipt -> Writer], files : [Result -> Writer]]
       /\ \A n \in Receipt : job.prior[n] \in {Nil, root[n]}
       /\ \A n \in Result : export.files[n] \in {Nil, job.id} \/ (n \in Receipt /\ export.files[n] = job.prior[n])
  /\ job.pc = "persist" => job.todo \subseteq Result /\ \A n \in Result \ job.todo : export.files[n] \in {Nil, root[n]}

PlanIInv ==
  /\ root \in [Result -> Writer] /\ head \in [Receipt -> Writer] /\ \A n \in Receipt : head[n] \in {Nil, root[n]}
  /\ tool = "plan" => Numbered /\ (job # Nil => PlanFits)

LEMMA CountNumbers == ASSUME Numbered, NEW kind, Count(kind) PROVE Numbered'
BY DEF Numbered, Count

LEMMA PlanInitInv == Init => PlanIInv
BY DEF Init, JobInit, PlanInit, PlanIInv, Numbered, Nothing, Result, Writer

LEMMA OnlyPlan ==
  ASSUME [Next]_vars
  PROVE  /\ UNCHANGED tool
         /\ tool = "plan" => PlanNext \/ UNCHANGED <<planVars, jobVars>>
         /\ tool # "plan" => UNCHANGED planVars
BY DEF Next, BenchNext, benchVars, vars, planVars, jobVars

\* A step of a command that leaves the checkout and its commit alone.
LEMMA PlanCalm ==
  ASSUME PlanIInv, tool = "plan", UNCHANGED <<head, root, tool>>, job' # Nil => PlanFits',
         UNCHANGED used \/ (\E kind : Count(kind))
  PROVE  PlanIInv'
BY CountNumbers DEF PlanIInv, Numbered

LEMMA PlanRunStep ==
  ASSUME PlanIInv, tool = "plan", UNCHANGED tool,
         PlanBegin \/ PlanExport \/ PlanProve \/ PlanTimeout \/ PlanClean \/ PlanKill
  PROVE  PlanIInv' /\ KeepsResults
<1>1. CASE PlanBegin
  <2>1. PICK execute \in BOOLEAN :
          Begin([pc |-> "export", id |-> used.run + 1, execute |-> execute, prior |-> Nil, todo |-> {}])
    BY <1>1 DEF PlanBegin
  <2>2. used.run \in Nat
    BY DEF PlanIInv, Numbered
  <2>3. PlanFits'
    BY <1>1, <2>1, <2>2 DEF PlanBegin, Begin, planVars, PlanFits
  <2> QED
    BY <1>1, <2>1, <2>3, PlanCalm DEF PlanBegin, Begin, planVars, KeepsResults
<1>2. CASE PlanExport
  <2>1. job # Nil /\ job.pc = "export" /\ PlanFits /\ UNCHANGED <<head, root, lost>>
    BY <1>2 DEF PlanExport, At, In, PlanIInv
  <2>2. CASE /\ export' = [pin |-> head, files |-> [n \in Result |-> IF n \in Receipt THEN head[n] ELSE Nil]]
             /\ Set("prior", head, IF job.execute THEN "prove" ELSE "clean")
    <3>1. /\ DOMAIN job' = DOMAIN job /\ job'.prior = head /\ job'.pc \in {"prove", "clean"} /\ job'.id = job.id
      BY <2>1, <2>2 DEF Set, PlanFits
    <3>2. /\ export' \in [pin : [Receipt -> Writer], files : [Result -> Writer]]
          /\ \A n \in Result : export'.files[n] = IF n \in Receipt THEN head[n] ELSE Nil
      BY <2>2 DEF PlanIInv, Writer
    <3>3. \A n \in Receipt : head[n] \in {Nil, root[n]}
      BY DEF PlanIInv
    <3>4. PlanFits'
      BY <2>1, <3>1, <3>2, <3>3 DEF PlanFits, Result
    <3> QED
      BY <2>1, <2>2, <3>4, PlanCalm DEF KeepsResults, PlanFits, Set
  <2>3. CASE Fails("clean") /\ UNCHANGED export
    BY <2>1, <2>3, PlanCalm DEF Fails, Upset, PlanFits, KeepsResults
  <2> QED
    BY <1>2, <2>2, <2>3 DEF PlanExport
<1>3. CASE PlanProve
  <2>1. job # Nil /\ job.pc = "prove" /\ PlanFits /\ UNCHANGED <<head, root, lost>>
    BY <1>3 DEF PlanProve, At, In, PlanIInv
  <2>2. CASE \E n \in Result : export' = [export EXCEPT !.files[n] = job.id] /\ UNCHANGED job
    <3>1. PICK n \in Result : export' = [export EXCEPT !.files[n] = job.id]
      BY <2>2
    <3>2. /\ export' \in [pin : [Receipt -> Writer], files : [Result -> Writer]]
          /\ \A m \in Result : export'.files[m] = IF m = n THEN job.id ELSE export.files[m]
      BY <2>1, <3>1 DEF PlanFits, Writer
    <3>3. PlanFits'
      BY <2>1, <2>2, <3>2 DEF PlanFits
    <3> QED
      BY <1>3, <2>1, <2>2, <3>2, <3>3, PlanCalm, PlanAssumption DEF KeepsResults, PlanProve
  <2>3. CASE job' = [job EXCEPT !.pc = "persist", !.todo = Result] /\ UNCHANGED export
    BY <1>3, <2>1, <2>3, PlanCalm DEF PlanFits, KeepsResults, PlanProve
  <2> QED
    BY <1>3, <2>2, <2>3 DEF PlanProve
<1>4. CASE PlanTimeout
  <2>1. job # Nil /\ job.pc = "prove" /\ PlanFits /\ UNCHANGED <<head, root, export>> /\ lost' = lost \cup ({job.id} \X Result)
        /\ job' = [job EXCEPT !.pc = "clean"] /\ Count("upset")
    BY <1>4 DEF PlanTimeout, At, In, PlanIInv, Fails, Upset, GivenUp
  <2>2. DOMAIN job' = DOMAIN job /\ job'.pc = "clean"
    BY <2>1 DEF PlanFits
  <2>3. \A n \in Result : export.files[n] \in {Nil, root[n]} \/ <<export.files[n], n>> \in lost'
    BY <2>1 DEF PlanFits
  <2>4. PlanFits'
    BY <2>1, <2>2, <2>3 DEF PlanFits
  <2> QED
    BY <2>1, <2>4, PlanCalm DEF KeepsResults
<1>5. CASE PlanKill
  BY <1>5, PlanCalm DEF PlanKill, Finish, Stops, Upset, planVars, KeepsResults
<1>6. CASE PlanClean
  <2>1. job # Nil /\ PlanFits /\ (job.pc = "clean" \/ (job.pc = "persist" /\ job.todo = {}))
    BY <1>6 DEF PlanClean, In, PlanIInv
  <2>2. export # Nil => \A n \in Result : export.files[n] \in {Nil, root[n]} \/ <<export.files[n], n>> \in lost
    BY <2>1 DEF PlanFits
  <2> QED
    BY <1>6, <2>2, PlanCalm DEF PlanClean, Finish, KeepsResults
<1> QED
  BY <1>1, <1>2, <1>3, <1>4, <1>5, <1>6

\* A result is copied where there is none, or where it is the same.
LEMMA PlanPersistStep == ASSUME PlanIInv, tool = "plan", UNCHANGED tool, PlanPersist PROVE PlanIInv' /\ KeepsResults
<1>1. job # Nil /\ job.pc = "persist" /\ PlanFits /\ UNCHANGED <<used, head, export, lost>>
  BY DEF PlanPersist, At, In, PlanIInv
<1>2. PICK n \in job.todo : /\ ~(New(n) /\ Clash(n))
                            /\ root' = IF New(n) THEN [root EXCEPT ![n] = export.files[n]] ELSE root
                            /\ job' = [job EXCEPT !.todo = @ \ {n}]
  BY DEF PlanPersist
<1>3. DOMAIN job' = DOMAIN job /\ job'.pc = "persist" /\ job'.todo = job.todo \ {n} /\ job'.prior = job.prior /\ job'.id = job.id
  BY <1>1, <1>2 DEF PlanFits
<1>4. n \in Result /\ root \in [Result -> Writer]
  BY <1>1 DEF PlanFits, PlanIInv
<1>5. root' \in [Result -> Writer] /\ \A m \in Result : root[m] # Nil => root'[m] = root[m]
  BY <1>1, <1>2, <1>4 DEF New, Clash, PlanFits
<1>6. export.files[n] \in {Nil, root'[n]}
  <2>1. CASE New(n)
    BY <1>2, <1>4, <2>1
  <2>2. CASE ~New(n)
    BY <1>1, <1>2, <1>4, <2>2 DEF New, PlanFits
  <2> QED
    BY <2>1, <2>2
<1>7. PlanFits'
  BY <1>1, <1>3, <1>5, <1>6 DEF PlanFits, Result
<1> QED
  BY <1>1, <1>5, <1>7 DEF PlanIInv, Numbered, KeepsResults, Result

\* The copies break off: a part is left at most where there was nothing.
LEMMA BrokenOff ==
  ASSUME PlanIInv, PlanFits, job.pc = "persist", BreaksOff
  PROVE  root' \in [Result -> Writer] /\ \A n \in Result : root[n] # Nil => root'[n] = root[n]
<1>1. root \in [Result -> Writer] /\ job.todo \subseteq Result
  BY DEF PlanIInv, PlanFits
<1>2. CASE UNCHANGED root
  BY <1>1, <1>2
<1>3. CASE \E n \in job.todo : root[n] = Nil /\ root' = [root EXCEPT ![n] = Part]
  BY <1>1, <1>3 DEF Part, Writer
<1> QED
  BY <1>2, <1>3 DEF BreaksOff

LEMMA PlanBreakStep == ASSUME PlanIInv, tool = "plan", UNCHANGED tool, PlanPreserve \/ PlanInterrupt PROVE PlanIInv' /\ KeepsResults
<1>1. job # Nil /\ job.pc = "persist" /\ PlanFits /\ UNCHANGED <<head, export>> /\ (UNCHANGED used \/ Count("upset"))
  BY DEF PlanPreserve, PlanInterrupt, At, In, PlanIInv, Finish, Stops, Fails, Upset
<1>2. root' \in [Result -> Writer] /\ \A n \in Result : root[n] # Nil => root'[n] = root[n]
  BY <1>1, BrokenOff DEF PlanPreserve, PlanInterrupt, PlanIInv
<1>3. \A n \in Receipt : head[n] \in {Nil, root'[n]}
  BY <1>2 DEF PlanIInv, Result
<1>4. Numbered'
  BY <1>1, CountNumbers DEF PlanIInv, Numbered
<1>5. ASSUME job' # Nil
      PROVE  PlanFits'
  <2>1. job' = [job EXCEPT !.pc = "clean"] /\ lost' = lost \cup ({job.id} \X job.todo)
    BY <1>5 DEF PlanPreserve, PlanInterrupt, Finish, Stops, Fails, GivenUp
  <2>2. DOMAIN job' = DOMAIN job /\ job'.pc = "clean" /\ job'.id = job.id
    BY <1>1, <2>1 DEF PlanFits
  <2>3. ASSUME NEW n \in Result
        PROVE  export.files[n] \in {Nil, root'[n]} \/ <<export.files[n], n>> \in lost'
    <3>1. CASE n \notin job.todo
      BY <1>1, <1>2, <3>1 DEF PlanFits
    <3>2. CASE n \in job.todo /\ export.files[n] = job.id
      BY <2>1, <3>2
    <3>3. CASE n \in Receipt /\ export.files[n] = job.prior[n]
      BY <1>1, <1>2, <3>3 DEF PlanFits
    <3> QED
      BY <1>1, <3>1, <3>2, <3>3 DEF PlanFits
  <2> QED
    BY <1>1, <2>2, <2>3 DEF PlanFits
<1> QED
  BY <1>1, <1>2, <1>3, <1>4, <1>5 DEF PlanIInv, KeepsResults

\* Others write where there is nothing, commit what there is, and tidy up.
LEMMA PlanOthersStep == ASSUME PlanIInv, tool = "plan", UNCHANGED tool, PlanOthers PROVE PlanIInv' /\ KeepsResults
<1>1. CASE ByOthers /\ UNCHANGED <<job, head, export, lost>> /\ \E n \in Result : root[n] = Nil /\ root' = [root EXCEPT ![n] = 0 - used.edit - 1]
  <2>1. PICK n \in Result : root[n] = Nil /\ root' = [root EXCEPT ![n] = 0 - used.edit - 1]
    BY <1>1
  <2>2. root' \in [Result -> Writer] /\ \A m \in Result : root[m] # Nil => root'[m] = root[m]
    BY <2>1 DEF PlanIInv, Numbered, Writer
  <2>3. PlanFits => PlanFits'
    BY <1>1, <2>2 DEF PlanFits, Result
  <2> QED
    BY <1>1, <2>2, <2>3, CountNumbers DEF PlanIInv, KeepsResults, Result, ByOthers
<1>2. CASE head' = [n \in Receipt |-> root[n]] /\ UNCHANGED <<jobVars, root, export, lost>>
  <2>1. PlanFits => PlanFits'
    BY <1>2 DEF PlanFits, jobVars
  <2> QED
    BY <1>2, <2>1 DEF PlanIInv, KeepsResults, Result, Numbered, jobVars
<1>3. CASE job = Nil /\ UNCHANGED jobVars /\ lost' = lost \cup {<<export.files[n], n>> : n \in Result} /\ UNCHANGED <<head, root>>
  BY <1>3, PlanCalm DEF KeepsResults, jobVars
<1> QED
  BY <1>1, <1>2, <1>3 DEF PlanOthers, jobVars

LEMMA PlanNextInv == ASSUME PlanIInv, [Next]_vars PROVE PlanIInv' /\ KeepsResults
<1>1. UNCHANGED tool
  BY OnlyPlan
<1>2. CASE tool = "plan" /\ PlanNext
  BY <1>1, <1>2, PlanRunStep, PlanPersistStep, PlanBreakStep, PlanOthersStep DEF PlanNext
<1>3. CASE UNCHANGED planVars /\ (tool = "plan" => UNCHANGED jobVars)
  <2>1. tool = "plan" => Numbered' /\ (job # Nil => PlanFits')
    BY <1>3 DEF PlanIInv, PlanFits, Numbered, planVars, jobVars
  <2> QED
    BY <1>1, <1>3, <2>1 DEF PlanIInv, KeepsResults, planVars, jobVars
<1> QED
  BY <1>2, <1>3, OnlyPlan

\* A run of the plan copies what its own export and proof made, and copies no
\* artifact over one that is there.
THEOREM PlanInvariant == Spec => []PlanIInv
BY PlanInitInv, PlanNextInv, PTL DEF Spec

(***************************************************************************)
(* Profiles of the command line: their records only grow.                  *)
(***************************************************************************)
JobFields == {"pc", "id", "spec", "at", "rows"}

\* The samples of one run.
OfOneRun(rows) == \A k \in 1..Samples : rows[k] = rows[1]

\* The records of the directory are of its manifest's profile.
RecordsFit ==
  /\ DOMAIN rundir = {"manifest", "records"} /\ DOMAIN rundir.records = 1..Commands
  /\ \A i \in 1..Commands : rundir.records[i] # Nil =>
       Whole(rundir.records[i], rundir.manifest.spec) /\ OfOneRun(rundir.records[i].rows)

ProfileFits ==
  /\ DOMAIN job = JobFields /\ job.pc \in {"mkdir", "manifest", "next", "sample"} /\ job.id \in Nat
  /\ job.pc = "mkdir" => rundir = Nil
  /\ job.pc # "mkdir" => RecordsFit
  /\ job.pc = "manifest" => rundir.records = NoRecords
  /\ job.pc \in {"next", "sample"} => rundir.manifest.spec = job.spec /\ DOMAIN rundir.manifest = {"spec", "status"}
  /\ job.pc = "sample" => job.at \in 1..Commands /\ rundir.records[job.at] = Nil /\ job.rows \in Seq({job.id})

ProfileIInv ==
  tool = "profile" =>
    /\ Numbered /\ (rundir # Nil => RecordsFit)
    /\ rundir # Nil /\ rundir.manifest # Nil => DOMAIN rundir.manifest = {"spec", "status"}
    /\ job # Nil => ProfileFits

LEMMA OnlyProfile ==
  ASSUME [Next]_vars
  PROVE  /\ UNCHANGED tool
         /\ tool = "profile" => ProfileTool \/ UNCHANGED <<profileVars, jobVars>>
         /\ tool # "profile" => UNCHANGED profileVars
BY DEF Next, BenchNext, benchVars, vars, profileVars, jobVars

LEMMA ProfileInitInv == Init => ProfileIInv
BY DEF Init, JobInit, ProfileInit, ProfileIInv, Numbered

\* A step that leaves the directory alone.
LEMMA ProfileCalm ==
  ASSUME ProfileIInv, tool = "profile", UNCHANGED <<tool, rundir>>, job' # Nil => ProfileFits',
         UNCHANGED used \/ (\E kind : Count(kind))
  PROVE  ProfileIInv' /\ KeepsRecords
<1>1. Numbered'
  BY CountNumbers DEF ProfileIInv, Numbered
<1>2. (rundir # Nil => RecordsFit) => (rundir # Nil => RecordsFit)'
  BY DEF RecordsFit
<1> QED
  BY <1>1, <1>2 DEF ProfileIInv, KeepsRecords

\* A step that saves in the directory of records of one profile.
LEMMA ProfileSaves ==
  ASSUME ProfileIInv, tool = "profile", UNCHANGED <<tool, used>>, RecordsFit', job' # Nil => ProfileFits',
         DOMAIN rundir'.manifest = {"spec", "status"},
         rundir # Nil => /\ \A i \in 1..Commands : rundir.records[i] # Nil => rundir'.records[i] = rundir.records[i]
                         /\ rundir'.manifest # rundir.manifest /\ rundir'.manifest.status = "complete" =>
                              \A i \in 1..Commands : rundir'.records[i] # Nil
  PROVE  ProfileIInv' /\ KeepsRecords
<1>1. Numbered'
  BY DEF ProfileIInv, Numbered
<1>2. \A i \in 1..Commands : rundir'.records[i] # Nil =>
         /\ Whole(rundir'.records[i], rundir'.manifest.spec)
         /\ \A k \in 1..Samples : rundir'.records[i].rows[k] = rundir'.records[i].rows[1]
  BY DEF RecordsFit, OfOneRun
<1> QED
  BY <1>1, <1>2 DEF ProfileIInv, KeepsRecords

LEMMA ProfileRunStep ==
  ASSUME ProfileIInv, tool = "profile", UNCHANGED tool,
         ProfileBegin \/ ProfileMkdir \/ ProfileManifest \/ ProfileNext \/ ProfileReport \/ ProfileStops
  PROVE  ProfileIInv' /\ KeepsRecords
<1>1. CASE ProfileBegin
  <2>1. PICK resume \in BOOLEAN :
          /\ IF resume THEN rundir # Nil /\ rundir.manifest # Nil /\ rundir.manifest.spec = spec
                       ELSE rundir = Nil
          /\ job' = [pc |-> IF resume THEN "next" ELSE "mkdir", id |-> used.run + 1, spec |-> spec, at |-> 1, rows |-> <<>>]
          /\ Count("run") /\ UNCHANGED <<spec, rundir>>
    BY <1>1 DEF ProfileBegin, Begin, profileVars
  <2>2. Numbered /\ used.run \in Nat
    BY DEF ProfileIInv, Numbered
  <2>3. /\ DOMAIN job' = JobFields /\ job'.pc = (IF resume THEN "next" ELSE "mkdir") /\ job'.id \in Nat /\ job'.spec = spec
    BY <2>1, <2>2 DEF JobFields
  <2>4. rundir # Nil => RecordsFit'
    BY <2>1 DEF ProfileIInv, RecordsFit
  <2>5. ProfileFits'
    BY <2>1, <2>3, <2>4 DEF ProfileFits, ProfileIInv
  <2> QED
    BY <2>1, <2>5, ProfileCalm
<1>2. CASE ProfileMkdir
  <2>1. job # Nil /\ job.pc = "mkdir" /\ ProfileFits /\ rundir = Nil /\ rundir' = [manifest |-> Nil, records |-> NoRecords]
        /\ Goto("manifest")
    BY <1>2 DEF ProfileMkdir, At, In, ProfileIInv, ProfileFits
  <2>2. DOMAIN job' = JobFields /\ job'.pc = "manifest" /\ job'.id = job.id /\ UNCHANGED used
    BY <2>1 DEF Goto, ProfileFits, JobFields
  <2>3. RecordsFit' /\ rundir'.records = NoRecords /\ rundir'.manifest = Nil
    BY <2>1 DEF RecordsFit, NoRecords
  <2>4. ProfileFits'
    BY <2>1, <2>2, <2>3 DEF ProfileFits
  <2> QED
    BY <2>1, <2>2, <2>3, <2>4 DEF ProfileIInv, KeepsRecords, Numbered
<1>3. CASE ProfileManifest
  <2>1. job # Nil /\ job.pc = "manifest" /\ ProfileFits /\ RecordsFit /\ rundir.records = NoRecords
        /\ rundir' = [rundir EXCEPT !.manifest = [spec |-> job.spec, status |-> "running"]] /\ Goto("next")
    BY <1>3 DEF ProfileManifest, At, In, ProfileIInv, ProfileFits
  <2>2. DOMAIN job' = JobFields /\ job'.pc = "next" /\ job'.id = job.id /\ job'.spec = job.spec /\ UNCHANGED used
    BY <2>1 DEF Goto, ProfileFits, JobFields
  <2>3. /\ DOMAIN rundir' = {"manifest", "records"} /\ rundir'.records = NoRecords
        /\ rundir'.manifest = [spec |-> job.spec, status |-> "running"]
    BY <2>1 DEF RecordsFit
  <2>4. \A i \in 1..Commands : NoRecords[i] = Nil
    BY DEF NoRecords
  <2>5. RecordsFit'
    BY <2>3, <2>4 DEF RecordsFit, NoRecords
  <2>6. ProfileFits'
    BY <2>1, <2>2, <2>3, <2>5 DEF ProfileFits
  <2> QED
    BY <2>1, <2>2, <2>3, <2>4, <2>5, <2>6, ProfileSaves
<1>4. CASE ProfileNext
  <2>1. job # Nil /\ job.pc = "next" /\ ProfileFits /\ RecordsFit /\ job.at \in 1..Commands /\ UNCHANGED <<used, rundir>>
    BY <1>4 DEF ProfileNext, At, In, ProfileIInv, ProfileFits
  <2>2. RecordsFit'
    BY <2>1 DEF RecordsFit
  <2>3. CASE rundir.records[job.at] = Nil /\ job' = [job EXCEPT !.rows = <<>>, !.pc = "sample"]
    <3>1. DOMAIN job' = JobFields /\ job'.pc = "sample" /\ job'.id = job.id /\ job'.spec = job.spec /\ job'.at = job.at
          /\ job'.rows = <<>>
      BY <2>1, <2>3 DEF ProfileFits, JobFields
    <3>2. ProfileFits'
      BY <2>1, <2>2, <2>3, <3>1 DEF ProfileFits
    <3> QED
      BY <2>1, <3>2, ProfileCalm
  <2>4. CASE job' = [job EXCEPT !.at = @ + 1]
    <3>1. DOMAIN job' = JobFields /\ job'.pc = "next" /\ job'.id = job.id /\ job'.spec = job.spec
      BY <2>1, <2>4 DEF ProfileFits, JobFields
    <3>2. ProfileFits'
      BY <2>1, <2>2, <3>1 DEF ProfileFits
    <3> QED
      BY <2>1, <3>2, ProfileCalm
  <2>5. CASE job' = Nil
    BY <2>1, <2>5, ProfileCalm
  <2> QED
    BY <1>4, <2>3, <2>4, <2>5 DEF ProfileNext
<1>5. CASE ProfileReport
  <2> DEFINE status == IF \A i \in 1..Commands : rundir.records[i] # Nil THEN "complete" ELSE "incomplete"
  <2>1. job # Nil /\ job.pc = "next" /\ ProfileFits /\ RecordsFit /\ job' = Nil /\ UNCHANGED used
        /\ rundir' = [rundir EXCEPT !.manifest.status = status] /\ DOMAIN rundir.manifest = {"spec", "status"}
    BY <1>5 DEF ProfileReport, At, In, ProfileIInv, ProfileFits, Finish
  <2>2. status = "complete" => \A i \in 1..Commands : rundir.records[i] # Nil
    OBVIOUS
  <2> HIDE DEF status
  <2>3. /\ DOMAIN rundir' = {"manifest", "records"} /\ rundir'.records = rundir.records
        /\ DOMAIN rundir'.manifest = {"spec", "status"} /\ rundir'.manifest.spec = rundir.manifest.spec
        /\ rundir'.manifest.status = status
    BY <2>1 DEF RecordsFit
  <2>4. RecordsFit'
    BY <2>1, <2>3 DEF RecordsFit
  <2> QED
    BY <2>1, <2>2, <2>3, <2>4, ProfileSaves
<1>6. CASE ProfileStops
  BY <1>6, ProfileCalm DEF ProfileStops, Stops, Upset, profileVars
<1> QED
  BY <1>1, <1>2, <1>3, <1>4, <1>5, <1>6

\* One more sample is taken, or the record of the command is saved.
LEMMA ProfileSampleStep == ASSUME ProfileIInv, tool = "profile", UNCHANGED tool, ProfileSample PROVE ProfileIInv' /\ KeepsRecords
<1>1. job # Nil /\ job.pc = "sample" /\ ProfileFits /\ RecordsFit /\ UNCHANGED used /\ job.at \in 1..Commands
      /\ rundir.records[job.at] = Nil /\ job.rows \in Seq({job.id}) /\ rundir.manifest.spec = job.spec
      /\ DOMAIN rundir.manifest = {"spec", "status"}
  BY DEF ProfileSample, At, In, ProfileIInv, ProfileFits, Set
<1>2. CASE Set("rows", Append(job.rows, job.id), "sample") /\ UNCHANGED rundir
  <2>1. DOMAIN job' = JobFields /\ job'.pc = "sample" /\ job'.id = job.id /\ job'.spec = job.spec /\ job'.at = job.at
        /\ job'.rows = Append(job.rows, job.id)
    BY <1>1, <1>2 DEF Set, ProfileFits, JobFields
  <2>2. Append(job.rows, job.id) \in Seq({job.id})
    BY <1>1
  <2>3. RecordsFit'
    BY <1>1, <1>2 DEF RecordsFit
  <2>4. ProfileFits'
    BY <1>1, <1>2, <2>1, <2>2, <2>3 DEF ProfileFits
  <2> QED
    BY <1>1, <1>2, <2>4, ProfileCalm
<1>3. CASE /\ Len(job.rows) = Samples
           /\ rundir' = [rundir EXCEPT !.records[job.at] = [spec |-> job.spec, rows |-> job.rows]]
           /\ Set("at", job.at + 1, "next")
  <2> DEFINE e == [spec |-> job.spec, rows |-> job.rows]
  <2>1. DOMAIN job' = JobFields /\ job'.pc = "next" /\ job'.id = job.id /\ job'.spec = job.spec
    BY <1>1, <1>3 DEF Set, ProfileFits, JobFields
  <2>2. e.spec = job.spec /\ Len(e.rows) = Samples /\ OfOneRun(e.rows)
    BY <1>1, <1>3 DEF OfOneRun
  <2> HIDE DEF e
  <2>3. /\ DOMAIN rundir' = {"manifest", "records"} /\ DOMAIN rundir'.records = 1..Commands /\ rundir'.manifest = rundir.manifest
        /\ rundir'.records[job.at] = e /\ \A i \in 1..Commands \ {job.at} : rundir'.records[i] = rundir.records[i]
    BY <1>1, <1>3 DEF RecordsFit, e
  <2>4. RecordsFit'
    BY <1>1, <2>2, <2>3 DEF RecordsFit, Whole
  <2>5. ProfileFits'
    BY <1>1, <2>1, <2>3, <2>4 DEF ProfileFits
  <2> QED
    BY <1>1, <2>3, <2>4, <2>5, ProfileSaves
<1> QED
  BY <1>2, <1>3 DEF ProfileSample

LEMMA ProfileOthersStep == ASSUME ProfileIInv, tool = "profile", UNCHANGED tool, ProfileOthers PROVE ProfileIInv' /\ KeepsRecords
<1>1. CASE ByOthers /\ UNCHANGED <<job, rundir>>
  <2>1. RecordsFit => RecordsFit'
    BY <1>1 DEF RecordsFit
  <2>2. job' # Nil => ProfileFits'
    BY <1>1, <2>1 DEF ProfileFits, ProfileIInv
  <2> QED
    BY <1>1, <2>2, ProfileCalm DEF ByOthers
<1>2. CASE ByOthers /\ \E i \in 1..Commands : rundir.records[i] # Nil /\ rundir # Nil /\ rundir' = [rundir EXCEPT !.records[i] = Nil]
                                              /\ UNCHANGED job
  <2>1. PICK i \in 1..Commands : rundir.records[i] # Nil /\ rundir # Nil /\ rundir' = [rundir EXCEPT !.records[i] = Nil]
    BY <1>2
  <2>2. RecordsFit
    BY <2>1 DEF ProfileIInv
  <2>3. /\ DOMAIN rundir' = {"manifest", "records"} /\ DOMAIN rundir'.records = 1..Commands /\ rundir'.manifest = rundir.manifest
        /\ \A k \in 1..Commands : rundir'.records[k] \in {Nil, rundir.records[k]}
    BY <2>1, <2>2 DEF RecordsFit
  <2>4. RecordsFit'
    BY <2>2, <2>3 DEF RecordsFit
  <2>5. job # Nil => ProfileFits'
    <3>1. rundir.records # NoRecords
      BY <2>1 DEF NoRecords
    <3> QED
      BY <1>2, <2>1, <2>3, <2>4, <3>1 DEF ProfileFits, ProfileIInv
  <2>6. Numbered' /\ used'.edit # used.edit
    <3>1. Numbered /\ Count("edit")
      BY <1>2 DEF ProfileIInv, ByOthers
    <3> QED
      BY <3>1, CountNumbers DEF Numbered, Count
  <2> QED
    BY <1>2, <2>1, <2>3, <2>4, <2>5, <2>6 DEF ProfileIInv, KeepsRecords
<1>3. CASE job = Nil /\ rundir' = Nil /\ UNCHANGED jobVars
  BY <1>3 DEF jobVars, ProfileIInv, KeepsRecords, Numbered
<1> QED
  BY <1>1, <1>2, <1>3 DEF ProfileOthers

LEMMA ProfileNextInv == ASSUME ProfileIInv, [Next]_vars PROVE ProfileIInv' /\ KeepsRecords
<1>1. UNCHANGED tool
  BY OnlyProfile
<1>2. CASE tool = "profile" /\ ProfileTool
  BY <1>1, <1>2, ProfileRunStep, ProfileSampleStep, ProfileOthersStep DEF ProfileTool
<1>3. CASE tool = "profile" /\ UNCHANGED <<profileVars, jobVars>>
  <2>1. RecordsFit => RecordsFit'
    BY <1>3 DEF RecordsFit, profileVars
  <2>2. job' # Nil => ProfileFits'
    BY <1>3, <2>1 DEF ProfileFits, ProfileIInv, profileVars, jobVars
  <2> QED
    BY <1>1, <1>3, <2>2, ProfileCalm DEF profileVars, jobVars
<1>4. CASE tool # "profile" /\ UNCHANGED profileVars
  BY <1>1, <1>4 DEF ProfileIInv, KeepsRecords, profileVars
<1> QED
  BY <1>2, <1>3, <1>4, OnlyProfile

\* Records, manifest and resume of a CLI profile agree, and a record stays.
THEOREM ProfileInvariant == Spec => []ProfileIInv
BY ProfileInitInv, ProfileNextInv, PTL DEF Spec

(***************************************************************************)
(* The queue of proofs: it settles, and what people wrote is never rewritten.*)
(***************************************************************************)
BeadFields == {"title", "body", "note", "open"}

\* The open beads that have the title t.
Own(bs, t) == {i \in Open(bs) : bs[i].title = t}

\* The beads cs come after bs: what people wrote is as it was.
GoesOn(bs, cs) ==
  /\ IsSeq(cs) /\ \A i \in DOMAIN cs : DOMAIN cs[i] = BeadFields
  /\ \A i \in DOMAIN bs : i \in DOMAIN cs /\ cs[i].title = bs[i].title /\ (bs[i].title \notin Unit => cs[i].body = bs[i].body)

\* An action is on a bead there is, and rewrites only a bead of its unit's own.
ActionFits(a, bs) ==
  /\ a.unit \in Unit /\ a.op \in {"create", "comment", "adopt", "close", "noop"}
  /\ a.op \in {"comment", "adopt", "close"} => a.id \in DOMAIN bs
  /\ a.op = "comment" => bs[a.id].title = a.unit

QueueFits ==
  /\ IsSeq(beads) /\ (\A i \in DOMAIN beads : DOMAIN beads[i] = BeadFields) /\ DOMAIN grade = Unit
  /\ job # Nil =>
       /\ DOMAIN job = {"pc", "grade", "todo", "errors"} /\ job.pc \in {"list", "apply", "ended"}
       /\ IsSeq(job.todo) /\ \A k \in DOMAIN job.todo : ActionFits(job.todo[k], beads)

QueueIInv == tool = "queue" => QueueFits

LEMMA OnlyQueue ==
  ASSUME [Next]_vars
  PROVE  /\ UNCHANGED tool
         /\ tool = "queue" => QueueNext \/ UNCHANGED <<queueVars, jobVars>>
         /\ tool # "queue" => UNCHANGED queueVars
BY DEF Next, BenchNext, benchVars, vars, queueVars, jobVars

LEMMA IsSeqLen == ASSUME NEW s, IsSeq(s) PROVE Len(s) \in Nat /\ DOMAIN s = 1..Len(s)
<1> DEFINE S == {s[i] : i \in DOMAIN s}
<1>1. s \in Seq(S)
  BY DEF IsSeq
<1> HIDE DEF S
<1> QED
  BY <1>1

LEMMA SeqTail ==
  ASSUME NEW s, IsSeq(s), s # <<>>
  PROVE  /\ IsSeq(Tail(s)) /\ Head(s) = s[1] /\ 1 \in DOMAIN s
         /\ \A k \in DOMAIN Tail(s) : k + 1 \in DOMAIN s /\ Tail(s)[k] = s[k + 1]
         /\ \A k \in DOMAIN s : k # 1 => k - 1 \in DOMAIN Tail(s) /\ Tail(s)[k - 1] = s[k]
<1> DEFINE S == {s[i] : i \in DOMAIN s}
<1>1. s \in Seq(S)
  BY DEF IsSeq
<1> HIDE DEF S
<1>2. Tail(s) \in Seq(S) /\ Len(s) \in Nat /\ Len(s) > 0 /\ Len(Tail(s)) = Len(s) - 1
  BY <1>1
<1>3. IsSeq(Tail(s))
  BY <1>2, SeqIsSeq
<1>4. DOMAIN s = 1..Len(s) /\ DOMAIN Tail(s) = 1..(Len(s) - 1) /\ \A k \in 1..(Len(s) - 1) : Tail(s)[k] = s[k + 1]
  BY <1>1, <1>2
<1>5. Head(s) = s[1]
  BY <1>1
<1>6. \A k \in DOMAIN s : k # 1 => k - 1 \in 1..(Len(s) - 1) /\ (k - 1) + 1 = k
  BY <1>2, <1>4
<1> QED
  BY <1>2, <1>3, <1>4, <1>5, <1>6

\* by_title finds a bead of that title if there is one.
LEMMA OwnBead ==
  ASSUME NEW bs, IsSeq(bs), NEW t
  PROVE  /\ Own(bs, t) = {} => ByTitle(bs, t) = Nil
         /\ Own(bs, t) # {} => ByTitle(bs, t) \in Own(bs, t) /\ ByTitle(bs, t) # Nil
<1>1. Own(bs, t) \subseteq 0..Len(bs) /\ Len(bs) \in Nat
  BY IsSeqLen DEF Own, Open
<1>2. ByTitle(bs, t) = IF Own(bs, t) = {} THEN Nil ELSE Max(Own(bs, t))
  BY DEF ByTitle, Own
<1>3. Own(bs, t) # {} => Max(Own(bs, t)) \in Own(bs, t) /\ Max(Own(bs, t)) \in Nat
  BY <1>1, MaxIn
<1> QED
  BY <1>2, <1>3, QueueAssumption

\* What the plan decides for a unit, and when.
Decides(bs, g, u, r) ==
  /\ r.unit = u
  /\ \/ r.op = "create" /\ g[u] \in Trigger /\ Own(bs, u) = {} /\ Adopted(bs, u) = {}
     \/ r.op = "adopt" /\ g[u] \in Trigger /\ Own(bs, u) = {} /\ r.id \in Adopted(bs, u)
     \/ r.op = "comment" /\ g[u] \in Trigger /\ r.id \in Own(bs, u)
     \/ r.op = "close" /\ g[u] = "PROVEN" /\ (r.id \in Own(bs, u) \/ (Own(bs, u) = {} /\ r.id \in Adopted(bs, u)))
     \/ /\ r.op = "noop"
        /\ g[u] \in Trigger => \/ Own(bs, u) = {} /\ \E i \in Adopted(bs, u) : Marker(bs, i) = g[u]
                               \/ \E i \in Own(bs, u) : bs[i].body = g[u]
        /\ g[u] = "PROVEN" => Own(bs, u) = {}

LEMMA PlanDecides == ASSUME NEW bs, IsSeq(bs), NEW g, NEW u \in Unit PROVE Decides(bs, g, u, Reconcile(bs, g, u))
<1> DEFINE own == ByTitle(bs, u)
           others == Adopted(bs, u)
           behind == {i \in others : Marker(bs, i) # g[u]}
           r == Reconcile(bs, g, u)
<1>1. r = CASE own = Nil /\ g[u] \in Trigger /\ others = {} -> [op |-> "create", unit |-> u, id |-> Nil]
            [] own = Nil /\ g[u] \in Trigger /\ behind # {} -> [op |-> "adopt", unit |-> u, id |-> Min(behind)]
            [] own = Nil /\ g[u] = "PROVEN" /\ others # {} -> [op |-> "close", unit |-> u, id |-> Min(others)]
            [] own # Nil /\ g[u] \in Trigger /\ bs[own].body # g[u] -> [op |-> "comment", unit |-> u, id |-> own]
            [] own # Nil /\ g[u] = "PROVEN" -> [op |-> "close", unit |-> u, id |-> own]
            [] OTHER -> Noop(u)
  BY DEF Reconcile
<1>2. /\ own = Nil => Own(bs, u) = {}
      /\ own # Nil => own \in Own(bs, u)
  BY OwnBead
<1>3. others \subseteq Nat /\ behind \subseteq others
  BY IsSeqLen DEF Adopted, Open
<1>4. (others # {} => Min(others) \in others) /\ (behind # {} => Min(behind) \in behind)
  BY <1>3, MinIn
<1>5. "PROVEN" \notin Trigger
  BY DEF Trigger
<1> DEFINE tied == g[u] \in Trigger
           mo == Min(others)
           mb == Min(behind)
<1>6. behind = {} => \A i \in others : Marker(bs, i) = g[u]
  OBVIOUS
<1> HIDE DEF own, behind, r, mo, mb
<1>7. CASE own = Nil /\ g[u] \in Trigger /\ others = {}
  <2>1. r = [op |-> "create", unit |-> u, id |-> Nil]
    <3>1. behind = {}
      BY <1>3, <1>7
    <3> QED
      BY <1>1, <1>5, <1>7, <3>1
  <2> QED
    BY <1>2, <1>7, <2>1 DEF Decides, r
<1>8. CASE own = Nil /\ g[u] \in Trigger /\ others # {} /\ behind # {}
  <2>1. r = [op |-> "adopt", unit |-> u, id |-> mb]
    BY <1>1, <1>5, <1>8 DEF mb
  <2>2. mb \in others
    BY <1>3, <1>4, <1>8 DEF mb
  <2> QED
    BY <1>2, <1>8, <2>1, <2>2 DEF Decides, r
<1>9. CASE own = Nil /\ g[u] = "PROVEN" /\ others # {}
  <2>1. r = [op |-> "close", unit |-> u, id |-> mo]
    BY <1>1, <1>5, <1>9 DEF mo
  <2>2. mo \in others
    BY <1>4, <1>9 DEF mo
  <2> QED
    BY <1>2, <1>9, <2>1, <2>2 DEF Decides, r
<1>10. CASE own # Nil /\ g[u] \in Trigger /\ bs[own].body # g[u]
  <2>1. r = [op |-> "comment", unit |-> u, id |-> own]
    BY <1>1, <1>5, <1>10
  <2> QED
    BY <1>2, <1>10, <2>1 DEF Decides, r
<1>11. CASE own # Nil /\ g[u] = "PROVEN"
  <2>1. r = [op |-> "close", unit |-> u, id |-> own]
    BY <1>1, <1>5, <1>11
  <2> QED
    BY <1>2, <1>11, <2>1 DEF Decides, r
<1>12. CASE /\ ~(own = Nil /\ g[u] \in Trigger /\ others = {}) /\ ~(own = Nil /\ g[u] \in Trigger /\ behind # {})
            /\ ~(own = Nil /\ g[u] = "PROVEN" /\ others # {}) /\ ~(own # Nil /\ g[u] \in Trigger /\ bs[own].body # g[u])
            /\ ~(own # Nil /\ g[u] = "PROVEN")
  <2>1. r = Noop(u)
    BY <1>1, <1>12
  <2>2. r.op = "noop" /\ r.unit = u
    BY <2>1 DEF Noop
  <2> QED
    BY <1>2, <1>5, <1>6, <1>12, <2>2 DEF Decides, r
<1> QED
  BY <1>3, <1>5, <1>7, <1>8, <1>9, <1>10, <1>11, <1>12 DEF behind

LEMMA PlanFitsBeads ==
  ASSUME NEW bs, IsSeq(bs), NEW g, NEW u \in Unit
  PROVE  ActionFits(Reconcile(bs, g, u), bs) /\ Reconcile(bs, g, u).unit = u
BY PlanDecides DEF Decides, ActionFits, Own, Adopted, Open

\* A field of a bead is set.
LEMMA BeadSet ==
  ASSUME NEW bs, IsSeq(bs), \A j \in DOMAIN bs : DOMAIN bs[j] = BeadFields, NEW i \in DOMAIN bs,
         NEW f \in {"body", "note", "open"}, NEW x, NEW cs, cs = [bs EXCEPT ![i][f] = x]
  PROVE  /\ IsSeq(cs) /\ DOMAIN cs = DOMAIN bs /\ \A j \in DOMAIN bs : DOMAIN cs[j] = BeadFields
         /\ cs[i][f] = x /\ \A g \in BeadFields \ {f} : cs[i][g] = bs[i][g]
         /\ \A j \in DOMAIN bs \ {i} : cs[j] = bs[j]
<1> DEFINE e == [bs[i] EXCEPT ![f] = x]
<1>1. DOMAIN e = BeadFields /\ e[f] = x /\ \A g \in BeadFields \ {f} : e[g] = bs[i][g]
  BY DEF BeadFields
<1>2. cs = [bs EXCEPT ![i] = e]
  OBVIOUS
<1> HIDE DEF e
<1>3. IsSeq(cs) /\ DOMAIN cs = DOMAIN bs
  BY <1>2, SeqExcept
<1>4. cs[i] = e /\ \A j \in DOMAIN bs \ {i} : cs[j] = bs[j]
  BY <1>2
<1> QED
  BY <1>1, <1>3, <1>4

LEMMA BeadSetTo ==
  ASSUME NEW bs, IsSeq(bs), \A j \in DOMAIN bs : DOMAIN bs[j] = BeadFields, NEW i \in DOMAIN bs,
         NEW f \in {"body", "note", "open"}, NEW x, f = "body" => bs[i].title \in Unit,
         NEW cs, cs = [bs EXCEPT ![i][f] = x]
  PROVE  GoesOn(bs, cs)
<1> PICK e : e = [bs[i] EXCEPT ![f] = x]
  OBVIOUS
<1>1. DOMAIN e = BeadFields /\ \A g \in BeadFields \ {f} : e[g] = bs[i][g]
  BY DEF BeadFields
<1>2. cs = [bs EXCEPT ![i] = e]
  OBVIOUS
<1>3. IsSeq(cs) /\ DOMAIN cs = DOMAIN bs
  BY <1>2, SeqExcept
<1>4. cs[i] = e /\ \A j \in DOMAIN bs \ {i} : cs[j] = bs[j]
  BY <1>2
<1>5. \A j \in DOMAIN cs : DOMAIN cs[j] = BeadFields
  BY <1>1, <1>3, <1>4
<1>6. cs[i].title = bs[i].title /\ (f # "body" => cs[i].body = bs[i].body)
  <2>1. f # "title" /\ "title" \in BeadFields /\ "body" \in BeadFields
    BY DEF BeadFields
  <2> QED
    BY ONLY <1>1, <1>4, <2>1
<1> QED
  BY ONLY <1>3, <1>4, <1>5, <1>6, f = "body" => bs[i].title \in Unit DEF GoesOn

LEMMA BeadSetGoesOn ==
  ASSUME NEW bs, IsSeq(bs), \A j \in DOMAIN bs : DOMAIN bs[j] = BeadFields, NEW i \in DOMAIN bs,
         NEW f \in {"body", "note", "open"}, NEW x, f = "body" => bs[i].title \in Unit
  PROVE  GoesOn(bs, [bs EXCEPT ![i][f] = x])
<1> PICK cs : cs = [bs EXCEPT ![i][f] = x]
  OBVIOUS
<1>1. GoesOn(bs, cs)
  BY BeadSetTo
<1> QED
  BY <1>1

LEMMA BeadFiledGoesOn ==
  ASSUME IsSeq(beads), \A j \in DOMAIN beads : DOMAIN beads[j] = BeadFields, NEW t, NEW marker
  PROVE  GoesOn(beads, File(t, marker))
<1> DEFINE e == [title |-> t, body |-> marker, note |-> Nil, open |-> TRUE]
           cs == File(t, marker)
<1>1. DOMAIN e = BeadFields
  BY DEF BeadFields
<1> HIDE DEF e
<1>2. cs = Append(beads, e)
  BY DEF File, e
<1> HIDE DEF cs
<1>a. IsSeq(cs)
  BY <1>2, SeqAppend
<1>b. cs[Len(cs)] = e
  BY <1>2, SeqAppend
<1>3. IsSeq(cs) /\ cs[Len(cs)] = e
  BY <1>a, <1>b
<1>4. DOMAIN cs = DOMAIN beads \cup {Len(cs)}
  BY <1>2, SeqAppend
<1>5. \A i \in DOMAIN beads : cs[i] = beads[i]
  BY <1>2, SeqAppend
<1>6. \A i \in DOMAIN cs : DOMAIN cs[i] = BeadFields
  BY <1>1, <1>3, <1>4, <1>5
<1> QED
  BY <1>3, <1>4, <1>5, <1>6 DEF GoesOn, cs

LEMMA GoesOnSame == ASSUME IsSeq(beads), \A j \in DOMAIN beads : DOMAIN beads[j] = BeadFields PROVE GoesOn(beads, beads)
BY DEF GoesOn

LEMMA GoesOnFits == ASSUME NEW a, NEW bs, NEW cs, ActionFits(a, bs), GoesOn(bs, cs) PROVE ActionFits(a, cs)
BY DEF ActionFits, GoesOn

\* What the br calls of an action do.
LEMMA EffectGoesOn ==
  ASSUME IsSeq(beads), \A j \in DOMAIN beads : DOMAIN beads[j] = BeadFields, NEW a, ActionFits(a, beads)
  PROVE  GoesOn(beads, Effect(a))
<1>1. CASE a.op = "create"
  BY <1>1, BeadFiledGoesOn DEF Effect
<1>2. CASE a.op = "comment"
  BY <1>2, BeadSetGoesOn DEF Effect, ActionFits
<1>3. CASE a.op = "adopt"
  BY <1>3, BeadSetGoesOn DEF Effect, ActionFits
<1>4. CASE a.op = "close"
  BY <1>4, BeadSetGoesOn DEF Effect, ActionFits
<1>5. CASE a.op = "noop"
  BY <1>5, GoesOnSame DEF Effect
<1> QED
  BY <1>1, <1>2, <1>3, <1>4, <1>5 DEF ActionFits

\* What the ends of proofs, and people, do to the beads.
LEMMA OthersGoOn ==
  ASSUME QueueFits, ProofEnds \/ PeopleBead
  PROVE  GoesOn(beads, beads')
<1>1. IsSeq(beads) /\ \A j \in DOMAIN beads : DOMAIN beads[j] = BeadFields
  BY DEF QueueFits
<1>2. CASE ProofEnds
  <2>1. PICK u \in Unit, g \in Grade :
          beads' = IF ByTitle(beads, u) = Nil THEN beads
                   ELSE IF g = "PROVEN" THEN [beads EXCEPT ![ByTitle(beads, u)].open = FALSE]
                   ELSE [beads EXCEPT ![ByTitle(beads, u)].note = g]
    BY <1>2 DEF ProofEnds
  <2> DEFINE own == ByTitle(beads, u)
  <2>2. own # Nil => own \in DOMAIN beads
    BY <1>1, OwnBead DEF Own, Open
  <2> HIDE DEF own
  <2>3. CASE own = Nil
    BY <1>1, <2>1, <2>3, GoesOnSame DEF own
  <2>4. CASE own # Nil /\ g = "PROVEN"
    BY <1>1, <2>1, <2>2, <2>4, BeadSetGoesOn DEF own
  <2>5. CASE own # Nil /\ g # "PROVEN"
    BY <1>1, <2>1, <2>2, <2>5, BeadSetGoesOn DEF own
  <2> QED
    BY <2>3, <2>4, <2>5
<1>3. CASE \E t \in Written : beads' = File(t, Nil)
  BY <1>1, <1>3, BeadFiledGoesOn
<1>4. CASE \E i \in Open(beads) : beads' = [beads EXCEPT ![i].open = FALSE]
  <2>1. PICK i \in Open(beads) : beads' = [beads EXCEPT ![i].open = FALSE]
    BY <1>4
  <2>2. i \in DOMAIN beads
    BY DEF Open
  <2>3. GoesOn(beads, [beads EXCEPT ![i]["open"] = FALSE])
    BY <1>1, <2>2, BeadSetGoesOn
  <2> QED
    BY <2>1, <2>3
<1> QED
  BY <1>2, <1>3, <1>4 DEF PeopleBead

\* A step that leaves the command alone.
LEMMA QueueBeside ==
  ASSUME QueueFits, GoesOn(beads, beads'), DOMAIN grade' = Unit, UNCHANGED job
  PROVE  QueueFits'
BY GoesOnFits DEF QueueFits, GoesOn

LEMMA QueueRunStep ==
  ASSUME QueueFits, tool = "queue", QueueBegin \/ QueuePlan \/ QueueEnd \/ QueueGone
  PROVE  QueueFits' /\ GoesOn(beads, beads')
<1>1. GoesOn(beads, beads') /\ UNCHANGED <<grade, beads>>
  BY GoesOnSame DEF QueueBegin, QueuePlan, QueueEnd, QueueGone, QueueFits, queueVars
<1>2. /\ IsSeq(beads') /\ (\A i \in DOMAIN beads' : DOMAIN beads'[i] = BeadFields) /\ DOMAIN grade' = Unit
  BY <1>1 DEF QueueFits
<1>3. CASE QueueBegin
  <2>1. job' = [pc |-> "list", grade |-> grade, todo |-> <<>>, errors |-> FALSE]
    BY <1>3 DEF QueueBegin, Begin
  <2>2. <<>> \in Seq({}) /\ DOMAIN <<>> = {}
    OBVIOUS
  <2>3. IsSeq(job'.todo) /\ DOMAIN job'.todo = {}
    BY <2>1, <2>2, SeqIsSeq
  <2>4. DOMAIN job' = {"pc", "grade", "todo", "errors"} /\ job'.pc = "list"
    BY <2>1
  <2>5. \A k \in DOMAIN job'.todo : ActionFits(job'.todo[k], beads')
    BY <2>3
  <2> QED
    BY <1>1, <1>2, <2>3, <2>4, <2>5 DEF QueueFits
<1>4. CASE job' = Nil
  BY <1>1, <1>2, <1>4 DEF QueueFits
<1>5. CASE QueuePlan /\ job' # Nil
  <2> DEFINE n == Cardinality(Unit)
             todo == [k \in 1..n |-> Reconcile(beads, job.grade, SetToSeq(Unit)[k])]
  <2>1. job # Nil /\ Set("todo", todo, "apply")
    BY <1>5 DEF QueuePlan, Stops, At, In
  <2>2. n \in Nat /\ \A k \in 1..n : SetToSeq(Unit)[k] \in Unit
    BY QueueAssumption, Listing
  <2>3. \A k \in 1..n : ActionFits(todo[k], beads)
    BY <2>2, PlanFitsBeads DEF QueueFits
  <2>4. IsSeq(todo) /\ DOMAIN todo = 1..n
    <3> DEFINE T == {todo[k] : k \in 1..n}
    <3>1. \A k \in 1..n : todo[k] \in T
      OBVIOUS
    <3>2. todo \in [1..n -> T]
      BY <3>1
    <3> HIDE DEF T, todo
    <3>3. todo \in Seq(T)
      BY <2>2, <3>2, FcnIsSeq
    <3> QED
      BY <3>2, <3>3, SeqIsSeq
  <2> HIDE DEF todo
  <2>5. DOMAIN job' = {"pc", "grade", "todo", "errors"} /\ job'.pc = "apply" /\ job'.todo = todo
    BY <2>1 DEF Set, QueueFits
  <2> QED
    BY <1>1, <1>2, <2>3, <2>4, <2>5 DEF QueueFits, ActionFits
<1>6. CASE QueueEnd
  <2>1. job # Nil /\ job' = [job EXCEPT !.pc = "ended"]
    BY <1>6 DEF QueueEnd, Goto, At, In
  <2>2. DOMAIN job' = {"pc", "grade", "todo", "errors"} /\ job'.pc = "ended" /\ job'.todo = job.todo
    BY <2>1 DEF QueueFits
  <2> QED
    BY <1>1, <1>2, <2>1, <2>2 DEF QueueFits, ActionFits
<1>7. CASE QueueGone
  BY <1>4, <1>7 DEF QueueGone, Finish, Stops
<1> QED
  BY <1>3, <1>4, <1>5, <1>6, <1>7 DEF QueuePlan

LEMMA QueueApplyStep ==
  ASSUME QueueFits, tool = "queue", QueueApply
  PROVE  QueueFits' /\ GoesOn(beads, beads')
<1>1. /\ job # Nil /\ job.pc = "apply" /\ job.todo # <<>> /\ IsSeq(job.todo) /\ UNCHANGED grade
      /\ DOMAIN job = {"pc", "grade", "todo", "errors"} /\ \A k \in DOMAIN job.todo : ActionFits(job.todo[k], beads)
  BY DEF QueueApply, At, In, QueueFits
<1>2. ActionFits(Head(job.todo), beads)
  BY <1>1, SeqTail
<1>3. beads' = Effect(Head(job.todo)) \/ UNCHANGED beads
  BY DEF QueueApply
<1>4. GoesOn(beads, beads')
  BY <1>2, <1>3, GoesOnSame, EffectGoesOn DEF QueueFits
<1>5. DOMAIN job' = {"pc", "grade", "todo", "errors"} /\ job'.pc = "apply" /\ job'.todo = Tail(job.todo)
  <2>1. job' = [job EXCEPT !.todo = Tail(@)] \/ job' = [job EXCEPT !.todo = Tail(@), !.errors = TRUE]
    BY DEF QueueApply
  <2> QED
    BY <1>1, <2>1
<1>6. IsSeq(Tail(job.todo)) /\ \A k \in DOMAIN Tail(job.todo) : ActionFits(Tail(job.todo)[k], beads)
  BY <1>1, SeqTail
<1>7. \A k \in DOMAIN job'.todo : ActionFits(job'.todo[k], beads')
  BY <1>4, <1>5, <1>6, GoesOnFits
<1> QED
  BY <1>1, <1>4, <1>5, <1>6, <1>7 DEF QueueFits, GoesOn

LEMMA QueueInitInv == Init => QueueIInv
<1> SUFFICES ASSUME QueueInit, job = Nil
             PROVE  QueueFits
  BY DEF Init, JobInit, QueueIInv
<1>1. beads = <<>> /\ DOMAIN grade = Unit
  BY DEF QueueInit
<1>2. beads \in Seq({}) /\ DOMAIN beads = {}
  BY <1>1
<1> QED
  BY <1>1, <1>2, SeqIsSeq DEF QueueFits

LEMMA QueueNextInv == ASSUME QueueIInv, [Next]_vars PROVE QueueIInv' /\ (tool = "queue" => GoesOn(beads, beads')) /\ KeepsBodies
<1>1. UNCHANGED tool
  BY OnlyQueue
<1>2. CASE tool = "queue"
  <2>1. QueueFits
    BY <1>2 DEF QueueIInv
  <2>2. QueueFits' /\ GoesOn(beads, beads')
    <3>1. CASE QueueBegin \/ QueuePlan \/ QueueEnd \/ QueueGone
      BY <1>2, <2>1, <3>1, QueueRunStep
    <3>2. CASE QueueApply
      BY <1>2, <2>1, <3>2, QueueApplyStep
    <3>3. CASE ProofEnds \/ PeopleBead
      <4>1. DOMAIN grade' = Unit /\ UNCHANGED job
        BY <2>1, <3>3 DEF QueueFits, ProofEnds, PeopleBead
      <4> QED
        BY <2>1, <3>3, <4>1, OthersGoOn, QueueBeside
    <3>4. CASE UNCHANGED <<queueVars, jobVars>>
      <4>1. UNCHANGED <<grade, beads, job>>
        BY <3>4 DEF queueVars, jobVars
      <4>2. GoesOn(beads, beads')
        BY <2>1, <4>1, GoesOnSame DEF QueueFits
      <4> QED
        BY <2>1, <4>1, <4>2, QueueBeside DEF QueueFits
    <3> QED
      BY <1>2, <3>1, <3>2, <3>3, <3>4, OnlyQueue DEF QueueNext
  <2> QED
    BY <1>1, <2>2 DEF QueueIInv, KeepsBodies, GoesOn
<1>3. CASE tool # "queue"
  BY <1>1, <1>3, OnlyQueue DEF QueueIInv, KeepsBodies, queueVars
<1> QED
  BY <1>2, <1>3

\* What a reconciliation has left to do is of the beads it read, and the body of a
\* bead stays as it was written.
THEOREM QueueInvariant == Spec => []QueueIInv
BY QueueInitInv, QueueNextInv, PTL DEF Spec
\* No bead is about two units: a unit's title is nobody's wording, and a title that names a unit names no other.
Apart == /\ Unit \cap Written = {} /\ \A u \in Unit : Naming[u] \cap Unit = {}
         /\ \A u, v \in Unit : u # v => Naming[u] \cap Naming[v] = {}

BeadsFit(bs) == IsSeq(bs) /\ \A j \in DOMAIN bs : DOMAIN bs[j] = BeadFields

\* A unit has one open bead of its own at most; only such a bead has a marker in its body.
Alone(bs) == \A u \in Unit : \A i, j \in Own(bs, u) : i = j
Plain(bs) == \A i \in DOMAIN bs : bs[i].title \notin Unit => bs[i].body = Nil

\* The beads bs and cs say the same of a unit.
SameFor(bs, cs, u) ==
  /\ Own(cs, u) = Own(bs, u) /\ Adopted(cs, u) = Adopted(bs, u)
  /\ \A i \in Own(bs, u) \cup Adopted(bs, u) : cs[i].body = bs[i].body /\ cs[i].note = bs[i].note

\* From bs to cs no bead of a unit's own is filed, and none of others is marked in its body.
Shrinks(bs, cs) == (\A u \in Unit : Own(cs, u) \subseteq Own(bs, u)) /\ (Plain(bs) => Plain(cs))

\* What the queue owes a unit when it ends.
SettledFor(bs, g, u) ==
  /\ g[u] \in Trigger =>
       \/ Cardinality(Own(bs, u)) = 1 /\ \A i \in Own(bs, u) : bs[i].body = g[u]
       \/ Own(bs, u) = {} /\ \E i \in Adopted(bs, u) : Marker(bs, i) = g[u]
  /\ g[u] = "PROVEN" => Own(bs, u) = {}

Planned(u) == \E k \in DOMAIN job.todo : Decides(beads, grade, u, job.todo[k])
Past(u) == SettledFor(beads, grade, u) /\ \A k \in DOMAIN job.todo : job.todo[k].unit # u

\* A unit has one action, and a bead is only filed for a unit that has none.
TodoFits ==
  /\ \A k, l \in DOMAIN job.todo : job.todo[k].unit = job.todo[l].unit => k = l
  /\ \A k \in DOMAIN job.todo : job.todo[k].op = "create" => Own(beads, job.todo[k].unit) = {}
  /\ job.pc = "ended" => job.todo = <<>>
  /\ steady => job.grade = grade
  /\ steady /\ ~job.errors /\ job.pc \in {"apply", "ended"} => \A u \in Unit : Planned(u) \/ Past(u)

SettleIInv == tool = "queue" => Alone(beads) /\ Plain(beads) /\ (job # Nil => TodoFits)

\* What a bead filed is.
LEMMA BeadFiled ==
  ASSUME NEW bs, BeadsFit(bs), NEW t, NEW marker, NEW cs, cs = Append(bs, [title |-> t, body |-> marker, note |-> Nil, open |-> TRUE])
  PROVE  /\ DOMAIN cs = DOMAIN bs \cup {Len(cs)} /\ Len(cs) \notin DOMAIN bs /\ (\A i \in DOMAIN bs : cs[i] = bs[i])
         /\ cs[Len(cs)].title = t /\ cs[Len(cs)].body = marker /\ cs[Len(cs)].open
<1> DEFINE e == [title |-> t, body |-> marker, note |-> Nil, open |-> TRUE]
<1>1. e.title = t /\ e.body = marker /\ e.open
  OBVIOUS
<1> HIDE DEF e
<1>2. IsSeq(bs) /\ cs = Append(bs, e)
  BY DEF e, BeadsFit
<1>3. cs[Len(cs)] = e
  BY <1>2, SeqAppend
<1>4. DOMAIN cs = DOMAIN bs \cup {Len(cs)} /\ \A i \in DOMAIN bs : cs[i] = bs[i]
  BY <1>2, SeqAppend
<1>5. Len(bs) \in Nat /\ Len(cs) = Len(bs) + 1 /\ DOMAIN bs = 1..Len(bs)
  BY <1>2, SeqAppend
<1>6. Len(cs) \notin DOMAIN bs
  BY <1>5
<1> QED
  BY <1>1, <1>3, <1>4, <1>6

LEMMA FiledFor ==
  ASSUME NEW bs, BeadsFit(bs), NEW t, NEW marker, NEW cs, cs = Append(bs, [title |-> t, body |-> marker, note |-> Nil, open |-> TRUE])
  PROVE  \A u \in Unit : u # t /\ t \notin Naming[u] => SameFor(bs, cs, u)
<1> DEFINE n == Len(cs)
<1>1. /\ DOMAIN cs = DOMAIN bs \cup {n} /\ n \notin DOMAIN bs /\ (\A i \in DOMAIN bs : cs[i] = bs[i])
      /\ cs[n].title = t /\ cs[n].body = marker /\ cs[n].open
  BY BeadFiled
<1> HIDE DEF n
<1>2. Open(cs) = Open(bs) \cup {n} /\ Open(bs) \subseteq DOMAIN bs
  BY <1>1 DEF Open
<1>3. \A u \in Unit : u # t => Own(cs, u) = Own(bs, u)
  <2>1. ASSUME NEW u \in Unit, u # t, NEW j
        PROVE  j \in Own(cs, u) <=> j \in Own(bs, u)
    BY <1>1, <1>2, <2>1 DEF Own
  <2> QED
    BY <2>1
<1>5. ASSUME NEW u \in Unit, u # t, t \notin Naming[u]
      PROVE  SameFor(bs, cs, u)
  <2>1. Adopted(cs, u) = Adopted(bs, u)
    <3>1. ASSUME NEW j
          PROVE  j \in Adopted(cs, u) <=> j \in Adopted(bs, u)
      <4>1. CASE j = n
        BY <1>1, <1>2, <1>5, <4>1 DEF Adopted
      <4>2. CASE j # n
        BY <1>1, <1>2, <4>2 DEF Adopted
      <4> QED
        BY <4>1, <4>2
    <3> QED
      BY <3>1
  <2>2. Own(bs, u) \cup Adopted(bs, u) \subseteq DOMAIN bs
    BY DEF Own, Adopted, Open
  <2> QED
    BY <1>1, <1>3, <1>5, <2>1, <2>2 DEF SameFor
<1> QED
  BY <1>5

\* A field set, for the units the bead is not about.
LEMMA SetFor ==
  ASSUME NEW bs, BeadsFit(bs), NEW i \in DOMAIN bs, NEW f \in {"body", "note", "open"}, NEW x, NEW cs, cs = [bs EXCEPT ![i][f] = x]
  PROVE  \A u \in Unit : u # bs[i].title /\ bs[i].title \notin Naming[u] => SameFor(bs, cs, u)
<1>1. /\ DOMAIN cs = DOMAIN bs /\ (\A g \in BeadFields \ {f} : cs[i][g] = bs[i][g]) /\ \A j \in DOMAIN bs \ {i} : cs[j] = bs[j]
  BY BeadSet DEF BeadsFit
<1>2. cs[i].title = bs[i].title
  BY <1>1 DEF BeadFields
<1> SUFFICES ASSUME NEW u \in Unit, u # bs[i].title, bs[i].title \notin Naming[u]
             PROVE  SameFor(bs, cs, u)
  OBVIOUS
<1>3. Own(cs, u) = Own(bs, u) /\ i \notin Own(bs, u) /\ Own(bs, u) \subseteq DOMAIN bs
  BY <1>1, <1>2 DEF Own, Open
<1>4. Adopted(cs, u) = Adopted(bs, u) /\ i \notin Adopted(bs, u) /\ Adopted(bs, u) \subseteq DOMAIN bs
  BY <1>1, <1>2 DEF Adopted, Open
<1> QED
  BY <1>1, <1>3, <1>4 DEF SameFor

LEMMA SetShrinks ==
  ASSUME NEW bs, BeadsFit(bs), NEW i \in DOMAIN bs, NEW f \in {"body", "note", "open"}, NEW x, NEW cs, cs = [bs EXCEPT ![i][f] = x],
         f = "open" => x = FALSE, f = "body" => bs[i].title \in Unit
  PROVE  Shrinks(bs, cs)
<1> USE DEF BeadsFit
<1>a. cs[i][f] = x
  <2>1. cs = [bs EXCEPT ![i] = [bs[i] EXCEPT ![f] = x]]
    OBVIOUS
  <2>2. f \in DOMAIN bs[i]
    BY DEF BeadFields
  <2> QED
    BY <2>1, <2>2
<1>b. DOMAIN cs = DOMAIN bs /\ (\A g \in BeadFields \ {f} : cs[i][g] = bs[i][g]) /\ \A j \in DOMAIN bs \ {i} : cs[j] = bs[j]
  BY BeadSet
<1>1. /\ DOMAIN cs = DOMAIN bs /\ (\A g \in BeadFields \ {f} : cs[i][g] = bs[i][g]) /\ cs[i][f] = x /\ \A j \in DOMAIN bs \ {i} : cs[j] = bs[j]
  BY <1>a, <1>b
<1>2. cs[i].title = bs[i].title /\ (f # "body" => cs[i].body = bs[i].body)
  BY <1>1 DEF BeadFields
<1>3. cs[i].open => bs[i].open
  <2>1. CASE f = "open"
    BY <1>1, <2>1
  <2>2. CASE f # "open"
    BY <1>1, <2>2 DEF BeadFields
  <2> QED
    BY <2>1, <2>2
<1>4. Plain(bs) => Plain(cs)
  BY <1>1, <1>2 DEF Plain
<1>5. \A u \in Unit : Own(cs, u) \subseteq Own(bs, u)
  BY <1>1, <1>2, <1>3 DEF Own, Open
<1> QED
  BY <1>4, <1>5 DEF Shrinks

LEMMA SameDecides ==
  ASSUME NEW bs, NEW cs, NEW g, NEW u, SameFor(bs, cs, u)
  PROVE  /\ \A r : Decides(bs, g, u, r) => Decides(cs, g, u, r)
         /\ SettledFor(bs, g, u) => SettledFor(cs, g, u)
<1>1. /\ Own(cs, u) = Own(bs, u) /\ Adopted(cs, u) = Adopted(bs, u)
      /\ \A i \in Own(bs, u) : cs[i].body = bs[i].body
      /\ \A i \in Adopted(bs, u) : Marker(cs, i) = Marker(bs, i)
  BY DEF SameFor, Marker
<1>2. SettledFor(bs, g, u) => SettledFor(cs, g, u)
  BY <1>1 DEF SettledFor
<1>3. ASSUME NEW r, Decides(bs, g, u, r) PROVE Decides(cs, g, u, r)
  BY <1>1, <1>3 DEF Decides
<1> QED
  BY <1>2, <1>3

\* What an action does to the beads of the other units, and of its own.
LEMMA EffectSame ==
  ASSUME Apart, BeadsFit(beads), NEW a, ActionFits(a, beads), Decides(beads, grade, a.unit, a), NEW u \in Unit, u # a.unit
  PROVE  SameFor(beads, Effect(a), u)
<1>1. a.unit \in Unit /\ a.unit \notin Naming[u]
  BY DEF ActionFits, Apart
<1>2. CASE a.op = "create"
  <2>1. Effect(a) = Append(beads, [title |-> a.unit, body |-> job.grade[a.unit], note |-> Nil, open |-> TRUE])
    BY <1>2 DEF Effect, File
  <2> QED
    BY <1>1, <2>1, FiledFor
<1>3. ASSUME a.op \in {"comment", "adopt", "close"}
      PROVE  a.id \in DOMAIN beads /\ beads[a.id].title # u /\ beads[a.id].title \notin Naming[u]
  <2>1. a.id \in Own(beads, a.unit) \/ a.id \in Adopted(beads, a.unit)
    BY <1>3 DEF Decides
  <2>2. beads[a.id].title = a.unit \/ beads[a.id].title \in Naming[a.unit]
    BY <2>1 DEF Own, Adopted
  <2>3. a.id \in DOMAIN beads
    BY <1>3 DEF ActionFits
  <2>4. beads[a.id].title # u /\ beads[a.id].title \notin Naming[u]
    BY <1>1, <2>2 DEF Apart
  <2> QED
    BY <2>3, <2>4
<1>4. CASE a.op = "comment"
  <2>1. Effect(a) = [beads EXCEPT ![a.id]["body"] = job.grade[a.unit]]
    BY <1>4 DEF Effect
  <2> QED
    BY <1>3, <1>4, <2>1, SetFor
<1>5. CASE a.op = "adopt"
  <2>1. Effect(a) = [beads EXCEPT ![a.id]["note"] = job.grade[a.unit]]
    BY <1>5 DEF Effect
  <2> QED
    BY <1>3, <1>5, <2>1, SetFor
<1>6. CASE a.op = "close"
  <2>1. Effect(a) = [beads EXCEPT ![a.id]["open"] = FALSE]
    BY <1>6 DEF Effect
  <2> QED
    BY <1>3, <1>6, <2>1, SetFor
<1>7. CASE a.op = "noop"
  BY <1>7 DEF Effect, SameFor
<1> QED
  BY <1>2, <1>4, <1>5, <1>6, <1>7 DEF ActionFits

LEMMA EffectSettles ==
  ASSUME Apart, BeadsFit(beads), NEW a, ActionFits(a, beads), Decides(beads, grade, a.unit, a), job.grade = grade,
         Alone(beads), Plain(beads)
  PROVE  SettledFor(Effect(a), grade, a.unit)
<1> DEFINE u == a.unit
           cs == Effect(a)
<1>1. u \in Unit /\ "PROVEN" \notin Trigger
  BY DEF ActionFits, Trigger
<1>2. \A i \in Own(beads, u) : Own(beads, u) = {i}
  BY <1>1 DEF Alone
<1>3. Own(beads, u) \subseteq DOMAIN beads /\ Adopted(beads, u) \subseteq DOMAIN beads
  BY DEF Own, Adopted, Open
<1>4. CASE a.op = "create"
  <2>1. cs = Append(beads, [title |-> u, body |-> grade[u], note |-> Nil, open |-> TRUE])
    BY <1>4 DEF Effect, File
  <2> DEFINE n == Len(cs)
  <2>a. /\ DOMAIN cs = DOMAIN beads \cup {n} /\ (\A i \in DOMAIN beads : cs[i] = beads[i])
        /\ cs[n].title = u /\ cs[n].open
    BY <2>1, BeadFiled
  <2>b. cs[Len(cs)].body = grade[u]
    BY <2>1, BeadFiled
  <2>2. cs[n].body = grade[u]
    BY <2>b
  <2>3. grade[u] \in Trigger /\ Own(beads, u) = {}
    BY <1>4 DEF Decides
  <2> HIDE DEF cs, n
  <2>4. Own(cs, u) = {n}
    BY <2>a, <2>3 DEF Own, Open
  <2>5. Cardinality(Own(cs, u)) = 1
    BY <2>4, FS_Singleton
  <2> QED
    BY <1>1, <2>2, <2>3, <2>4, <2>5 DEF SettledFor, cs
<1>5. CASE a.op = "comment"
  <2>1. cs = [beads EXCEPT ![a.id]["body"] = grade[u]]
    BY <1>5 DEF Effect
  <2>2. grade[u] \in Trigger /\ a.id \in Own(beads, u) /\ a.id \in DOMAIN beads
    BY <1>3, <1>5 DEF Decides
  <2> HIDE DEF cs
  <2>3. cs[a.id].body = grade[u]
    <3>1. "body" \in DOMAIN beads[a.id]
      BY <2>2 DEF BeadsFit, BeadFields
    <3> QED
      BY <2>1, <2>2, <3>1
  <2>4. /\ DOMAIN cs = DOMAIN beads /\ \A g \in BeadFields \ {"body"} : cs[a.id][g] = beads[a.id][g]
        /\ \A j \in DOMAIN beads \ {a.id} : cs[j] = beads[j]
    BY <2>1, <2>2, BeadSet DEF BeadsFit
  <2>5. cs[a.id].title = beads[a.id].title /\ cs[a.id].open = beads[a.id].open
    BY <2>4 DEF BeadFields
  <2>6. Own(cs, u) = Own(beads, u)
    BY <2>4, <2>5 DEF Own, Open
  <2>7. Own(cs, u) = {a.id}
    BY <1>2, <2>2, <2>6
  <2>8. Cardinality(Own(cs, u)) = 1
    BY <2>7, FS_Singleton
  <2> QED
    BY <1>1, <2>2, <2>3, <2>7, <2>8 DEF SettledFor, cs
<1>6. CASE a.op = "adopt"
  <2>1. cs = [beads EXCEPT ![a.id]["note"] = grade[u]]
    BY <1>6 DEF Effect
  <2>2. grade[u] \in Trigger /\ Own(beads, u) = {} /\ a.id \in Adopted(beads, u) /\ a.id \in DOMAIN beads
    BY <1>3, <1>6 DEF Decides
  <2> HIDE DEF cs
  <2>3. cs[a.id].note = grade[u]
    <3>1. "note" \in DOMAIN beads[a.id]
      BY <2>2 DEF BeadsFit, BeadFields
    <3> QED
      BY <2>1, <2>2, <3>1
  <2>4. /\ DOMAIN cs = DOMAIN beads /\ \A g \in BeadFields \ {"note"} : cs[a.id][g] = beads[a.id][g]
        /\ \A j \in DOMAIN beads \ {a.id} : cs[j] = beads[j]
    BY <2>1, <2>2, BeadSet DEF BeadsFit
  <2>5. cs[a.id].title = beads[a.id].title /\ cs[a.id].open = beads[a.id].open /\ cs[a.id].body = beads[a.id].body
    BY <2>4 DEF BeadFields
  <2>6. Own(cs, u) = Own(beads, u) /\ a.id \in Adopted(cs, u)
    <3>1. Own(cs, u) = Own(beads, u)
      BY <2>4, <2>5 DEF Own, Open
    <3>2. a.id \in Adopted(cs, u)
      BY <2>2, <2>4, <2>5 DEF Adopted, Open
    <3> QED
      BY <3>1, <3>2
  <2>7. beads[a.id].title \in Naming[u]
    BY <2>2 DEF Adopted
  <2>8. beads[a.id].body = Nil
    BY <1>1, <2>2, <2>7 DEF Plain, Apart
  <2>9. Marker(cs, a.id) = grade[u]
    BY <2>3, <2>5, <2>8 DEF Marker
  <2> QED
    BY <1>1, <2>2, <2>6, <2>9 DEF SettledFor, cs
<1>7. CASE a.op = "close"
  <2>1. cs = [beads EXCEPT ![a.id]["open"] = FALSE]
    BY <1>7 DEF Effect
  <2>2. grade[u] = "PROVEN" /\ (a.id \in Own(beads, u) \/ Own(beads, u) = {}) /\ a.id \in DOMAIN beads
    BY <1>3, <1>7 DEF Decides
  <2> HIDE DEF cs
  <2>3. ~cs[a.id].open
    <3>1. "open" \in DOMAIN beads[a.id]
      BY <2>2 DEF BeadsFit, BeadFields
    <3> QED
      BY <2>1, <2>2, <3>1
  <2>4. Shrinks(beads, cs)
    BY <2>1, <2>2, SetShrinks
  <2>5. Own(cs, u) \subseteq Own(beads, u) /\ a.id \notin Own(cs, u)
    BY <1>1, <2>3, <2>4 DEF Shrinks, Own, Open
  <2>6. Own(cs, u) = {}
    BY <1>2, <2>2, <2>5
  <2> QED
    BY <1>1, <2>2, <2>6 DEF SettledFor, cs
<1>8. CASE a.op = "noop"
  <2>1. cs = beads
    BY <1>8 DEF Effect
  <2>2. \A i \in Own(beads, u) : Cardinality(Own(beads, u)) = 1
    BY <1>2, FS_Singleton
  <2> HIDE DEF cs
  <2>3. SettledFor(beads, grade, u)
    BY <1>2, <1>8, <2>2 DEF Decides, SettledFor
  <2> QED
    BY <2>1, <2>3 DEF cs
<1> QED
  BY <1>4, <1>5, <1>6, <1>7, <1>8 DEF ActionFits

\* What the ends of proofs, and people, do to what the queue works on.
LEMMA OthersShrink ==
  ASSUME Apart, QueueFits, ProofEnds \/ PeopleBead
  PROVE  Shrinks(beads, beads')
<1>1. BeadsFit(beads) /\ IsSeq(beads)
  BY DEF QueueFits, BeadsFit
<1>2. CASE ProofEnds
  <2>1. PICK u \in Unit, g \in Grade :
          beads' = IF ByTitle(beads, u) = Nil THEN beads
                   ELSE IF g = "PROVEN" THEN [beads EXCEPT ![ByTitle(beads, u)].open = FALSE]
                   ELSE [beads EXCEPT ![ByTitle(beads, u)].note = g]
    BY <1>2 DEF ProofEnds
  <2> DEFINE own == ByTitle(beads, u)
  <2>2. own # Nil => own \in DOMAIN beads
    BY <1>1, OwnBead DEF Own, Open
  <2> HIDE DEF own
  <2>3. CASE own = Nil
    BY <2>1, <2>3 DEF own, Shrinks
  <2>4. CASE own # Nil /\ g = "PROVEN"
    <3>1. beads' = [beads EXCEPT ![own]["open"] = FALSE]
      BY <2>1, <2>4 DEF own
    <3> QED
      BY <1>1, <2>2, <2>4, <3>1, SetShrinks
  <2>5. CASE own # Nil /\ g # "PROVEN"
    <3>1. beads' = [beads EXCEPT ![own]["note"] = g]
      BY <2>1, <2>5 DEF own
    <3> QED
      BY <1>1, <2>2, <2>5, <3>1, SetShrinks
  <2> QED
    BY <2>3, <2>4, <2>5
<1>3. CASE \E t \in Written : beads' = File(t, Nil)
  <2>1. PICK t \in Written : beads' = Append(beads, [title |-> t, body |-> Nil, note |-> Nil, open |-> TRUE])
    BY <1>3 DEF File
  <2>2. \A u \in Unit : u # t
    BY DEF Apart
  <2> DEFINE cs == beads'
  <2>a. /\ DOMAIN cs = DOMAIN beads \cup {Len(cs)} /\ (\A i \in DOMAIN beads : cs[i] = beads[i]) 
        /\ cs[Len(cs)].title = t /\ cs[Len(cs)].body = Nil
    BY <1>1, <2>1, BeadFiled
  <2> HIDE DEF cs
  <2>b. \A u \in Unit : Own(cs, u) \subseteq Own(beads, u)
    BY <2>2, <2>a DEF Own, Open
  <2>3. \A u \in Unit : Own(beads', u) \subseteq Own(beads, u)
    BY <2>b DEF cs
  <2>c. Plain(beads) => Plain(cs)
    BY <2>a DEF Plain
  <2>4. Plain(beads) => Plain(beads')
    BY <2>c DEF cs
  <2> QED
    BY <2>3, <2>4 DEF Shrinks
<1>4. CASE \E i \in Open(beads) : beads' = [beads EXCEPT ![i].open = FALSE]
  <2>1. PICK i \in Open(beads) : beads' = [beads EXCEPT ![i]["open"] = FALSE]
    BY <1>4
  <2>2. i \in DOMAIN beads
    BY DEF Open
  <2> QED
    BY <1>1, <2>1, <2>2, SetShrinks
<1> QED
  BY <1>2, <1>3, <1>4 DEF PeopleBead

\* A step of others, and one that leaves the beads as they are.
LEMMA SettleBeside ==
  ASSUME SettleIInv, tool = "queue", tool' = tool, Shrinks(beads, beads'), UNCHANGED job, ~steady',
         job # Nil => \A k \in DOMAIN job.todo : job.todo[k].unit \in Unit
  PROVE  SettleIInv'
<1>1. Alone(beads) /\ Plain(beads) /\ (job # Nil => TodoFits)
  BY DEF SettleIInv
<1>2. Plain(beads') /\ \A u \in Unit : Own(beads', u) \subseteq Own(beads, u)
  BY <1>1 DEF Shrinks
<1>3. Alone(beads')
  BY <1>1, <1>2 DEF Alone
<1>4. ASSUME job # Nil PROVE TodoFits'
  BY <1>1, <1>2, <1>4 DEF TodoFits
<1> QED
  BY <1>2, <1>3, <1>4 DEF SettleIInv

LEMMA SettleRunStep ==
  ASSUME Apart, QueueFits, SettleIInv, tool = "queue", tool' = tool, QueueBegin \/ QueuePlan \/ QueueEnd \/ QueueGone
  PROVE  SettleIInv'
<1>1. UNCHANGED <<grade, beads>>
  BY DEF QueueBegin, QueuePlan, QueueEnd, QueueGone, queueVars
<1>2. Alone(beads') /\ Plain(beads')
  BY <1>1 DEF SettleIInv
<1>3. CASE QueueBegin
  <2>1. job' = [pc |-> "list", grade |-> grade, todo |-> <<>>, errors |-> FALSE]
    BY <1>3 DEF QueueBegin, Begin
  <2>2. job'.pc = "list" /\ DOMAIN job'.todo = {} /\ job'.grade = grade'
    BY <1>1, <2>1
  <2>3. TodoFits'
    BY <2>2 DEF TodoFits
  <2> QED
    BY <1>2, <2>3 DEF SettleIInv
<1>4. CASE job' = Nil
  BY <1>2, <1>4 DEF SettleIInv
<1>5. CASE QueuePlan /\ job' # Nil
  <2> DEFINE n == Cardinality(Unit)
             todo == [k \in 1..n |-> Reconcile(beads, job.grade, SetToSeq(Unit)[k])]
  <2>1. job # Nil /\ Set("todo", todo, "apply") /\ UNCHANGED steady
    BY <1>5 DEF QueuePlan, Stops, At, In, queueVars
  <2>2. /\ n \in Nat /\ \A k \in 1..n : SetToSeq(Unit)[k] \in Unit
        /\ \A k, l \in 1..n : SetToSeq(Unit)[k] = SetToSeq(Unit)[l] => k = l
        /\ \A u \in Unit : \E k \in 1..n : SetToSeq(Unit)[k] = u
    BY QueueAssumption, Listing
  <2>3. \A k \in 1..n : Decides(beads, job.grade, SetToSeq(Unit)[k], todo[k])
    BY <2>2, PlanDecides DEF QueueFits
  <2>4. DOMAIN todo = 1..n
    OBVIOUS
  <2> HIDE DEF todo, n
  <2>5. job'.pc = "apply" /\ job'.todo = todo /\ job'.grade = job.grade
    BY <2>1 DEF Set, QueueFits
  <2>6. \A k, l \in DOMAIN todo : todo[k].unit = todo[l].unit => k = l
    BY <2>2, <2>3, <2>4 DEF Decides
  <2>7. \A k \in DOMAIN todo : todo[k].op = "create" => Own(beads, todo[k].unit) = {}
    BY <2>3, <2>4 DEF Decides
  <2>8. steady => job.grade = grade
    BY <2>1 DEF SettleIInv, TodoFits
  <2>9. steady => \A u \in Unit : \E k \in DOMAIN todo : Decides(beads, grade, u, todo[k])
    BY <2>2, <2>3, <2>4, <2>8
  <2>10. TodoFits'
    BY <1>1, <2>1, <2>5, <2>6, <2>7, <2>8, <2>9 DEF TodoFits, Planned
  <2> QED
    BY <1>2, <2>10 DEF SettleIInv
<1>6. CASE QueueEnd
  <2>1. /\ job # Nil /\ job' = [job EXCEPT !.pc = "ended"] /\ job.pc = "apply" /\ job.todo = <<>> /\ UNCHANGED steady
    BY <1>6 DEF QueueEnd, Goto, At, In, queueVars
  <2>2. job'.pc = "ended" /\ job'.todo = job.todo /\ job'.grade = job.grade /\ job'.errors = job.errors
    BY <2>1 DEF QueueFits
  <2>3. TodoFits
    BY <2>1 DEF SettleIInv
  <2>4. TodoFits'
    BY <1>1, <2>1, <2>2, <2>3 DEF TodoFits, Planned, Past
  <2> QED
    BY <1>2, <2>4 DEF SettleIInv
<1>7. CASE QueueGone
  BY <1>4, <1>7 DEF QueueGone, Finish, Stops
<1> QED
  BY <1>3, <1>4, <1>5, <1>6, <1>7 DEF QueuePlan

\* What an action leaves of the invariant about beads alone.
LEMMA EffectAlone ==
  ASSUME BeadsFit(beads), NEW a, ActionFits(a, beads), a.op = "create" => Own(beads, a.unit) = {}, Alone(beads), Plain(beads),
         NEW cs, cs = Effect(a)
  PROVE  /\ Alone(cs) /\ Plain(cs) /\ \A u \in Unit : u # a.unit => Own(cs, u) \subseteq Own(beads, u)
<1>1. CASE a.op = "create"
  <2>1. cs = Append(beads, [title |-> a.unit, body |-> job.grade[a.unit], note |-> Nil, open |-> TRUE])
    BY <1>1 DEF Effect, File
  <2>2. a.unit \in Unit
    BY DEF ActionFits
  <2>5. DOMAIN cs = DOMAIN beads \cup {Len(cs)} /\ (\A i \in DOMAIN beads : cs[i] = beads[i]) /\ cs[Len(cs)].title = a.unit
    BY <2>1, BeadFiled
  <2>4. Plain(cs)
    BY <2>2, <2>5 DEF Plain
  <2>3. \A u \in Unit : u # a.unit => Own(cs, u) \subseteq Own(beads, u)
    BY <2>5 DEF Own, Open
  <2>6. Own(cs, a.unit) \subseteq {Len(cs)}
    BY <1>1, <2>5 DEF Own, Open
  <2>7. Alone(cs)
    BY <2>3, <2>6 DEF Alone
  <2> QED
    BY <2>3, <2>4, <2>7
<1>2. ASSUME Shrinks(beads, cs)
      PROVE  /\ Alone(cs) /\ Plain(cs) /\ \A u \in Unit : u # a.unit => Own(cs, u) \subseteq Own(beads, u)
  BY <1>2 DEF Shrinks, Alone
<1>3. CASE a.op = "comment"
  <2>1. cs = [beads EXCEPT ![a.id]["body"] = job.grade[a.unit]]
    BY <1>3 DEF Effect
  <2>2. a.id \in DOMAIN beads /\ beads[a.id].title \in Unit
    BY <1>3 DEF ActionFits
  <2> QED
    BY <1>2, <2>1, <2>2, SetShrinks
<1>4. CASE a.op = "adopt"
  <2>1. cs = [beads EXCEPT ![a.id]["note"] = job.grade[a.unit]]
    BY <1>4 DEF Effect
  <2>2. a.id \in DOMAIN beads
    BY <1>4 DEF ActionFits
  <2> QED
    BY <1>2, <2>1, <2>2, SetShrinks
<1>5. CASE a.op = "close"
  <2>1. cs = [beads EXCEPT ![a.id]["open"] = FALSE]
    BY <1>5 DEF Effect
  <2>2. a.id \in DOMAIN beads
    BY <1>5 DEF ActionFits
  <2> QED
    BY <1>2, <2>1, <2>2, SetShrinks
<1>6. CASE a.op = "noop"
  BY <1>2, <1>6 DEF Effect, Shrinks
<1> QED
  BY <1>1, <1>3, <1>4, <1>5, <1>6 DEF ActionFits

LEMMA SettleApplyStep ==
  ASSUME Apart, QueueFits, SettleIInv, tool = "queue", tool' = tool, QueueApply
  PROVE  SettleIInv'
<1> DEFINE a == Head(job.todo)
           todo == Tail(job.todo)
<1>1. /\ job # Nil /\ job.pc = "apply" /\ job.todo # <<>> /\ IsSeq(job.todo) /\ UNCHANGED <<grade, steady>>
      /\ DOMAIN job = {"pc", "grade", "todo", "errors"} /\ (\A k \in DOMAIN job.todo : ActionFits(job.todo[k], beads))
      /\ BeadsFit(beads)
  BY DEF QueueApply, At, In, QueueFits, BeadsFit
<1>2. Alone(beads) /\ Plain(beads) /\ TodoFits
  BY <1>1 DEF SettleIInv
<1>3. /\ a = job.todo[1] /\ 1 \in DOMAIN job.todo
      /\ \A k \in DOMAIN todo : k + 1 \in DOMAIN job.todo /\ todo[k] = job.todo[k + 1]
      /\ \A k \in DOMAIN job.todo : k # 1 => k - 1 \in DOMAIN todo /\ todo[k - 1] = job.todo[k]
  BY <1>1, SeqTail
<1>4. DOMAIN todo \subseteq Nat \ {0}
  <2>1. IsSeq(todo)
    BY <1>1, SeqTail
  <2> QED
    BY <2>1, IsSeqLen
<1> HIDE DEF a, todo
<1>5. /\ job'.pc = "apply" /\ job'.todo = todo /\ job'.grade = job.grade
  <2>1. job' = [job EXCEPT !.todo = Tail(@)] \/ job' = [job EXCEPT !.todo = Tail(@), !.errors = TRUE]
    BY DEF QueueApply
  <2> QED
    BY <1>1, <2>1 DEF todo
<1>6. \A k \in DOMAIN todo : todo[k].unit # a.unit
  BY <1>2, <1>3, <1>4 DEF TodoFits
<1>7. \A k, l \in DOMAIN todo : todo[k].unit = todo[l].unit => k = l
  BY <1>2, <1>3, <1>4 DEF TodoFits
<1>8. ActionFits(a, beads) /\ a.unit \in Unit /\ (a.op = "create" => Own(beads, a.unit) = {})
  BY <1>1, <1>2, <1>3 DEF TodoFits, ActionFits
<1>9. \A k \in DOMAIN todo : todo[k].unit \in Unit /\ (todo[k].op = "create" => Own(beads, todo[k].unit) = {})
  <2>1. \A k \in DOMAIN job.todo : job.todo[k].unit \in Unit
    BY <1>1 DEF ActionFits
  <2>2. \A k \in DOMAIN job.todo : job.todo[k].op = "create" => Own(beads, job.todo[k].unit) = {}
    BY <1>2 DEF TodoFits
  <2>3. \A k \in DOMAIN todo : k + 1 \in DOMAIN job.todo /\ todo[k] = job.todo[k + 1]
    BY <1>3
  <2> QED
    BY <2>1, <2>2, <2>3
<1>10. Alone(beads') /\ Plain(beads') /\ \A u \in Unit : u # a.unit => Own(beads', u) \subseteq Own(beads, u)
  <2>1. CASE beads' = Effect(a)
    <3> DEFINE cs == beads'
    <3>1. cs = Effect(a)
      BY <2>1
    <3> HIDE DEF cs
    <3>2. Alone(cs) /\ Plain(cs) /\ \A u \in Unit : u # a.unit => Own(cs, u) \subseteq Own(beads, u)
      BY <1>1, <1>2, <1>8, <3>1, EffectAlone
    <3> QED
      BY <3>2 DEF cs
  <2>2. CASE UNCHANGED beads
    BY <1>2, <2>2
  <2> QED
    BY <2>1, <2>2 DEF QueueApply, a
<1>11. \A k \in DOMAIN todo : todo[k].op = "create" => Own(beads', todo[k].unit) = {}
  BY <1>6, <1>9, <1>10
<1>12. steady' => job'.grade = grade'
  BY <1>1, <1>2, <1>5 DEF TodoFits
<1>13. ASSUME steady', ~job'.errors, NEW u \in Unit
       PROVE  (Planned(u) \/ Past(u))'
  <2>1. beads' = Effect(a) /\ job' = [job EXCEPT !.todo = Tail(@)]
    <3>1. CASE job' = [job EXCEPT !.todo = Tail(@), !.errors = TRUE]
      BY <1>1, <1>13, <3>1
    <3> QED
      BY <3>1 DEF QueueApply, a
  <2>2. steady /\ ~job.errors /\ job.grade = grade
    BY <1>1, <1>2, <1>13, <2>1 DEF TodoFits
  <2>3. \A w \in Unit : Planned(w) \/ Past(w)
    BY <1>1, <1>2, <2>2 DEF TodoFits
  <2>4. Decides(beads, grade, a.unit, a)
    <3>1. ~Past(a.unit)
      BY <1>3 DEF Past
    <3>2. PICK k \in DOMAIN job.todo : Decides(beads, grade, a.unit, job.todo[k])
      BY <1>8, <2>3, <3>1 DEF Planned
    <3>3. k = 1
      BY <1>2, <1>3, <3>2 DEF Decides, TodoFits
    <3> QED
      BY <1>3, <3>2, <3>3
  <2> DEFINE cs == beads'
  <2>5. cs = Effect(a)
    BY <2>1
  <2> HIDE DEF cs
  <2>6. CASE u = a.unit
    <3>1. SettledFor(cs, grade, u)
      BY <1>1, <1>2, <1>8, <2>2, <2>4, <2>5, <2>6, EffectSettles
    <3> QED
      BY <1>1, <1>5, <1>6, <2>6, <3>1 DEF Past, cs
  <2>7. CASE u # a.unit
    <3>1. SameFor(beads, cs, u)
      BY <1>1, <1>8, <2>4, <2>5, <2>7, EffectSame
    <3>2. CASE Past(u)
      <4>1. SettledFor(cs, grade, u)
        BY <3>1, <3>2, SameDecides DEF Past
      <4>2. \A k \in DOMAIN todo : todo[k].unit # u
        BY <1>3, <3>2 DEF Past
      <4> QED
        BY <1>1, <1>5, <4>1, <4>2 DEF Past, cs
    <3>3. CASE Planned(u)
      <4>1. PICK k \in DOMAIN job.todo : Decides(beads, grade, u, job.todo[k])
        BY <3>3 DEF Planned
      <4>2. k # 1
        BY <1>3, <2>7, <4>1 DEF Decides
      <4>3. Decides(cs, grade, u, job.todo[k])
        BY <3>1, <4>1, SameDecides
      <4>4. k - 1 \in DOMAIN todo /\ Decides(cs, grade, u, todo[k - 1])
        BY <1>3, <4>2, <4>3
      <4> QED
        BY <1>1, <1>5, <4>4 DEF Planned, cs
    <3> QED
      BY <2>3, <3>2, <3>3
  <2> QED
    BY <2>6, <2>7
<1>14. TodoFits'
  BY <1>5, <1>7, <1>11, <1>12, <1>13 DEF TodoFits
<1> QED
  BY <1>10, <1>14 DEF SettleIInv

LEMMA SettleInitInv == Init => SettleIInv
<1> SUFFICES ASSUME QueueInit, job = Nil
             PROVE  Alone(beads) /\ Plain(beads) /\ (job # Nil => TodoFits)
  BY DEF Init, JobInit, SettleIInv
<1>1. DOMAIN beads = {}
  BY DEF QueueInit
<1> QED
  BY <1>1 DEF Alone, Plain, Own, Open

LEMMA SettleNextInv == ASSUME Apart, QueueIInv, SettleIInv, [Next]_vars PROVE SettleIInv'
<1>1. UNCHANGED tool
  BY OnlyQueue
<1>2. CASE tool = "queue"
  <2>1. QueueFits
    BY <1>2 DEF QueueIInv
  <2>2. CASE QueueBegin \/ QueuePlan \/ QueueEnd \/ QueueGone
    BY <1>1, <1>2, <2>1, <2>2, SettleRunStep
  <2>3. CASE QueueApply
    BY <1>1, <1>2, <2>1, <2>3, SettleApplyStep
  <2>4. CASE ProofEnds \/ PeopleBead
    <3>1. UNCHANGED job /\ ~steady'
      BY <2>4 DEF ProofEnds, PeopleBead
    <3>2. job # Nil => \A k \in DOMAIN job.todo : job.todo[k].unit \in Unit
      BY <2>1 DEF QueueFits, ActionFits
    <3> QED
      BY <1>1, <1>2, <2>1, <2>4, <3>1, <3>2, OthersShrink, SettleBeside
  <2>5. CASE UNCHANGED <<queueVars, jobVars>>
    <3>1. UNCHANGED <<tool, grade, beads, steady, job>>
      BY <1>1, <2>5 DEF queueVars, jobVars
    <3> QED
      BY <3>1 DEF SettleIInv, TodoFits, Planned, Past
  <2> QED
    BY <1>2, <2>2, <2>3, <2>4, <2>5, OnlyQueue DEF QueueNext
<1>3. CASE tool # "queue"
  BY <1>1, <1>3 DEF SettleIInv
<1> QED
  BY <1>2, <1>3

\* The queue settles: after a run without errors and with nobody else at the beads, an unproven unit has one
\* bead that says so, of its own or of people's, and a proven one has none of its own, when no bead is about two
\* units (beads that name two are fought over: the last one's grade stays in the marker).
THEOREM Settles == ASSUME Apart PROVE Spec => []QueueSettles
<1>1. SettleIInv => QueueSettles
  <2> SUFFICES ASSUME SettleIInv, At("queue", "ended"), ~job.errors, steady, NEW u \in Unit
               PROVE  SettledFor(beads, grade, u)
    BY DEF QueueSettles, SettledFor, Own
  <2>1. TodoFits /\ job.pc = "ended" /\ DOMAIN job.todo = {}
    BY DEF SettleIInv, TodoFits, At, In
  <2>2. Past(u)
    BY <2>1 DEF TodoFits, Planned
  <2> QED
    BY <2>2 DEF Past
<1>2. QueueIInv /\ SettleIInv /\ [Next]_vars => SettleIInv'
  BY SettleNextInv
<1> QED
  BY <1>1, <1>2, SettleInitInv, QueueInvariant, PTL DEF Spec

(***************************************************************************)
(* The watch of releases: what comes up is filed once, and never taken for old.*)
(***************************************************************************)
Queued == {i \in Release : entries[i] = "queued"}
Comes(i) == up[i] = "to come" \/ i \in late

\* The units that list a place p had their baseline by the state s.
HasBase(s, p) ==
  /\ p \in Watches("daily") =>
       [by |-> "daily", of |-> p] \in s.units
       \/ (p \in Name /\ [by |-> "daily", of |-> "library"] \in s.units /\ p \notin s.library)
  /\ p \in Watches("digest") => [by |-> "digest", of |-> p] \in s.units

FilesFit ==
  /\ up \in [Release -> {"to come", "up", "gone"}] /\ entries \in Queue
  /\ state \in Seen /\ filed \in [Release -> Nat] /\ doubt \in [Release -> Nat] /\ late \subseteq Release
  /\ \A i \in Release : Comes(i) => state.items[i] # "baseline"
  /\ \A i \in late : HasBase(state, Where(i))
  /\ IsFiniteSet(Queued) /\ Cardinality(Queued) <= MaxQueued

\* A bead is on record, in hand, or in doubt.
Holding(i) == job # Nil /\ job.pc \in {"queue", "seen"} /\ i = job.item
Has(i) == Noted(i) \/ Holding(i)
OnRecord == \A i \in Release : filed[i] = doubt[i] + IF Has(i) THEN 1 ELSE 0
Told == {"filed", "queued"}

\* What the pass remembers is ahead of seen.json.
MemFits ==
  /\ state.units \subseteq job.mem.units /\ job.mem.library = state.library /\ job.queue = entries
  /\ \A i \in Release : state.items[i] # "new" => job.mem.items[i] # "new"
  /\ \A i \in Release : job.mem.items[i] \in Told <=> state.items[i] \in Told
  /\ \A i \in Release : Comes(i) => job.mem.items[i] # "baseline"

\* What it fetches, and which of its names it does not forget.
FetchFits ==
  /\ job.names \subseteq Library(job.by)
  /\ job.todo \cup job.fetched \subseteq job.names \cup {"hf"}
  /\ \A p \in job.fetched : \A i \in job.got[p] : i \in Of[p] /\ up[i] # "to come"
  /\ job.pc = "library" => job.names = {} /\ job.fetched = {}
  /\ \A p \in job.names : p \in job.todo \cup job.failed \cup job.fetched \/ Key(p) \in job.mem.units

\* The unit and the item in hand.
UnitFits ==
  /\ job.pc \in {"items", "queue", "seen"} => /\ job.unit.of \in job.fetched
                                              /\ job.unit.silent => job.got[job.unit.of] \cap late = {}
  /\ job.pc \in {"queue", "seen"} => job.item \in Release
  /\ job.pc = "queue" => Screened(job.item) /\ Cardinality(Queued) < MaxQueued
  /\ job.pc = "seen" /\ Screened(job.item) => entries[job.item] # "none"
  /\ job.pc = "queue" \/ (job.pc = "seen" /\ ~Screened(job.item)) => \A i \in Release : i = job.item => ~Noted(i)

PassFits ==
  /\ job \in Pass /\ MemFits /\ FetchFits /\ UnitFits

WatchIInv ==
  /\ FilesFit
  /\ tool = "watch" => OnRecord /\ (job # Nil => PassFits)
  /\ tool # "watch" => \A i \in Release : filed[i] = 0 /\ doubt[i] = 0 /\ ~Noted(i)

LEMMA OnlyWatch ==
  ASSUME [Next]_vars
  PROVE  /\ UNCHANGED tool
         /\ tool = "watch" => WatchNext \/ UNCHANGED <<watchVars, jobVars>>
         /\ tool # "watch" => UNCHANGED watchVars
BY DEF Next, BenchNext, vars, jobVars

\* An item comes up at one place.
LEMMA WhereItIs == ASSUME NEW p \in Place, NEW i \in Of[p] PROVE Where(i) = p /\ i \in Release
BY WatchAssumption DEF Where, Release

\* A baseline stays a baseline when units are added and, with their units, names of the library.
LEMMA BaseStays ==
  ASSUME NEW s, NEW t, NEW p, HasBase(s, p), s.units \subseteq t.units,
         \A q \in t.library \ s.library : [by |-> "daily", of |-> q] \in t.units
  PROVE  HasBase(t, p)
BY DEF HasBase

LEMMA WatchInitInv == Init => WatchIInv
<1> SUFFICES ASSUME WatchInit, job = Nil
             PROVE  WatchIInv
  BY DEF Init, JobInit
<1>1. /\ up \in [Release -> {"to come", "up", "gone"}] /\ entries \in Queue
      /\ state \in Seen /\ filed \in [Release -> Nat] /\ doubt \in [Release -> Nat] /\ late = {}
  BY DEF WatchInit, Seen, Queue
<1>2. \A i \in Release : state.items[i] = "new" /\ filed[i] = 0 /\ doubt[i] = 0 /\ entries[i] = "none"
  BY DEF WatchInit
<1>3. Queued = {}
  BY <1>2 DEF Queued
<1>4. IsFiniteSet(Queued) /\ Cardinality(Queued) = 0 /\ Cardinality(Queued) <= MaxQueued
  BY <1>3, FS_EmptySet, WatchAssumption
<1>5. FilesFit
  <2>1. \A i \in Release : state.items[i] # "baseline"
    BY <1>2
  <2> QED
    BY <1>1, <1>4, <2>1 DEF FilesFit
<1>6. \A i \in Release : ~Noted(i)
  BY <1>2 DEF Noted
<1>7. OnRecord
  BY <1>2, <1>6 DEF OnRecord, Has, Holding
<1> QED
  BY <1>2, <1>5, <1>6, <1>7 DEF WatchIInv

\* Steps that leave the files alone.
LEMMA FilesStay == ASSUME FilesFit, UNCHANGED watchVars PROVE FilesFit'
BY DEF FilesFit, watchVars, Comes, Queued

LEMMA RecordStays ==
  ASSUME OnRecord, UNCHANGED watchVars, \A i \in Release : Holding(i)' <=> Holding(i)
  PROVE  OnRecord'
BY DEF OnRecord, Has, Noted, watchVars

LEMMA MemStays ==
  ASSUME MemFits, UNCHANGED watchVars, job'.mem = job.mem, job'.queue = job.queue
  PROVE  MemFits'
BY DEF MemFits, watchVars, Comes

LEMMA FetchStays ==
  ASSUME FetchFits, UNCHANGED up, job'.by = job.by, job'.names = job.names, job'.todo = job.todo, job'.got = job.got, job'.fetched = job.fetched,
         job'.failed = job.failed, job'.pc # "library", job.mem.units \subseteq job'.mem.units
  PROVE  FetchFits'
BY DEF FetchFits, Key

LEMMA PassBegins ==
  ASSUME FilesFit, OnRecord, WatchBegin
  PROVE  PassFits' /\ OnRecord'
<1>1. UNCHANGED watchVars /\ job = Nil
  BY DEF WatchBegin, Begin
<1>2. PICK by \in {"daily", "digest"} :
        job' = [pc |-> "library", by |-> by, names |-> {}, listed |-> FALSE, failed |-> {}, todo |-> {}, fetched |-> {},
                got |-> [p \in Place |-> {}], mem |-> state, queue |-> entries, unit |-> Nil, items |-> {}, item |-> Nil, dirty |-> FALSE]
  BY DEF WatchBegin, Begin
<1>3. /\ job' \in Pass /\ job'.pc = "library" /\ job'.by = by /\ job'.names = {} /\ job'.todo = {} /\ job'.fetched = {}
      /\ job'.mem = state /\ job'.queue = entries
  BY <1>2 DEF FilesFit, Pass
<1>4. MemFits'
  BY <1>1, <1>3 DEF FilesFit, MemFits, watchVars, Comes
<1>6. FetchFits'
  BY <1>3 DEF FetchFits
<1>5. OnRecord'
  BY <1>1, <1>3, RecordStays DEF Holding
<1> QED
  BY <1>3, <1>4, <1>5, <1>6 DEF PassFits, UnitFits

\* The fetches.
LEMMA LibraryStep == ASSUME PassFits, FetchLibrary PROVE PassFits' /\ job.pc = "library"
<1>1. UNCHANGED watchVars /\ UNCHANGED up /\ job.pc = "library"
  BY DEF FetchLibrary, Fetching, At, watchVars
<1>2. CASE job' = [job EXCEPT !.pc = "fetch", !.todo = {"hf"}]
  <2>1. /\ job' \in Pass /\ job'.pc = "fetch" /\ job'.todo = {"hf"} /\ job'.mem = job.mem /\ job'.queue = job.queue
        /\ job'.by = job.by /\ job'.names = job.names /\ job'.got = job.got /\ job'.fetched = job.fetched /\ job'.failed = job.failed
    BY <1>2 DEF PassFits, Pass, Place
  <2>2. FetchFits'
    BY <1>1, <2>1 DEF PassFits, FetchFits, Key
  <2> QED
    BY <1>1, <2>1, <2>2, MemStays DEF PassFits, UnitFits
<1>3. CASE ~(job' = [job EXCEPT !.pc = "fetch", !.todo = {"hf"}])
  <2> DEFINE names == {n \in Library(job.by) : Listed(n) # {}}
  <2>1. job' = [job EXCEPT !.pc = "fetch", !.names = names, !.listed = TRUE, !.todo = names \cup {"hf"}]
    BY <1>3 DEF FetchLibrary
  <2>2. names \subseteq Library(job.by)
    OBVIOUS
  <2> HIDE DEF names
  <2>3. /\ job' \in Pass /\ job'.pc = "fetch" /\ job'.todo = names \cup {"hf"} /\ job'.names = names
        /\ job'.mem = job.mem /\ job'.queue = job.queue /\ job'.by = job.by /\ job'.got = job.got /\ job'.fetched = job.fetched /\ job'.failed = job.failed
    <3>1. names \subseteq Place
      BY <2>2 DEF Library, Place
    <3> QED
      BY <2>1, <3>1 DEF PassFits, Pass, Place
  <2>4. FetchFits'
    <3>1. job'.fetched \subseteq names \cup {"hf"}
      BY <1>1, <2>3 DEF PassFits, FetchFits
    <3> QED
      BY <1>1, <2>2, <2>3, <3>1 DEF PassFits, FetchFits, Key
  <2> QED
    BY <1>1, <2>3, <2>4, MemStays DEF PassFits, UnitFits
<1> QED
  BY <1>1, <1>2, <1>3

LEMMA FetchStep == ASSUME FilesFit, PassFits, FetchUnit PROVE PassFits' /\ job.pc = "fetch"
<1>1. UNCHANGED watchVars /\ UNCHANGED up /\ job.pc = "fetch"
  BY DEF FetchUnit, Fetching, At, watchVars
<1>2. PICK p \in job.todo :
        \/ job' = [job EXCEPT !.todo = @ \ {p}, !.fetched = @ \cup {p}, !.got[p] = Listed(p)]
        \/ job' = [job EXCEPT !.todo = @ \ {p}, !.failed = @ \cup {p}]
  BY DEF FetchUnit
<1>3. CASE job' = [job EXCEPT !.todo = @ \ {p}, !.fetched = @ \cup {p}, !.got[p] = Listed(p)]
  <2> DEFINE got == [job.got EXCEPT ![p] = Listed(p)]
             fetched == job.fetched \cup {p}
  <2>a. p \in Place /\ job.got \in [Place -> SUBSET Release] /\ Listed(p) \subseteq Release /\ fetched \subseteq Place
    BY DEF PassFits, Pass, Listed, Release
  <2>1. /\ got \in [Place -> SUBSET Release]
        /\ \A q \in fetched : \A i \in got[q] : i \in Of[q] /\ up[i] # "to come"
    BY <2>a DEF PassFits, FetchFits, Listed
  <2>b. job' = [job EXCEPT !.todo = @ \ {p}, !.fetched = fetched, !.got = got]
    BY <1>3
  <2> HIDE DEF got
  <2>2. /\ job' \in Pass /\ job'.pc = job.pc /\ job'.todo = job.todo \ {p} /\ job'.got = got /\ job'.fetched = fetched /\ job'.mem = job.mem
        /\ job'.queue = job.queue /\ job'.by = job.by /\ job'.names = job.names /\ job'.failed = job.failed
    BY <2>a, <2>1, <2>b DEF PassFits, Pass
  <2>3. FetchFits'
    BY <1>1, <2>1, <2>2 DEF PassFits, FetchFits, Key
  <2> QED
    BY <1>1, <2>2, <2>3, MemStays DEF PassFits, UnitFits
<1>4. CASE job' = [job EXCEPT !.todo = @ \ {p}, !.failed = @ \cup {p}]
  <2>1. /\ job' \in Pass /\ job'.pc = job.pc /\ job'.todo = job.todo \ {p} /\ job'.got = job.got /\ job'.fetched = job.fetched /\ job'.mem = job.mem
        /\ job'.queue = job.queue /\ job'.by = job.by /\ job'.names = job.names /\ job'.failed = job.failed \cup {p}
    BY <1>4 DEF PassFits, Pass
  <2>3. FetchFits'
    BY <1>1, <2>1 DEF PassFits, FetchFits, Key
  <2> QED
    BY <1>1, <2>1, <2>3, MemStays DEF PassFits, UnitFits
<1> QED
  BY <1>1, <1>2, <1>3, <1>4

\* The place of a unit is one the pass watches.
LEMMA GotPlace ==
  ASSUME FilesFit, PassFits, NEW p \in job.fetched
  PROVE  p \in Watches(job.by) /\ p \in Place /\ \A i \in job.got[p] : Where(i) = p /\ i \in Release
<1>1. p \in Watches(job.by) /\ p \in Place
  BY DEF PassFits, FetchFits, Watches, Library, Place
<1> QED
  BY <1>1, WhereItIs DEF PassFits, FetchFits

LEMMA TakeStep == ASSUME FilesFit, PassFits, TakeUnit PROVE PassFits' /\ job.pc = "fetch"
<1>1. UNCHANGED watchVars /\ job.pc = "fetch"
  BY DEF TakeUnit, Fetching, At
<1>2. PICK p \in job.fetched : Set("unit", [of |-> p, silent |-> Key(p) \notin job.mem.units /\ ~NewFamily(p)], "items")
  BY DEF TakeUnit
<1> DEFINE quiet == Key(p) \notin job.mem.units /\ ~NewFamily(p)
<1>3. quiet => job.got[p] \cap late = {}
  <2> SUFFICES ASSUME quiet, NEW i \in job.got[p], i \in late
               PROVE  FALSE
    OBVIOUS
  <2>1. p \in Watches(job.by) /\ HasBase(state, p)
    BY GotPlace DEF FilesFit
  <2>2. Key(p) \notin state.units
    BY DEF PassFits, MemFits
  <2>3. CASE job.by = "digest"
    BY <2>1, <2>2, <2>3 DEF HasBase, Key
  <2>4. CASE job.by = "daily"
    <3>1. p \in Name /\ [by |-> "daily", of |-> "library"] \in state.units /\ p \notin state.library
      BY <2>1, <2>2, <2>4 DEF HasBase, Key
    <3> QED
      BY <2>4, <3>1 DEF NewFamily, Key
  <2> QED
    BY <2>3, <2>4 DEF PassFits, Pass
<1> HIDE DEF quiet
<1> DEFINE unit == [of |-> p, silent |-> quiet]
<1>4. unit.of = p /\ (unit.silent => quiet)
  OBVIOUS
<1>a. quiet \in BOOLEAN /\ p \in Place
  BY GotPlace DEF quiet
<1>b. unit \in [of : Place, silent : BOOLEAN]
  BY <1>a
<1>5. job' = [job EXCEPT !["unit"] = unit, !.pc = "items"]
  BY <1>2 DEF Set, quiet
<1> HIDE DEF unit
<1>6. /\ job' \in Pass /\ job'.pc = "items" /\ job'.unit = unit /\ job'.todo = job.todo /\ job'.got = job.got /\ job'.fetched = job.fetched
      /\ job'.mem = job.mem /\ job'.queue = job.queue /\ job'.by = job.by /\ job'.names = job.names /\ job'.failed = job.failed
  BY <1>5, <1>b DEF PassFits, Pass
<1>7. UNCHANGED up /\ UNCHANGED late
  BY <1>1 DEF watchVars
<1>8. FetchFits'
  BY <1>6, <1>7, FetchStays DEF PassFits
<1>9. UnitFits'
  BY <1>3, <1>4, <1>6, <1>7 DEF UnitFits
<1> QED
  BY <1>1, <1>6, <1>8, <1>9, MemStays DEF PassFits

\* The items of a unit.
LEMMA UnitStays ==
  ASSUME UnitFits, UNCHANGED watchVars, job'.pc = "items", job.pc = "items", job'.unit = job.unit, job'.got = job.got,
         job'.fetched = job.fetched
  PROVE  UnitFits'
BY DEF UnitFits, watchVars

LEMMA InHand ==
  ASSUME FilesFit, PassFits, job.pc = "items", NEW i \in Remaining
  PROVE  /\ i \in Release /\ i \in job.got[job.unit.of] /\ job.mem.items[i] = "new" /\ job.queue[i] = "none"
         /\ state.items[i] = "new" /\ entries[i] = "none" /\ (job.unit.silent => i \notin late) /\ up[i] # "to come"
<1>1. i \in job.got[job.unit.of] /\ job.mem.items[i] = "new" /\ job.queue[i] = "none"
  BY DEF Remaining, Handled
<1>2. job.unit.of \in job.fetched /\ (job.unit.silent => i \notin late)
  BY <1>1 DEF PassFits, UnitFits
<1>3. i \in Release /\ up[i] # "to come"
  BY <1>1, <1>2, GotPlace DEF PassFits, FetchFits
<1> QED
  BY <1>1, <1>2, <1>3 DEF PassFits, MemFits

\* An item gets an outcome.
LEMMA PassedFits ==
  ASSUME FilesFit, PassFits, job.pc = "items", NEW i \in Remaining, NEW verdict \in {"baseline", "skipped"}, Passed(i, verdict),
         verdict = "baseline" => job.unit.silent, UNCHANGED watchVars
  PROVE  PassFits' /\ job'.pc = "items"
<1> DEFINE items == [job.mem.items EXCEPT ![i] = verdict]
           mem == [job.mem EXCEPT !.items = items]
<1>1. job.mem \in Seen /\ i \in Release
  BY InHand DEF PassFits, Pass
<1>2. /\ items \in [Release -> {"new", "baseline", "skipped", "filed", "queued"}] /\ items[i] = verdict
      /\ \A j \in Release \ {i} : items[j] = job.mem.items[j]
  BY <1>1 DEF Seen
<1>3. job' = [job EXCEPT !.items = @ \cup {i}, !.mem = mem, !.dirty = TRUE]
  BY DEF Passed
<1> HIDE DEF items
<1>4. mem \in Seen /\ mem.items = items /\ mem.units = job.mem.units /\ mem.library = job.mem.library
  BY <1>1, <1>2 DEF Seen
<1> HIDE DEF mem
<1>5. /\ job' \in Pass /\ job'.pc = "items" /\ job'.mem = mem /\ job'.todo = job.todo /\ job'.got = job.got /\ job'.fetched = job.fetched
      /\ job'.queue = job.queue /\ job'.by = job.by /\ job'.names = job.names /\ job'.failed = job.failed /\ job'.unit = job.unit
  <2> PICK its \in SUBSET Release : its = job.items \cup {i}
    BY <1>1 DEF PassFits, Pass
  <2>1. job' = [job EXCEPT !.items = its, !.mem = mem, !.dirty = TRUE]
    BY <1>3
  <2>2. job \in Pass
    BY DEF PassFits
  <2> QED
    BY ONLY job.pc = "items", <1>4, <2>1, <2>2, its \in SUBSET Release DEF Pass
<1>6. MemFits'
  <2>a. up[i] # "to come" /\ (job.unit.silent => i \notin late)
    BY InHand
  <2>1. \A j \in Release : Comes(j) => items[j] # "baseline"
    BY <1>2, <2>a DEF PassFits, MemFits, Comes
  <2>2. \A j \in Release : state.items[j] # "new" => items[j] # "new"
    BY <1>2 DEF PassFits, MemFits
  <2>3. UNCHANGED <<up, state, entries, late>>
    BY DEF watchVars
  <2>b. job.mem.items[i] = "new" /\ state.items[i] = "new"
    BY InHand
  <2>c. \A j \in Release : job.mem.items[j] \in Told <=> state.items[j] \in Told
    BY DEF PassFits, MemFits
  <2>4. \A j \in Release : items[j] \in Told <=> state.items[j] \in Told
    BY <1>1, <1>2, <2>b, <2>c DEF Told
  <2> QED
    BY <1>4, <1>5, <2>1, <2>2, <2>3, <2>4 DEF PassFits, MemFits, Comes
<1>7. UNCHANGED up
  BY DEF watchVars
<1> QED
  BY <1>4, <1>5, <1>6, <1>7, FetchStays, UnitStays DEF PassFits

LEMMA PutFits ==
  ASSUME FilesFit, PassFits, TakeBaseline \/ PutAside
  PROVE  PassFits' /\ job.pc = "items" /\ UNCHANGED watchVars
<1>1. job.pc = "items" /\ UNCHANGED watchVars
  BY DEF TakeBaseline, PutAside, Fetching, At
<1>2. PICK i \in Remaining :
        \/ job.unit.silent /\ Passed(i, "baseline")
        \/ Passed(i, "skipped")
        \/ job' = [job EXCEPT !.items = @ \cup {i}]
  BY DEF TakeBaseline, PutAside, Unread
<1>3. CASE job' = [job EXCEPT !.items = @ \cup {i}]
  <2>1. /\ job' \in Pass /\ job'.pc = "items" /\ job'.mem = job.mem /\ job'.todo = job.todo /\ job'.got = job.got /\ job'.fetched = job.fetched
        /\ job'.queue = job.queue /\ job'.by = job.by /\ job'.names = job.names /\ job'.failed = job.failed /\ job'.unit = job.unit
    <3> PICK its \in SUBSET Release : its = job.items \cup {i}
      BY <1>1, InHand DEF PassFits, Pass
    <3>1. job' = [job EXCEPT !.items = its]
      BY <1>3
    <3>2. job \in Pass
      BY DEF PassFits
    <3> QED
      BY ONLY <1>1, <3>1, <3>2, its \in SUBSET Release DEF Pass
  <2>2. UNCHANGED up
    BY <1>1 DEF watchVars
  <2> QED
    BY <1>1, <2>1, <2>2, MemStays, FetchStays, UnitStays DEF PassFits
<1> QED
  BY <1>1, <1>2, <1>3, PassedFits

\* A unit is done.
LEMMA UnitDoneStep == ASSUME FilesFit, PassFits, UnitDone PROVE PassFits' /\ job.pc = "items"
<1>1. job.pc = "items" /\ UNCHANGED watchVars /\ UNCHANGED <<up, state, entries, late>>
  BY DEF UnitDone, Fetching, At, watchVars
<1> DEFINE p == job.unit.of
           key == Key(p)
           units == job.mem.units \cup {key}
           mem == [job.mem EXCEPT !.units = units]
           got == [job.got EXCEPT ![p] = {}]
           fetched == job.fetched \ {p}
<1>2. p \in job.fetched /\ p \in Place /\ job.by \in {"daily", "digest"} /\ job.mem \in Seen
  BY <1>1, GotPlace DEF PassFits, Pass, UnitFits
<1>3. units \subseteq WatchUnit
  BY <1>2 DEF Key, WatchUnit, Seen
<1>4. job' = [job EXCEPT !.pc = "fetch", !.mem = mem, !.unit = Nil, !.items = {}, !.fetched = fetched, !.got = got,
                !.dirty = @ \/ Key(job.unit.of) \notin job.mem.units]
  BY DEF UnitDone
<1>5. got \in [Place -> SUBSET Release] /\ \A q \in fetched : got[q] = job.got[q]
  BY DEF PassFits, Pass
<1> HIDE DEF units, got, p, key
<1>6. mem \in Seen /\ mem.units = units /\ mem.items = job.mem.items /\ mem.library = job.mem.library
  BY <1>2, <1>3 DEF Seen
<1> HIDE DEF mem
<1>7. /\ job' \in Pass /\ job'.pc = "fetch" /\ job'.mem = mem /\ job'.todo = job.todo /\ job'.got = got /\ job'.fetched = fetched
      /\ job'.queue = job.queue /\ job'.by = job.by /\ job'.names = job.names /\ job'.failed = job.failed
  BY <1>4, <1>5, <1>6 DEF PassFits, Pass
<1>8. MemFits'
  BY <1>1, <1>6, <1>7 DEF PassFits, MemFits, Comes, units
<1>9. FetchFits'
  <2>1. \A q \in job.names : q \in job.todo \cup job.failed \cup fetched \/ Key(q) \in units
    BY <1>5 DEF PassFits, FetchFits, units, key
  <2>2. \A q \in fetched : \A i \in got[q] : i \in Of[q] /\ up[i] # "to come"
    BY <1>5 DEF PassFits, FetchFits
  <2>3. job.todo \cup fetched \subseteq job.names \cup {"hf"} /\ job.names \subseteq Library(job.by)
    BY <1>5 DEF PassFits, FetchFits
  <2> QED
    BY <1>1, <1>2, <1>6, <1>7, <2>1, <2>2, <2>3 DEF FetchFits, Key
<1> QED
  BY <1>1, <1>7, <1>8, <1>9 DEF PassFits, UnitFits

\* A bead is filed for the item in hand.
LEMMA LoseBeadStep ==
  ASSUME FilesFit, OnRecord, PassFits, job # Nil, LoseBead
  PROVE  FilesFit' /\ OnRecord' /\ PassFits'
<1>1. job.pc = "items" /\ UNCHANGED <<up, state, entries, late>>
  BY DEF LoseBead, Fetching, At
<1>2. PICK i \in Remaining :
        /\ filed' = [filed EXCEPT ![i] = @ + 1] /\ doubt' = [doubt EXCEPT ![i] = @ + 1]
        /\ job' = [job EXCEPT !.items = @ \cup {i}]
  BY DEF LoseBead, Unread
<1>3. PICK its \in SUBSET Release : its = job.items \cup {i}
  BY <1>1, InHand DEF PassFits, Pass
<1>4. /\ job' \in Pass /\ job'.pc = "items" /\ job'.mem = job.mem /\ job'.todo = job.todo /\ job'.got = job.got /\ job'.fetched = job.fetched
      /\ job'.queue = job.queue /\ job'.by = job.by /\ job'.names = job.names /\ job'.failed = job.failed /\ job'.unit = job.unit
  <2>1. job' = [job EXCEPT !.items = its]
    BY <1>2, <1>3
  <2>2. job \in Pass
    BY DEF PassFits
  <2> QED
    BY ONLY <1>1, <2>1, <2>2, its \in SUBSET Release DEF Pass
<1>5. MemFits' /\ FetchFits' /\ UnitFits'
  BY <1>1, <1>4, FetchStays DEF PassFits, MemFits, UnitFits, Comes
<1>6. filed \in [Release -> Nat] /\ doubt \in [Release -> Nat] /\ i \in Release
  BY <1>1, InHand DEF FilesFit
<1>7. /\ filed' \in [Release -> Nat] /\ doubt' \in [Release -> Nat]
      /\ \A j \in Release : filed'[j] = filed[j] + (IF j = i THEN 1 ELSE 0) /\ doubt'[j] = doubt[j] + (IF j = i THEN 1 ELSE 0)
  BY <1>2, <1>6
<1>8. FilesFit'
  BY <1>1, <1>7 DEF FilesFit, Comes, Queued
<1>9. \A j \in Release : Has(j)' <=> Has(j)
  BY <1>1, <1>4 DEF Has, Noted, Holding
<1>10. OnRecord'
  <2> SUFFICES ASSUME NEW j \in Release PROVE filed'[j] = doubt'[j] + IF Has(j)' THEN 1 ELSE 0
    BY DEF OnRecord
  <2>1. filed[j] = doubt[j] + IF Has(j) THEN 1 ELSE 0
    BY DEF OnRecord
  <2> QED
    BY <1>6, <1>7, <1>9, <2>1
<1> QED
  BY <1>4, <1>5, <1>8, <1>10 DEF PassFits

LEMMA FileBeadStep ==
  ASSUME FilesFit, OnRecord, PassFits, job # Nil, FileBead
  PROVE  FilesFit' /\ OnRecord' /\ PassFits'
<1>1. job.pc = "items" /\ UNCHANGED <<up, state, entries, late, doubt>>
  BY DEF FileBead, Fetching, At
<1>2. PICK i \in Remaining :
        /\ ~(Screened(i) /\ Full)
        /\ filed' = [filed EXCEPT ![i] = @ + 1]
        /\ job' = [job EXCEPT !.item = i, !.items = @ \cup {i}, !.pc = IF Screened(i) THEN "queue" ELSE "seen"]
  BY DEF FileBead, Fileable
<1>3. i \in Release /\ state.items[i] = "new" /\ entries[i] = "none"
  BY <1>1, InHand
<1> DEFINE pc == IF Screened(i) THEN "queue" ELSE "seen"
<1>4. pc \in {"queue", "seen"} /\ (pc = "queue" <=> Screened(i))
  OBVIOUS
<1>5. job' = [job EXCEPT !.item = i, !.items = @ \cup {i}, !.pc = pc]
  BY <1>2
<1> HIDE DEF pc
<1>6. /\ job' \in Pass /\ job'.pc = pc /\ job'.item = i /\ job'.mem = job.mem /\ job'.todo = job.todo /\ job'.got = job.got /\ job'.fetched = job.fetched
      /\ job'.queue = job.queue /\ job'.by = job.by /\ job'.names = job.names /\ job'.failed = job.failed /\ job'.unit = job.unit
  BY <1>3, <1>4, <1>5 DEF PassFits, Pass
<1>7. job' # Nil
  BY <1>6, PassAssumption
<1>8. MemFits'
  BY <1>1, <1>6 DEF PassFits, MemFits, Comes
<1>9. FetchFits'
  BY <1>1, <1>4, <1>6, FetchStays DEF PassFits
<1>10. filed \in [Release -> Nat] /\ doubt \in [Release -> Nat]
  BY DEF FilesFit
<1>11. filed' \in [Release -> Nat] /\ filed'[i] = filed[i] + 1 /\ \A j \in Release \ {i} : filed'[j] = filed[j]
  BY <1>2, <1>3, <1>10
<1>12. ~Has(i) /\ Has(i)' /\ \A j \in Release \ {i} : Has(j)' <=> Has(j)
  BY <1>1, <1>3, <1>4, <1>6, <1>7 DEF Has, Noted, Holding
<1>13. FilesFit'
  BY <1>1, <1>10, <1>11 DEF FilesFit, Comes, Queued
<1>14. OnRecord'
  <2> SUFFICES ASSUME NEW j \in Release PROVE filed'[j] = doubt[j] + IF Has(j)' THEN 1 ELSE 0
    BY <1>1 DEF OnRecord
  <2>1. filed[j] = doubt[j] + IF Has(j) THEN 1 ELSE 0
    BY DEF OnRecord
  <2> QED
    BY <1>10, <1>11, <1>12, <2>1
<1>15. UnitFits'
  <2>1. Screened(i) => Cardinality(Queued) < MaxQueued
    <3>1. job.queue = entries
      BY DEF PassFits, MemFits
    <3>2. {j \in Release : job.queue[j] = "queued"} = Queued
      BY <3>1 DEF Queued
    <3>3. ~Full => ~(Cardinality(Queued) >= MaxQueued)
      BY <3>2 DEF Full
    <3>4. Cardinality(Queued) \in Nat /\ MaxQueued \in Nat
      BY FS_CardinalityType, WatchAssumption DEF FilesFit
    <3> QED
      BY <1>2, <3>3, <3>4
  <2>2. job.unit.of \in job.fetched /\ (job.unit.silent => job.got[job.unit.of] \cap late = {})
    BY <1>1 DEF PassFits, UnitFits
  <2>3. Queued' = Queued /\ ~Noted(i)'
    BY <1>1, <1>3 DEF Queued, Noted
  <2> QED
    BY <1>1, <1>3, <1>4, <1>6, <2>1, <2>2, <2>3 DEF UnitFits
<1> QED
  BY <1>6, <1>8, <1>9, <1>13, <1>14, <1>15 DEF PassFits

\* Its screen is queued.
LEMMA SaveQueueStep ==
  ASSUME FilesFit, OnRecord, PassFits, job # Nil, SaveQueue
  PROVE  FilesFit' /\ OnRecord' /\ PassFits'
<1>1. job.pc = "queue" /\ UNCHANGED <<up, state, filed, late, doubt>>
  BY DEF SaveQueue, Fetching, At
<1>2. entries' = [entries EXCEPT ![job.item] = "queued"] /\ job' = [job EXCEPT !["queue"] = entries', !.pc = "seen"]
  BY DEF SaveQueue, Set, PassFits, MemFits
<1>3. job.item \in Release /\ entries \in Queue /\ Screened(job.item) /\ Cardinality(Queued) < MaxQueued
  BY <1>1 DEF PassFits, UnitFits, FilesFit
<1>4. entries' \in Queue /\ entries'[job.item] = "queued" /\ \A j \in Release \ {job.item} : entries'[j] = entries[j]
  BY <1>2, <1>3 DEF Queue
<1>5. /\ job' \in Pass /\ job'.pc = "seen" /\ job'.queue = entries' /\ job'.item = job.item /\ job'.mem = job.mem /\ job'.todo = job.todo
      /\ job'.got = job.got /\ job'.fetched = job.fetched /\ job'.by = job.by /\ job'.names = job.names /\ job'.failed = job.failed /\ job'.unit = job.unit
  BY <1>2, <1>4 DEF PassFits, Pass
<1>6. job' # Nil
  BY <1>5, PassAssumption
<1>7. MemFits'
  BY <1>1, <1>5 DEF PassFits, MemFits, Comes
<1>8. FetchFits'
  BY <1>1, <1>5, FetchStays DEF PassFits
<1>9. UnitFits'
  BY <1>1, <1>3, <1>4, <1>5 DEF PassFits, UnitFits
<1>10. OnRecord'
  <2>1. \A j \in Release : Has(j)' <=> Has(j)
    BY <1>1, <1>3, <1>4, <1>5, <1>6 DEF Has, Noted, Holding
  <2> QED
    BY <1>1, <2>1 DEF OnRecord
<1>11. Queued' = Queued \cup {job.item}
  BY <1>3, <1>4 DEF Queued
<1>12. IsFiniteSet(Queued') /\ Cardinality(Queued') <= MaxQueued
  <2>1. IsFiniteSet(Queued) /\ Cardinality(Queued) \in Nat /\ MaxQueued \in Nat
    BY FS_CardinalityType, WatchAssumption DEF FilesFit
  <2>2. IsFiniteSet(Queued \cup {job.item}) /\ Cardinality(Queued \cup {job.item}) <= Cardinality(Queued) + 1
    <3>1. /\ IsFiniteSet(Queued \cup {job.item})
          /\ Cardinality(Queued \cup {job.item}) = IF job.item \in Queued THEN Cardinality(Queued) ELSE Cardinality(Queued) + 1
      BY <2>1, FS_AddElement
    <3> QED
      BY <2>1, <3>1
  <2>3. Cardinality(Queued \cup {job.item}) \in Nat
    BY <2>2, FS_CardinalityType
  <2> QED
    BY <1>3, <1>11, <2>1, <2>2, <2>3
<1>13. FilesFit'
  BY <1>1, <1>4, <1>12 DEF FilesFit, Comes
<1> QED
  BY <1>5, <1>7, <1>8, <1>9, <1>10, <1>13 DEF PassFits

\* What the pass remembers is saved, with the outcome of the item in hand or without.
LEMMA MemSaved ==
  ASSUME FilesFit, MemFits, NEW m, m \in Seen, job.mem.units \subseteq m.units, \A i \in Release : Comes(i) => m.items[i] # "baseline",
         \A p \in m.library \ state.library : [by |-> "daily", of |-> p] \in m.units,
         UNCHANGED <<up, entries, filed, late, doubt>>, state' = m
  PROVE  FilesFit'
<1>1. state.units \subseteq m.units
  BY DEF MemFits
<1>2. \A i \in late : HasBase(m, Where(i))
  BY <1>1, BaseStays DEF FilesFit
<1> QED
  BY <1>2 DEF FilesFit, Comes, Queued

LEMMA SaveSeenStep ==
  ASSUME FilesFit, OnRecord, PassFits, job # Nil, SaveSeen
  PROVE  FilesFit' /\ OnRecord' /\ PassFits'
<1>1. job.pc = "seen" /\ UNCHANGED <<up, entries, filed, late, doubt>>
  BY DEF SaveSeen, Fetching, At
<1> DEFINE verdict == IF Screened(job.item) THEN "queued" ELSE "filed"
           items == [job.mem.items EXCEPT ![job.item] = verdict]
           mem == [job.mem EXCEPT !.items = items]
<1>2. state' = mem /\ job' = [job EXCEPT !.mem = mem, !.item = Nil, !.pc = "items"]
  BY DEF SaveSeen
<1>3. job.item \in Release /\ job.mem \in Seen
  BY <1>1 DEF PassFits, Pass, UnitFits
<1>4. verdict \in {"queued", "filed"}
  OBVIOUS
<1> HIDE DEF verdict
<1>5. /\ items \in [Release -> {"new", "baseline", "skipped", "filed", "queued"}] /\ items[job.item] = verdict
      /\ \A j \in Release \ {job.item} : items[j] = job.mem.items[j]
  BY <1>3, <1>4 DEF Seen
<1> HIDE DEF items
<1>6. mem \in Seen /\ mem.items = items /\ mem.units = job.mem.units /\ mem.library = job.mem.library
  BY <1>3, <1>5 DEF Seen
<1> HIDE DEF mem
<1>7. /\ job' \in Pass /\ job'.pc = "items" /\ job'.queue = job.queue /\ job'.mem = mem /\ job'.todo = job.todo
      /\ job'.got = job.got /\ job'.fetched = job.fetched /\ job'.by = job.by /\ job'.names = job.names /\ job'.failed = job.failed /\ job'.unit = job.unit
  BY <1>2, <1>6 DEF PassFits, Pass
<1>8. \A i \in Release : Comes(i) => items[i] # "baseline"
  BY <1>4, <1>5 DEF PassFits, MemFits
<1>9. mem.library = state.library
  BY <1>6 DEF PassFits, MemFits
<1>10. FilesFit'
  BY <1>1, <1>2, <1>6, <1>8, <1>9, MemSaved DEF PassFits
<1>11. MemFits'
  BY <1>1, <1>2, <1>6, <1>7, <1>8 DEF PassFits, MemFits, Comes
<1>12. FetchFits'
  BY <1>1, <1>6, <1>7, FetchStays DEF PassFits
<1>13. UnitFits'
  BY <1>1, <1>7 DEF PassFits, UnitFits
<1>14. \A i \in Release : state.items[i] # "new" => items[i] # "new"
  BY <1>4, <1>5 DEF PassFits, MemFits
<1>15. \A i \in Release : items[i] \in Told <=> i = job.item \/ state.items[i] \in Told
  BY <1>4, <1>5 DEF PassFits, MemFits, Told
<1>16. OnRecord'
  <2>1. \A i \in Release : Has(i)' <=> Has(i)
    BY <1>1, <1>2, <1>6, <1>7, <1>15 DEF Has, Noted, Holding, Told
  <2> QED
    BY <1>1, <2>1 DEF OnRecord
<1> QED
  BY <1>7, <1>10, <1>11, <1>12, <1>13, <1>16 DEF PassFits

\* A pass ends: every name it takes into the library has its baseline.
LEMMA PassDoneStep ==
  ASSUME FilesFit, OnRecord, PassFits, job # Nil, PassDone
  PROVE  FilesFit' /\ OnRecord' /\ job' = Nil
<1>1. /\ job.pc = "fetch" /\ job.todo = {} /\ job.fetched = {} /\ job' = Nil /\ UNCHANGED <<up, entries, filed, late, doubt>>
  BY DEF PassDone, Fetching, At, Finish
<1>2. /\ job.mem \in Seen /\ job.names \subseteq Library(job.by) /\ job.by \in {"daily", "digest"} /\ job.mem.library = state.library
      /\ \A i \in Release : Comes(i) => job.mem.items[i] # "baseline"
      /\ \A i \in Release : job.mem.items[i] \in Told <=> state.items[i] \in Told
  BY DEF PassFits, Pass, MemFits, FetchFits
<1> DEFINE library == job.by = "daily" /\ job.listed
           names == job.mem.library \cup Known
           units == job.mem.units \cup {Key("library")}
           new == [job.mem EXCEPT !.library = names, !.units = units]
<1>3. CASE state' = state
  <2>1. UNCHANGED watchVars
    BY <1>1, <1>3 DEF watchVars
  <2>2. OnRecord'
    BY <1>1, <2>1, RecordStays DEF Holding
  <2> QED
    BY <1>1, <2>1, <2>2, FilesStay
<1>a. ASSUME \A i \in Release : state'.items[i] = job.mem.items[i]
      PROVE  OnRecord'
  <2>1. \A i \in Release : Has(i)' <=> Has(i)
    BY <1>1, <1>2, <1>a DEF Has, Noted, Holding, Told
  <2> QED
    BY <1>1, <2>1 DEF OnRecord
<1>4. CASE state' = job.mem
  <2>1. FilesFit'
    BY <1>1, <1>2, <1>4, MemSaved DEF PassFits
  <2>2. OnRecord'
    BY <1>4, <1>a
  <2> QED
    BY <1>1, <2>1, <2>2
<1>5. CASE state' = new /\ library
  <2>1. \A p \in Known : [by |-> "daily", of |-> p] \in job.mem.units
    BY <1>1, <1>5 DEF PassFits, FetchFits, Known, Key
  <2>2. Known \subseteq Name
    BY <1>2, <1>5 DEF Known, Library
  <2>3. Key("library") \in WatchUnit
    BY <1>2 DEF Key, WatchUnit
  <2>4. names \subseteq Name /\ units \subseteq WatchUnit
    BY <1>2, <2>2, <2>3 DEF Seen
  <2>5. job.mem.units \subseteq units /\ \A p \in names \ state.library : [by |-> "daily", of |-> p] \in units
    BY <1>2, <2>1
  <2> HIDE DEF names, units
  <2>6. new \in Seen /\ new.library = names /\ new.units = units /\ new.items = job.mem.items
    BY <1>2, <2>4 DEF Seen
  <2>7. state' = new
    BY <1>5
  <2> HIDE DEF new
  <2>8. FilesFit'
    BY <1>1, <1>2, <2>5, <2>6, <2>7, MemSaved DEF PassFits
  <2>9. OnRecord'
    BY <1>a, <2>6, <2>7
  <2> QED
    BY <1>1, <2>8, <2>9
<1> QED
  BY <1>3, <1>4, <1>5 DEF PassDone

\* A pass is killed: the item in hand that no file has yet is in doubt.
LEMMA WatchKillStep ==
  ASSUME FilesFit, OnRecord, PassFits, job # Nil, WatchKill
  PROVE  FilesFit' /\ OnRecord' /\ job' = Nil
<1>1. /\ job' = Nil /\ UNCHANGED <<up, state, entries, filed, late>>
      /\ doubt' = IF job.pc = "queue" \/ (job.pc = "seen" /\ ~Screened(job.item)) THEN [doubt EXCEPT ![job.item] = @ + 1] ELSE doubt
  BY DEF WatchKill, Stops
<1>2. doubt \in [Release -> Nat] /\ filed \in [Release -> Nat] /\ (job.pc \in {"queue", "seen"} => job.item \in Release)
  BY DEF FilesFit, PassFits, UnitFits
<1> DEFINE Lost(i) == i = job.item /\ (job.pc = "queue" \/ (job.pc = "seen" /\ ~Screened(i)))
<1>5. doubt' \in [Release -> Nat] /\ \A i \in Release : doubt'[i] = doubt[i] + IF Lost(i) THEN 1 ELSE 0
  BY <1>1, <1>2
<1>3. FilesFit'
  BY <1>1, <1>5 DEF FilesFit, Comes, Queued
<1>4. OnRecord'
  <2> SUFFICES ASSUME NEW i \in Release
               PROVE  filed[i] = doubt'[i] + IF Has(i)' THEN 1 ELSE 0
    BY <1>1 DEF OnRecord
  <2>1. (Has(i)' <=> Noted(i)) /\ filed[i] = doubt[i] + IF Has(i) THEN 1 ELSE 0
    BY <1>1 DEF Has, Noted, Holding, OnRecord
  <2>2. Has(i) <=> Noted(i) \/ Lost(i)
    BY DEF Has, Holding, Noted, PassFits, UnitFits
  <2>3. Lost(i) => ~Noted(i)
    BY DEF PassFits, UnitFits
  <2> QED
    BY <1>2, <1>5, <2>1, <2>2, <2>3
<1> QED
  BY <1>1, <1>3, <1>4

\* Items come up and go, and the window takes a screen.
LEMMA WatchWorldStep ==
  ASSUME FilesFit, OnRecord, job # Nil => PassFits, WatchWorld
  PROVE  FilesFit' /\ OnRecord' /\ (job' # Nil => PassFits')
<1>1. CASE job = Nil /\ UNCHANGED <<jobVars, up, state, filed, late, doubt>> /\ \E i \in Release : entries[i] = "queued" /\ entries' = [entries EXCEPT ![i] = "taken"]
  <2>1. PICK i \in Release : entries[i] = "queued" /\ entries' = [entries EXCEPT ![i] = "taken"]
    BY <1>1
  <2>2. entries \in Queue /\ IsFiniteSet(Queued) /\ Cardinality(Queued) <= MaxQueued
    BY DEF FilesFit
  <2>3. entries' \in Queue /\ entries'[i] = "taken" /\ \A j \in Release \ {i} : entries'[j] = entries[j]
    BY <2>1, <2>2 DEF Queue
  <2>4. Queued' \subseteq Queued
    BY <2>3 DEF Queued
  <2>5. IsFiniteSet(Queued') /\ Cardinality(Queued') <= Cardinality(Queued)
    BY <2>2, <2>4, FS_Subset
  <2>6. Cardinality(Queued') <= MaxQueued
    <3>1. Cardinality(Queued) \in Nat /\ Cardinality(Queued') \in Nat /\ MaxQueued \in Nat
      BY <2>2, <2>5, FS_CardinalityType, WatchAssumption
    <3> QED
      BY <2>2, <2>5, <3>1
  <2>7. FilesFit'
    BY <1>1, <2>3, <2>5, <2>6 DEF FilesFit, Comes
  <2>8. OnRecord'
    <3>1. \A j \in Release : Has(j)' <=> Has(j)
      BY <1>1, <2>1, <2>3 DEF Has, Noted, Holding, jobVars
    <3> QED
      BY <1>1, <3>1 DEF OnRecord
  <2> QED
    BY <1>1, <2>7, <2>8 DEF jobVars
<1>2. CASE /\ UNCHANGED <<job, state, entries, filed, doubt>>
           /\ \E i \in Release :
                \/ /\ up[i] = "to come" /\ up' = [up EXCEPT ![i] = "up"]
                   /\ late' = IF HasBaseline(Where(i)) THEN late \cup {i} ELSE late
                \/ up[i] = "up" /\ up' = [up EXCEPT ![i] = "gone"] /\ UNCHANGED late
  <2>1. PICK i \in Release :
          \/ /\ up[i] = "to come" /\ up' = [up EXCEPT ![i] = "up"]
             /\ late' = IF HasBaseline(Where(i)) THEN late \cup {i} ELSE late
          \/ up[i] = "up" /\ up' = [up EXCEPT ![i] = "gone"] /\ UNCHANGED late
    BY <1>2
  <2>2. /\ up' \in [Release -> {"to come", "up", "gone"}] /\ \A j \in Release : up'[j] = "to come" => up[j] = "to come"
    BY <2>1 DEF FilesFit
  <2>3. \A j \in late' \ late : j = i /\ up[j] = "to come" /\ HasBaseline(Where(j))
    BY <2>1
  <2>4. late' \subseteq Release
    <3>1. late \subseteq Release
      BY DEF FilesFit
    <3>2. ASSUME NEW j \in late' PROVE j \in Release
      <4>1. j \in late \/ j = i
        BY <2>3
      <4> QED
        BY <3>1, <4>1
    <3> QED
      BY <3>2
  <2>5. \A j \in Release : up'[j] = "to come" \/ j \in late' => Comes(j)
    BY <2>2, <2>3 DEF Comes
  <2>6. \A p : HasBaseline(p) => HasBase(state, p)
    BY DEF HasBaseline, HasBase
  <2>7. \A j \in late' : HasBase(state, Where(j))
    BY <2>3, <2>6 DEF FilesFit
  <2>8. FilesFit'
    BY <1>2, <2>2, <2>4, <2>5, <2>7 DEF FilesFit, Comes, Queued
  <2>9. OnRecord'
    BY <1>2 DEF OnRecord, Has, Noted, Holding
  <2>10. ASSUME job # Nil
         PROVE  PassFits'
    <3>1. MemFits'
      BY <1>2, <2>5, <2>10 DEF PassFits, MemFits, Comes
    <3>2. \A p \in job.fetched : \A j \in job.got[p] : up[j] # "to come" /\ j \in Release
      BY <2>10, GotPlace DEF PassFits, FetchFits
    <3>3. \A p \in job.fetched : \A j \in job.got[p] : up'[j] # "to come"
      BY <2>2, <3>2
    <3>4. FetchFits'
      BY <1>2, <2>10, <3>3 DEF PassFits, FetchFits, Key
    <3>5. \A p \in job.fetched : job.got[p] \cap late' \subseteq late
      BY <2>3, <3>2
    <3>6. UnitFits'
      <4>1. UnitFits /\ Queued' = Queued /\ \A j \in Release : Noted(j)' <=> Noted(j)
        BY <1>2, <2>10 DEF PassFits, Queued, Noted
      <4> QED
        BY <1>2, <3>5, <4>1 DEF UnitFits
    <3> QED
      BY <1>2, <2>10, <3>1, <3>4, <3>6 DEF PassFits
  <2> QED
    BY <1>2, <2>8, <2>9, <2>10
<1> QED
  BY <1>1, <1>2 DEF WatchWorld

LEMMA WatchNextInv == ASSUME WatchIInv, [Next]_vars PROVE WatchIInv'
<1>1. UNCHANGED tool /\ FilesFit
  BY OnlyWatch DEF WatchIInv
<1>2. CASE tool = "watch"
  <2>1. FilesFit /\ OnRecord /\ (job # Nil => PassFits)
    BY <1>2 DEF WatchIInv
  <2> SUFFICES FilesFit' /\ OnRecord' /\ (job' # Nil => PassFits')
    BY <1>1, <1>2 DEF WatchIInv
  <2>2. CASE UNCHANGED <<watchVars, jobVars>>
    <3>1. UNCHANGED watchVars /\ UNCHANGED job
      BY <2>2 DEF jobVars
    <3>2. job # Nil => MemFits' /\ FetchFits' /\ UnitFits' /\ job \in Pass
      <4>1. job # Nil => MemFits /\ FetchFits /\ UnitFits /\ job \in Pass
        BY <2>1 DEF PassFits
      <4>2. job # Nil => UnitFits'
        BY <3>1, <4>1 DEF UnitFits, watchVars, Queued, Noted
      <4> QED
        BY <3>1, <4>1, <4>2 DEF MemFits, FetchFits, watchVars, Comes, Key
    <3>3. \A i \in Release : Holding(i)' <=> Holding(i)
      BY <3>1 DEF Holding
    <3> QED
      BY <2>1, <3>1, <3>2, <3>3, FilesStay, RecordStays DEF PassFits
  <2>3. CASE WatchBegin
    <3>1. UNCHANGED watchVars
      BY <2>3 DEF WatchBegin
    <3> QED
      BY <2>1, <2>3, <3>1, PassBegins, FilesStay
  <2>4. CASE FetchLibrary \/ FetchUnit \/ TakeUnit \/ TakeBaseline \/ PutAside \/ UnitDone
    <3>1. job # Nil /\ UNCHANGED watchVars
      BY <2>4 DEF FetchLibrary, FetchUnit, TakeUnit, TakeBaseline, PutAside, UnitDone, Fetching, At, In
    <3>2. PassFits' /\ job.pc \in {"library", "fetch", "items"}
      BY <2>1, <2>4, <3>1, LibraryStep, FetchStep, TakeStep, PutFits, UnitDoneStep
    <3>a. job \in Pass
      BY <2>1, <3>1 DEF PassFits
    <3>b. ASSUME FetchLibrary \/ TakeUnit \/ UnitDone PROVE job'.pc \in {"fetch", "items"}
      BY <3>a, <3>b DEF FetchLibrary, TakeUnit, UnitDone, Fetching, At, Set, Pass
    <3>c. ASSUME FetchUnit PROVE job'.pc = "fetch"
      <4>1. job.pc = "fetch" /\ job'.pc = job.pc
        BY <3>a, <3>c DEF FetchUnit, Fetching, At, Pass
      <4> QED
        BY <4>1
    <3>d. ASSUME TakeBaseline \/ PutAside PROVE job'.pc = "items"
      <4>1. job.pc = "items" /\ job'.pc = job.pc
        BY <3>a, <3>d DEF TakeBaseline, PutAside, Passed, Unread, Fetching, At, Pass
      <4> QED
        BY <4>1
    <3>e. job'.pc \in {"fetch", "items"}
      BY <2>4, <3>b, <3>c, <3>d
    <3>3. \A i \in Release : ~Holding(i) /\ ~Holding(i)'
      BY <3>2, <3>e DEF Holding
    <3> QED
      BY <2>1, <3>1, <3>2, <3>3, FilesStay, RecordStays
  <2>5. CASE FileBead \/ LoseBead \/ SaveQueue \/ SaveSeen \/ PassDone \/ WatchKill
    <3>1. job # Nil
      BY <2>5 DEF FileBead, LoseBead, SaveQueue, SaveSeen, PassDone, WatchKill, Fetching, At, In
    <3> QED
      BY <2>1, <2>5, <3>1, FileBeadStep, LoseBeadStep, SaveQueueStep, SaveSeenStep, PassDoneStep, WatchKillStep
  <2> QED
    BY <1>2, <2>1, <2>2, <2>3, <2>4, <2>5, OnlyWatch, WatchWorldStep DEF WatchNext
<1>3. CASE tool # "watch"
  <2>1. UNCHANGED watchVars
    BY <1>3, OnlyWatch
  <2>2. \A i \in Release : filed'[i] = 0 /\ doubt'[i] = 0 /\ ~Noted(i)'
    BY <1>3, <2>1 DEF WatchIInv, Noted, watchVars
  <2> QED
    BY <1>1, <1>3, <2>1, <2>2, FilesStay DEF WatchIInv
<1> QED
  BY <1>2, <1>3

\* A new release has one bead for its record, filed by one of the two passes
\* within the cap of the queue, and one for each lost answer or badly timed
\* kill; it is never taken for an old one.
THEOREM FiledOnceEach == Spec => []NewIsFiledOnce
<1>1. ASSUME WatchIInv PROVE NewIsFiledOnce
  <2>1. FiledOnce
    <3>1. CASE tool = "watch"
      BY <1>1, <3>1 DEF WatchIInv, OnRecord, Has, Holding, FiledOnce
    <3>2. CASE tool # "watch"
      BY <1>1, <3>2 DEF WatchIInv, FiledOnce
    <3> QED
      BY <3>1, <3>2
  <2> QED
    BY <1>1, <2>1 DEF WatchIInv, FilesFit, NewIsFiledOnce, LateIsNew, QueueCapped, Queued, Comes
<1> QED
  BY <1>1, WatchInitInv, WatchNextInv, PTL DEF Spec

(***************************************************************************)
(* All tools: what is recorded is not written again.                       *)
(***************************************************************************)
\* What is recorded is not written again, by none of the tools.
THEOREM RecordedOnce == Spec => WrittenOnce
<1>1. ASSUME Kept(camps, camps')
      PROVE  KeepsOutcomes
  BY <1>1 DEF Kept, KeepsOutcomes
<1>2. ASSUME PlanIInv, ProfileIInv, QueueIInv, CampIInv, [Next]_vars
      PROVE  KeepsResults /\ KeepsRecords /\ KeepsBodies /\ KeepsOutcomes
  BY <1>1, <1>2, PlanNextInv, ProfileNextInv, QueueNextInv, CampNextInv
<1>3. PlanIInv /\ ProfileIInv /\ QueueIInv /\ CampIInv /\ [Next]_vars
        => [KeepsResults /\ KeepsRecords /\ KeepsBodies /\ KeepsOutcomes]_vars
  BY <1>2
<1> QED
  BY <1>3, PlanInvariant, ProfileInvariant, QueueInvariant, CampInvariant, PTL DEF Spec, WrittenOnce
=============================================================================
