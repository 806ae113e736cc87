----------------------------- MODULE ProofQueue -----------------------------
(***************************************************************************)
(* proofqueue.py and the bead updates of prove.py: one open bead for every *)
(* local route whose proof is missing, bad or stale, closed once the route *)
(* is proven.                                                              *)
(*                                                                         *)
(* Abstractions.  A unit is a feature on a route, and its exact title is   *)
(* the unit itself; Naming gives the other titles that start with its      *)
(* feature and contain its route.  The reason goes with the status.        *)
(***************************************************************************)
EXTENDS Job, SequencesExt

CONSTANTS Unit,      \* features on local routes
          Naming,    \* unit -> titles that name it and are not its own
          Written    \* titles people write

ASSUME QueueAssumption == IsFiniteSet(Unit) /\ Nil \notin Nat

VARIABLES grade,     \* unit -> its proof's grade
          beads,     \* all beads, by id: [title, body, note, open]
          steady     \* history: nobody else changed grades or beads since the queue read them

queueVars == <<grade, beads, steady>>

Trigger == {"UNPROVEN", "STALE"}
Grade == Trigger \cup {"PROVEN", "CARRIED"}
Title == Unit \cup Written

QueueInit ==
  /\ grade = [u \in Unit |-> "UNPROVEN"]
  /\ beads = <<>>
  /\ steady = FALSE

QueueTypeOK ==
  /\ grade \in [Unit -> Grade]
  /\ beads \in Seq([title : Title, body : Grade \cup {Nil}, note : Grade \cup {Nil}, open : BOOLEAN])

Open(bs) == {i \in DOMAIN bs : bs[i].open}
\* by_title: the last open bead of a title answers for it.
ByTitle(bs, t) == LET S == {i \in Open(bs) : bs[i].title = t} IN IF S = {} THEN Nil ELSE Max(S)
\* _adopted: the beads that name the unit and are not its own, by id.
Adopted(bs, u) == {i \in Open(bs) : bs[i].title \in Naming[u]}
\* _bead_marker: the body's marker, or the latest comment's.
Marker(bs, i) == IF bs[i].body # Nil THEN bs[i].body ELSE bs[i].note

Noop(u) == [op |-> "noop", unit |-> u, id |-> Nil]

\* Mutant of Reconcile: what a bead of the unit's own says is never updated.
MutReconcile(bs, g, u) ==
  LET own == ByTitle(bs, u)
      others == Adopted(bs, u)
      behind == {i \in others : Marker(bs, i) # g[u]}
  IN CASE own = Nil /\ g[u] \in Trigger /\ others = {} -> [op |-> "create", unit |-> u, id |-> Nil]
       [] own = Nil /\ g[u] \in Trigger /\ behind # {} -> [op |-> "adopt", unit |-> u, id |-> Min(behind)]
       [] own # Nil /\ g[u] = "PROVEN" -> [op |-> "close", unit |-> u, id |-> own]
       [] OTHER -> Noop(u)

\* plan, for one unit: file, update, adopt, close or leave its bead.
Reconcile(bs, g, u) ==
  LET own == ByTitle(bs, u)
      others == Adopted(bs, u)
      behind == {i \in others : Marker(bs, i) # g[u]}
  IN CASE own = Nil /\ g[u] \in Trigger /\ others = {} -> [op |-> "create", unit |-> u, id |-> Nil]
       [] own = Nil /\ g[u] \in Trigger /\ behind # {} -> [op |-> "adopt", unit |-> u, id |-> Min(behind)]
       [] own = Nil /\ g[u] = "PROVEN" /\ others # {} -> [op |-> "close", unit |-> u, id |-> Min(others)]
       [] own # Nil /\ g[u] \in Trigger /\ bs[own].body # g[u] -> [op |-> "comment", unit |-> u, id |-> own]
       [] own # Nil /\ g[u] = "PROVEN" -> [op |-> "close", unit |-> u, id |-> own]
       [] OTHER -> Noop(u)

\* collect: the grades, then the open beads.
QueueBegin ==
  /\ Begin([pc |-> "list", grade |-> grade, todo |-> <<>>, errors |-> FALSE])
  /\ steady' = TRUE
  /\ UNCHANGED <<grade, beads>>

\* The plan is made of what br lists now; no list, no queue.
QueuePlan ==
  /\ At("queue", "list")
  /\ \/ Set("todo", [k \in 1..Cardinality(Unit) |-> Reconcile(beads, job.grade, SetToSeq(Unit)[k])], "apply")
     \/ Stops
  /\ UNCHANGED queueVars

File(t, marker) == Append(beads, [title |-> t, body |-> marker, note |-> Nil, open |-> TRUE])

\* The br calls of an action.  An update rewrites the body, then comments.
Effect(a) ==
  CASE a.op = "create"  -> File(a.unit, job.grade[a.unit])
    [] a.op = "comment" -> [beads EXCEPT ![a.id].body = job.grade[a.unit]]
    [] a.op = "adopt"   -> [beads EXCEPT ![a.id].note = job.grade[a.unit]]
    [] a.op = "close"   -> [beads EXCEPT ![a.id].open = FALSE]
    [] a.op = "noop"    -> beads

\* One action after the other; a failed one is kept for the report.
QueueApply ==
  /\ At("queue", "apply") /\ job.todo # <<>>
  /\ \/ beads' = Effect(Head(job.todo)) /\ job' = [job EXCEPT !.todo = Tail(@)] /\ UNCHANGED used
     \/ /\ Head(job.todo).op # "noop" /\ Upset
        /\ job' = [job EXCEPT !.todo = Tail(@), !.errors = TRUE] /\ UNCHANGED beads
  /\ UNCHANGED <<grade, steady>>

QueueEnd ==
  /\ At("queue", "apply") /\ job.todo = <<>>
  /\ Goto("ended")
  /\ UNCHANGED queueVars

QueueGone ==
  /\ In("queue") /\ (At("queue", "ended") \/ used.upset < MaxUpset)
  /\ IF job.pc = "ended" THEN Finish ELSE Stops
  /\ UNCHANGED queueVars

\* prove.update_beads: a proof of a unit ends with a grade, its exact bead is
\* closed or commented on; no lookalike is.
ProofEnds ==
  /\ ByOthers
  /\ \E u \in Unit, g \in Grade :
       LET own == ByTitle(beads, u) IN
       /\ g # grade[u]
       /\ grade' = [grade EXCEPT ![u] = g]
       /\ beads' = IF own = Nil THEN beads
                   ELSE IF g = "PROVEN" THEN [beads EXCEPT ![own].open = FALSE]
                   ELSE [beads EXCEPT ![own].note = g]
  /\ steady' = FALSE
  /\ UNCHANGED job

\* People file beads of their own about a unit, and close beads.
PeopleBead ==
  /\ ByOthers
  /\ \/ \E t \in Written : beads' = File(t, Nil)
     \/ \E i \in Open(beads) : beads' = [beads EXCEPT ![i].open = FALSE]
  /\ steady' = FALSE
  /\ UNCHANGED <<job, grade>>

QueueNext ==
  QueueBegin \/ QueuePlan \/ QueueApply \/ QueueEnd \/ QueueGone \/ ProofEnds \/ PeopleBead

(***************************************************************************)
(* Properties.                                                             *)
(***************************************************************************)
\* After a queue run without errors, with nobody else at the beads, every
\* unproven unit has exactly one open bead of its own with its grade, or, if
\* people cover it already, none of its own and one of theirs that carries the
\* grade; and no proven unit keeps a bead of its own.
QueueSettles ==
  At("queue", "ended") /\ ~job.errors /\ steady =>
    \A u \in Unit :
      LET own == {i \in Open(beads) : beads[i].title = u} IN
      /\ grade[u] \in Trigger =>
           \/ Cardinality(own) = 1 /\ \A i \in own : beads[i].body = grade[u]
           \/ own = {} /\ \E i \in Adopted(beads, u) : Marker(beads, i) = grade[u]
      /\ grade[u] = "PROVEN" => own = {}

\* What people wrote in a bead is never rewritten: a pre-registration keeps
\* the words it was registered with, through every adoption and update.
KeepsBodies ==
  \A i \in DOMAIN beads : beads[i].title \notin Unit => beads'[i].body = beads[i].body
=============================================================================
