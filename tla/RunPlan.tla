------------------------------- MODULE RunPlan -------------------------------
(***************************************************************************)
(* scripts/run_plan.py: a proof plan runs in an export of one commit, and  *)
(* its new receipts and run directories are copied to the checkout before  *)
(* the export goes.                                                        *)
(*                                                                         *)
(* Abstractions.  A receipt or run directory is its name and what wrote    *)
(* it; the proof writes any of them, one after the other.  Looking for a   *)
(* target and copying to it is one step, which may break off in the middle *)
(* (the heavy slot keeps the proofs apart, and the copies follow the proof *)
(* at once).                                                               *)
(***************************************************************************)
EXTENDS Job

CONSTANTS Receipt,    \* names of receipts
          RunDir      \* names of run directories

\* What wrote a file: a proof, (below 0) somebody else, or a copy that broke off.
Writer == Int \cup {Nil}
Part == 0
Result == Receipt \cup RunDir

ASSUME PlanAssumption == Nil \notin [pin : [Receipt -> Writer], files : [Result -> Writer]]

VARIABLES head,       \* what HEAD of the checkout holds: receipt -> writer or Nil
          root,       \* the checkout's files: name -> writer or Nil
          export,     \* the export under var/agent-tmp: Nil, or [pin, files]
          lost        \* history: what was given up, as <<writer, name>>: a proof that
                      \* was timed out or interrupted, an export somebody removed

planVars == <<head, root, export, lost>>

Nothing(S) == [n \in S |-> Nil]

PlanInit ==
  /\ head = Nothing(Receipt) /\ root = Nothing(Result)
  /\ export = Nil /\ lost = {}

PlanTypeOK == root \in [Result -> Writer] /\ head \in [Receipt -> Writer]

PlanBegin ==
  /\ export = Nil
  /\ \E execute \in BOOLEAN :
       Begin([pc |-> "export", id |-> used.run + 1, execute |-> execute, prior |-> Nil, todo |-> {}])
  /\ UNCHANGED planVars

\* HEAD is pinned, that commit archived, and its receipts remembered; a git or
\* tar failure, an unknown spec, a wrong Beads root or Ctrl-C leaves nothing.
PlanExport ==
  /\ At("plan", "export")
  /\ \/ /\ export' = [pin |-> head, files |-> [n \in Result |-> IF n \in Receipt THEN head[n] ELSE Nil]]
        /\ Set("prior", head, IF job.execute THEN "prove" ELSE "clean")
     \/ Fails("clean") /\ UNCHANGED export
  /\ UNCHANGED <<head, root, lost>>

\* The proof writes its results into the export.
PlanProve ==
  /\ At("plan", "prove")
  /\ \/ \E n \in Result :
          /\ export.files[n] # job.id
          /\ export' = [export EXCEPT !.files[n] = job.id] /\ UNCHANGED job
     \/ job' = [job EXCEPT !.pc = "persist", !.todo = Result] /\ UNCHANGED export
  /\ UNCHANGED <<used, head, root, lost>>

GivenUp(names) == lost' = lost \cup ({job.id} \X names)

\* 600 seconds, or Ctrl-C: the exception passes the copies and meets the cleanup.
PlanTimeout ==
  /\ At("plan", "prove")
  /\ Fails("clean") /\ GivenUp(Result)
  /\ UNCHANGED <<head, root, export>>

New(n) == export.files[n] # Nil /\ (n \in Receipt => export.files[n] # job.prior[n])
Clash(n) == root[n] # Nil /\ (n \in Receipt => root[n] # export.files[n])

\* New results are copied; one that would overwrite another stops the copies.
PlanPersist ==
  /\ At("plan", "persist") /\ job.todo # {}
  /\ \E n \in job.todo :
       /\ ~(New(n) /\ Clash(n))
       /\ root' = IF New(n) THEN [root EXCEPT ![n] = export.files[n]] ELSE root
       /\ job' = [job EXCEPT !.todo = @ \ {n}]
  /\ UNCHANGED <<used, head, export, lost>>

\* The copies end between two results, or inside one that had no target yet.
BreaksOff ==
  \/ UNCHANGED root
  \/ \E n \in job.todo : New(n) /\ root[n] = Nil /\ root' = [root EXCEPT ![n] = Part]

\* Then, when the disk fails, or when it is killed, the export stays.
PlanPreserve ==
  /\ At("plan", "persist")
  /\ \/ (\E n \in job.todo : New(n) /\ Clash(n)) /\ Finish /\ UNCHANGED root
     \/ Stops /\ BreaksOff
  /\ UNCHANGED <<head, export, lost>>

\* Ctrl-C is no Exception: nothing asks for the export to stay.
PlanInterrupt ==
  /\ At("plan", "persist")
  /\ Fails("clean") /\ GivenUp(job.todo) /\ BreaksOff
  /\ UNCHANGED <<head, export>>

PlanClean ==
  /\ In("plan") /\ (job.pc = "clean" \/ (job.pc = "persist" /\ job.todo = {}))
  /\ export' = Nil
  /\ Finish
  /\ UNCHANGED <<head, root, lost>>

PlanKill == In("plan") /\ Stops /\ UNCHANGED planVars

\* Others write receipts into the checkout, commit them, and tidy exports up.
PlanOthers ==
  \/ /\ ByOthers
     /\ \E n \in Result : root[n] = Nil /\ root' = [root EXCEPT ![n] = 0 - used.edit - 1]
     /\ UNCHANGED <<job, head, export, lost>>
  \/ /\ head # [n \in Receipt |-> root[n]]
     /\ head' = [n \in Receipt |-> root[n]]
     /\ UNCHANGED <<jobVars, root, export, lost>>
  \/ /\ job = Nil /\ export # Nil
     /\ export' = Nil
     /\ lost' = lost \cup {<<export.files[n], n>> : n \in Result}
     /\ UNCHANGED <<jobVars, head, root>>

PlanNext ==
  \/ PlanBegin \/ PlanExport \/ PlanProve \/ PlanTimeout \/ PlanPersist \/ PlanPreserve
  \/ PlanInterrupt \/ PlanClean \/ PlanKill \/ PlanOthers

(***************************************************************************)
(* Properties.                                                             *)
(***************************************************************************)
\* When an export goes, all that its proof wrote is whole in the checkout, but
\* for what the proof gave up itself: everything when it ran out of time or was
\* interrupted, what was not yet copied when Ctrl-C came in between the copies.
\* A copy that clashes, a full disk and a kill keep the export.  And nothing
\* in the checkout is ever replaced, not even by the rest of a broken copy.
KeepsResults ==
  /\ \A n \in Result : root[n] # Nil => root'[n] = root[n]
  /\ export # Nil /\ export' = Nil =>
       \A n \in Result : export.files[n] \in {Nil, root'[n]} \/ <<export.files[n], n>> \in lost'
=============================================================================
