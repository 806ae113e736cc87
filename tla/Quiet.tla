-------------------------------- MODULE Quiet --------------------------------
(***************************************************************************)
(* quiet.py: the managed browser's processes are stopped before a run and  *)
(* continued after it, from a record of pids and command lines.            *)
(*                                                                         *)
(* Abstractions.  A command line is the browser's or another program's.    *)
(* One `quiet` runs at a time: it asks the owner to confirm its plan.  A   *)
(* pause whose `ps` fails sees no browser and ends at once, with no step.  *)
(***************************************************************************)
EXTENDS Job

CONSTANT Pid

ASSUME QuietAssumption ==
  LET Row == [pid : Pid, cmd : {"browser"}] IN
  Nil \notin [pc : {"stop", "cont", "blind"}, plan : SUBSET Row, now : SUBSET Row]

VARIABLES proc,      \* the processes: pid -> Nil or [cmd, stopped]
          record,    \* runs/quiet.json: rows [pid, cmd], or Torn
          astray     \* history: pids a command lost track of

quietVars == <<proc, record, astray>>

Torn == {[pid |-> Nil, cmd |-> "torn"]}
Command == {"browser", "other"}

QuietInit ==
  /\ proc = [p \in Pid |-> [cmd |-> "browser", stopped |-> FALSE]]
  /\ record = {} /\ astray = {}

QuietTypeOK ==
  /\ proc \in [Pid -> {Nil} \cup [cmd : Command, stopped : BOOLEAN]]
  /\ record = Torn \/ record \subseteq [pid : Pid, cmd : Command]

Runs(p, cmd) == proc[p] # Nil /\ proc[p].cmd = cmd

\* plan_pause: every candidate that is not on record.
PausePlan == {r \in [pid : Pid, cmd : {"browser"}] : Runs(r.pid, r.cmd) /\ \A q \in record : q.pid # r.pid}

\* plan_resume: the rows whose pid still runs the recorded command.
ResumePlan == {r \in record : Runs(r.pid, r.cmd)}

\* cmd_quiet plans, asks and then signals; with nothing to do it ends.  To a
\* resume whose `ps` fails or times out no process runs: its plan is empty.
QuietBegin ==
  /\ record # Torn
  /\ \/ PausePlan # {} /\ Begin([pc |-> "stop", plan |-> PausePlan, now |-> {}])
     \/ record # {} /\ Begin([pc |-> "cont", plan |-> ResumePlan, now |-> {}])
     \/ record # {} /\ Begin([pc |-> "blind", plan |-> {}, now |-> {}])
  /\ UNCHANGED quietVars

\* One signal after the other; a process that is gone is passed over.
QuietSignal ==
  /\ In("quiet") /\ job.pc \in {"stop", "cont"}
  /\ \E r \in job.plan :
       /\ proc' = IF proc[r.pid] = Nil THEN proc ELSE [proc EXCEPT ![r.pid].stopped = (job.pc = "stop")]
       /\ job' = [job EXCEPT !.plan = @ \ {r}, !.now = IF proc[r.pid] = Nil THEN @ ELSE @ \cup {r}]
  /\ UNCHANGED <<used, record, astray>>

\* Mutant of Recorded: the new pauses replace the record.
MutRecorded == IF job.pc = "stop" THEN job.now ELSE {}

\* What a pause adds to the record; a resume forgets every row.
Recorded == IF job.pc = "stop" THEN record \cup job.now ELSE {}

PidsOf(rows) == {r.pid : r \in rows}

\* A kill in the write tears the file, and the owner has to remove it.
QuietSave ==
  /\ In("quiet") /\ job.plan = {}
  /\ \/ record' = Recorded /\ Finish /\ astray' = astray \cup IF job.pc = "blind" THEN PidsOf(record) ELSE {}
     \/ job.pc = "stop" /\ Recorded # {} /\ record' = Torn /\ Stops /\ astray' = astray \cup PidsOf(Recorded)
  /\ UNCHANGED proc

\* A kill, or a signal that is not permitted: what a pause stopped so far is
\* on no record.
QuietCut ==
  /\ In("quiet") /\ Stops
  /\ astray' = astray \cup IF job.pc = "stop" THEN PidsOf(job.now) ELSE {}
  /\ UNCHANGED <<proc, record>>

\* The pids a pause has still to stop.
ToStop == IF job # Nil /\ job.pc = "stop" THEN PidsOf(job.plan) ELSE {}

\* Processes end and pids are reused, by another program even between the plan
\* of a pause and its signal; the owner removes a record nobody can read.
QuietWorld ==
  \/ /\ ByOthers
     /\ \E p \in Pid :
          /\ proc' = [proc EXCEPT ![p] = Nil]
          /\ proc[p] # Nil
          /\ astray' = IF p \in ToStop THEN astray \cup {p} ELSE astray \ {p}
     /\ UNCHANGED <<job, record>>
  \/ /\ \E p \in Pid, c \in Command :
          proc[p] = Nil /\ proc' = [proc EXCEPT ![p] = [cmd |-> c, stopped |-> FALSE]]
     /\ UNCHANGED <<jobVars, record, astray>>
  \/ job = Nil /\ record = Torn /\ record' = {} /\ UNCHANGED <<jobVars, proc, astray>>

QuietNext == QuietBegin \/ QuietSignal \/ QuietSave \/ QuietCut \/ QuietWorld

(***************************************************************************)
(* Properties.                                                             *)
(***************************************************************************)
\* Between commands every stopped process is the browser's and on record with
\* its command line, so that a resume continues it, through any sequence of
\* pauses, resumes, kills, exits and reused pids.  Four ways alone leave one
\* out: a pause killed before it saved loses the pids it stopped itself, a
\* torn write all that it held, a resume whose `ps` failed the pids it forgot,
\* and a pid may change hands between the plan of a pause and its signal.
StoppedIsRecorded ==
  job = Nil =>
    \A p \in Pid \ astray :
      proc[p] # Nil /\ proc[p].stopped => proc[p].cmd = "browser" /\ [pid |-> p, cmd |-> "browser"] \in record
=============================================================================
