-------------------------------- MODULE Job --------------------------------
(***************************************************************************)
(* The frame of the tools that run as one command: the command with its    *)
(* locals and its place in the code, and how it can be cut.                *)
(*                                                                         *)
(* A tool's module keeps in variables of its own what outlives a command   *)
(* (files, refs, beads, processes); `job` holds what dies with it.  Tools  *)
(* that share nothing are checked side by side: `tool` is the one that a   *)
(* behaviour is about.                                                     *)
(***************************************************************************)
EXTENDS Integers, FiniteSets, Sequences, TLC

CONSTANTS Nil,        \* no value
          Bound       \* bounds, for each tool: its commands, the changes by
                      \* others, and the kills, cancellations and failures

ASSUME JobAssumption == \A t \in DOMAIN Bound : Bound[t] \in [run : Nat, edit : Nat, upset : Nat]

VARIABLES tool,       \* the tool of this behaviour
          job,        \* the running command and its locals, Nil between commands
          used        \* how many commands, edits and upsets there were

jobVars == <<job, used>>

MaxRun == Bound[tool].run
MaxEdit == Bound[tool].edit
MaxUpset == Bound[tool].upset

JobInit == tool \in DOMAIN Bound /\ job = Nil /\ used = [run |-> 0, edit |-> 0, upset |-> 0]

JobTypeOK == used \in [run : 0..MaxRun, edit : 0..MaxEdit, upset : 0..MaxUpset]

Count(kind) == used' = [used EXCEPT ![kind] = @ + 1]

\* The function f with v at x.
Put(f, x, v) == [y \in DOMAIN f \cup {x} |-> IF y = x THEN v ELSE f[y]]

\* A command starts with locals c.
Begin(c) == job = Nil /\ used.run < MaxRun /\ Count("run") /\ job' = c
In(t) == tool = t /\ job # Nil
At(t, pc) == In(t) /\ job.pc = pc
Goto(pc) == job' = [job EXCEPT !.pc = pc] /\ UNCHANGED used
Set(field, v, pc) == job' = [job EXCEPT ![field] = v, !.pc = pc] /\ UNCHANGED used
Finish == job' = Nil /\ UNCHANGED used

\* Somebody else changes what the command works on.
ByOthers == used.edit < MaxEdit /\ Count("edit")

\* An upset: something fails, or the command is cancelled or killed.
Upset == used.upset < MaxUpset /\ Count("upset")
Fails(pc) == Upset /\ job' = [job EXCEPT !.pc = pc]
Stops == Upset /\ job' = Nil
=============================================================================
