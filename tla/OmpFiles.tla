------------------------------ MODULE OmpFiles ------------------------------
(***************************************************************************)
(* The two files of an omp profile that localbench edits, config.yml and   *)
(* models.yml, and the frame of the commands that edit them: presets,      *)
(* the gateway routes and the smol role (modules Presets, OmpProfiles and  *)
(* SmolRole; OmpConfig composes them).                                     *)
(*                                                                         *)
(* Abstractions.  A file is a record of the parts some tool owns plus the  *)
(* set of hand edits it carries; two files are byte-identical when the     *)
(* records are equal.  One localbench command runs at a time; people and   *)
(* omp edit the files beside it.  Comparing a file and replacing it (two   *)
(* adjacent system calls) is one step.                                     *)
(***************************************************************************)
EXTENDS Integers, FiniteSets, Sequences, TLC

CONSTANTS Profile,     \* omp profiles that have a config.yml
          Bare,        \* the ones without a models.yml at first
          Nil,         \* no value: absent block, absent file, no command
          MaxCommand,  \* bound: localbench commands in a behaviour
          MaxEdit,     \* bound: edits by hand
          MaxDeath,    \* bound: commands killed half-way
          MaxFailure,  \* bound: writes, launches and probes that fail
          MaxUpset     \* bound: edits, deaths and failures together

VARIABLES cfg,      \* profile -> config.yml
          mdl,      \* profile -> models.yml, Nil when there is none
          cmd,      \* the running command and its locals, Idle between commands
          used,     \* how many commands, edits, deaths and failures there were
          mishap,   \* history: kinds of mishap so far (Mishap)
          quiet     \* history: hand edits made while no command was running

fileVars == <<cfg, mdl, cmd, used, mishap, quiet>>

Edit == 1..MaxEdit
HandSmol == "hand"          \* a smol line written by hand
OrigSmol == "orig"          \* the smol line profiles start with

Idle == [tool |-> "none"]     \* no command is running

EmptyModels == [sys1 |-> Nil, ollama |-> FALSE, smol |-> Nil, hand |-> {}]
\* models.yml of p as an editor sees it: an absent file is edited from empty.
ModelsOf(f, p) == IF f[p] = Nil THEN EmptyModels ELSE f[p]
\* Nothing but localbench's (removed) blocks is left in the file.
Blank(m) == m.sys1 = Nil /\ ~m.ollama /\ m.smol = Nil /\ m.hand = {}

\* A death, an edit under a command, an undo that failed, a restore that was
\* forced over later changes or cut, a rollback of an overtaken apply, a smol
\* set that recorded a line of localbench's own as the one to go back to.
Mishap == {"death", "race", "undo", "lossy", "order", "forgot"}

FilesInit ==
  /\ cfg = [p \in Profile |-> [judge |-> Nil, level |-> Nil, smol |-> OrigSmol, hand |-> {}]]
  /\ mdl = [p \in Profile |-> IF p \in Bare THEN Nil ELSE EmptyModels]
  /\ cmd = Idle
  /\ used = [command |-> 0, edit |-> 0, death |-> 0, failure |-> 0]
  /\ mishap = {}
  /\ quiet = {}

Count(kind) == used' = [used EXCEPT ![kind] = @ + 1]
Calm == used.edit + used.death + used.failure < MaxUpset
MayFail == used.failure < MaxFailure /\ Calm

\* A command starts with locals c; when it dies or ends, its locals are gone.
Begin(c) == cmd = Idle /\ used.command < MaxCommand /\ Count("command") /\ cmd' = c
At(tool, pc) == cmd.tool = tool /\ cmd.pc = pc
Goto(pc) == cmd' = [cmd EXCEPT !.pc = pc]
Finish == cmd' = Idle

(***************************************************************************)
(* The world beside the command.                                           *)
(***************************************************************************)
\* Somebody edits a file by hand, between commands or under a running one.
HandEdit ==
  /\ used.edit < MaxEdit /\ Calm
  /\ Count("edit")
  /\ \E p \in Profile, file \in {"config", "models", "smol"} :
       LET e == used.edit + 1 IN
       /\ CASE file = "config" -> cfg' = [cfg EXCEPT ![p].hand = @ \cup {e}] /\ UNCHANGED mdl
            [] file = "smol"   -> cfg' = [cfg EXCEPT ![p].smol = HandSmol] /\ UNCHANGED mdl
            [] file = "models" -> mdl' = [mdl EXCEPT ![p] = [ModelsOf(mdl, p) EXCEPT !.hand = @ \cup {e}]]
                                  /\ UNCHANGED cfg
       /\ quiet' = IF cmd = Idle /\ file # "smol" THEN quiet \cup {<<p, file, e>>} ELSE quiet
  /\ mishap' = IF cmd = Idle THEN mishap ELSE mishap \cup {"race"}
  /\ UNCHANGED cmd

\* The command is killed (SIGKILL, power loss): no except clause runs.
Death ==
  /\ cmd # Idle /\ used.death < MaxDeath /\ Calm
  /\ Count("death")
  /\ mishap' = mishap \cup {"death"}
  /\ Finish
  /\ UNCHANGED <<cfg, mdl, quiet>>
=============================================================================
