----------------------------- MODULE SmolRole ------------------------------
(***************************************************************************)
(* smol.py and `localbench smol`: omp's smol role on a server of its own.  *)
(*                                                                         *)
(* `set` starts the server, checks it and points every profile at it: the  *)
(* provider block into models.yml first, then the smol line of config.yml. *)
(* `revert` undoes it in the other order.  state.json holds what revert    *)
(* needs; start_server writes it too.                                      *)
(*                                                                         *)
(* Abstractions.  A selector stands for its model directory, binary and    *)
(* arguments.  A server that comes up serves the model it was started for  *)
(* or not (a choice); one that is parked is modelled in Park.  Every       *)
(* profile has a smol line.                                                *)
(***************************************************************************)
EXTENDS OmpFiles

CONSTANTS SmolModel     \* models a `smol set` may name

VARIABLES smolState,    \* state.json: [model, profiles (Nil when absent)] or Nil
          server,       \* the model the server on the smol port runs, or Nil
          autostart     \* the LaunchAgent's model, or Nil

smolVars == <<smolState, server, autostart>>

SmolInit == smolState = Nil /\ server = Nil /\ autostart = Nil

Recorded == smolState # Nil /\ smolState.profiles # Nil

\* start_server: a server that answers is kept and the state file is left
\* alone; otherwise it is started and the state at hand is saved.  With
\* autostart on, launchd starts it from a plist rewritten for the model.
StartServer(st) ==
  IF server # Nil THEN UNCHANGED smolVars
  ELSE /\ server' = st.model
       /\ smolState' = st
       /\ autostart' = IF autostart = Nil THEN Nil ELSE st.model

(***************************************************************************)
(* set.                                                                    *)
(***************************************************************************)
\* A server of another model is stopped; the new one starts or the command
\* fails with the profiles unchanged.
SmolSet ==
  \E m \in SmolModel :
    /\ Begin([tool |-> "smol", pc |-> "start", new |-> [model |-> m, profiles |-> Nil],
              prior |-> IF Recorded THEN smolState.profiles ELSE Nil, done |-> [p \in Profile |-> Nil],
              left |-> Profile, at |-> Nil])
    /\ server' = IF smolState # Nil /\ smolState.model # m THEN Nil ELSE server
    /\ UNCHANGED <<cfg, mdl, mishap, quiet, smolState, autostart>>

SmolStart ==
  /\ At("smol", "start")
  /\ \/ StartServer(cmd.new) /\ Goto("check") /\ UNCHANGED used
     \/ server = Nil /\ MayFail /\ Count("failure") /\ Finish /\ UNCHANGED smolVars
  /\ UNCHANGED <<cfg, mdl, mishap, quiet>>

\* The server must serve exactly the model and answer a chat.
SmolCheck ==
  /\ At("smol", "check")
  /\ \/ server = cmd.new.model /\ Goto("next") /\ UNCHANGED used
     \/ server # cmd.new.model /\ Finish /\ UNCHANGED used
     \/ MayFail /\ Count("failure") /\ Finish
  /\ UNCHANGED <<cfg, mdl, mishap, quiet, smolVars>>

Selector(m) == m
\* What revert needs for p: the smol value before, and whether models.yml is new.
Record(p) ==
  IF cfg[p].smol = Selector(cmd.new.model) /\ cmd.prior # Nil
  THEN cmd.prior[p]
  ELSE [previous |-> cfg[p].smol, created |-> mdl[p] = Nil]

\* Mutant of SmolBlock: a profile without models.yml gets no file.
MutBlockExisting ==
  /\ At("smol", "next")
  /\ \E p \in cmd.left :
       /\ mdl' = IF mdl[p] = Nil THEN mdl ELSE [mdl EXCEPT ![p].smol = cmd.new.model]
       /\ cmd' = [cmd EXCEPT !.pc = "line", !.at = p, !.done[p] = Record(p)]
       /\ mishap' = IF Record(p).previous \in SmolModel THEN mishap \cup {"forgot"} ELSE mishap
  /\ UNCHANGED <<cfg, used, quiet, smolVars>>

\* The provider block of one profile ...
SmolBlock ==
  /\ At("smol", "next")
  /\ \E p \in cmd.left :
       /\ mdl' = [mdl EXCEPT ![p] = [ModelsOf(mdl, p) EXCEPT !.smol = cmd.new.model]]
       /\ cmd' = [cmd EXCEPT !.pc = "line", !.at = p, !.done[p] = Record(p)]
       /\ mishap' = IF Record(p).previous \in SmolModel THEN mishap \cup {"forgot"} ELSE mishap
  /\ UNCHANGED <<cfg, used, quiet, smolVars>>

\* ... and then its smol line.
SmolLine ==
  /\ At("smol", "line")
  /\ cfg' = [cfg EXCEPT ![cmd.at].smol = Selector(cmd.new.model)]
  /\ cmd' = [cmd EXCEPT !.pc = "next", !.left = @ \ {cmd.at}]
  /\ UNCHANGED <<mdl, used, mishap, quiet, smolVars>>

SmolSave ==
  /\ At("smol", "next") /\ cmd.left = {}
  /\ smolState' = [cmd.new EXCEPT !.profiles = cmd.done]
  /\ Finish
  /\ UNCHANGED <<cfg, mdl, used, mishap, quiet, server, autostart>>

(***************************************************************************)
(* revert.                                                                 *)
(***************************************************************************)
SmolRevert ==
  /\ Recorded
  /\ Begin([tool |-> "smol", pc |-> "unline", left |-> Profile, at |-> Nil])
  /\ UNCHANGED <<cfg, mdl, mishap, quiet, smolVars>>

\* A smol line that still is the selector gets its recorded value back.
SmolUnline ==
  /\ At("smol", "unline")
  /\ \E p \in cmd.left :
       /\ cfg' = IF cfg[p].smol = Selector(smolState.model)
                 THEN [cfg EXCEPT ![p].smol = smolState.profiles[p].previous] ELSE cfg
       /\ cmd' = [cmd EXCEPT !.pc = "unblock", !.at = p]
  /\ UNCHANGED <<mdl, used, mishap, quiet, smolVars>>

\* The block goes, and a file that set created when nothing else is in it.
SmolUnblock ==
  /\ At("smol", "unblock")
  /\ LET p == cmd.at
         rest == [ModelsOf(mdl, p) EXCEPT !.smol = Nil] IN
     mdl' = [mdl EXCEPT ![p] = IF @ = Nil \/ (smolState.profiles[p].created /\ Blank(rest)) THEN Nil ELSE rest]
  /\ cmd' = [cmd EXCEPT !.left = @ \ {cmd.at}, !.pc = IF cmd.left = {cmd.at} THEN "halt" ELSE "unline"]
  /\ UNCHANGED <<cfg, used, mishap, quiet, smolVars>>

\* The server stops, the LaunchAgent goes and the state is set aside; a
\* server that does not stop leaves the state where it is.
SmolHalt ==
  /\ At("smol", "halt")
  /\ \/ server' = Nil /\ autostart' = Nil /\ smolState' = Nil /\ UNCHANGED used
     \/ server # Nil /\ MayFail /\ Count("failure") /\ UNCHANGED smolVars
  /\ Finish
  /\ UNCHANGED <<cfg, mdl, mishap, quiet>>

(***************************************************************************)
(* The server alone.                                                       *)
(***************************************************************************)
SmolServer ==
  /\ smolState # Nil /\ cmd = Idle
  /\ used.command < MaxCommand /\ Count("command")
  /\ \/ server = Nil /\ StartServer(smolState)                                \* start
     \/ server # Nil /\ server' = Nil /\ UNCHANGED <<smolState, autostart>>   \* stop
     \/ /\ autostart = Nil                                                    \* autostart on
        /\ autostart' = smolState.model /\ server' = smolState.model /\ UNCHANGED smolState
     \/ autostart # Nil /\ autostart' = Nil /\ server' = Nil /\ UNCHANGED smolState   \* off
  /\ UNCHANGED <<cfg, mdl, cmd, mishap, quiet>>

SmolNext ==
  \/ SmolSet \/ SmolStart \/ SmolCheck \/ SmolBlock \/ SmolLine \/ SmolSave
  \/ SmolRevert \/ SmolUnline \/ SmolUnblock \/ SmolHalt \/ SmolServer
=============================================================================
