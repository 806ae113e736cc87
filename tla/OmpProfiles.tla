---------------------------- MODULE OmpProfiles ----------------------------
(***************************************************************************)
(* omp_profiles.py (the managed `ollama` provider block of every profile's *)
(* models.yml) and the commands of gateway.py that install and remove the  *)
(* gateway around it: install, remove, start, stop.                        *)
(*                                                                         *)
(* Abstractions.  launchd and the gateway process are one `service` record:*)
(* loaded means loaded, healthy and serving; a bootstrap either serves or  *)
(* is undone.  The set of profiles is fixed.  Requests in flight are a     *)
(* choice of the environment (GatewayLease models them).  A unit of work   *)
(* of the launch agent is one step.                                        *)
(***************************************************************************)
EXTENDS OmpFiles

VARIABLES routes,     \* profiles.json: profile -> was models.yml created; or Nil
          service     \* LaunchAgent, store.accepting, routes known to the store

routeVars == <<routes, service>>

RoutesInit ==
  /\ routes = Nil
  /\ service = [plist |-> FALSE, loaded |-> FALSE, accepting |-> TRUE, stored |-> {}]

Routed == {p \in Profile : mdl[p] # Nil /\ mdl[p].ollama}
WithBlock(m) == [m EXCEPT !.ollama = TRUE]
\* _strip_block, and the removal of a file that install created.
Stripped(p, m, created) ==
  LET rest == [m EXCEPT !.ollama = FALSE] IN IF created /\ Blank(rest) THEN Nil ELSE rest

(***************************************************************************)
(* The LaunchAgent.                                                        *)
(***************************************************************************)
\* bootstrap and wait for health; the server opens admission as it starts.
Served(plist) == [service EXCEPT !.plist = plist, !.loaded = TRUE, !.accepting = TRUE]
Failure == MayFail /\ Count("failure")

(***************************************************************************)
(* install.                                                                *)
(***************************************************************************)
\* Everything is read before anything is written.  An installation that is
\* there already keeps its routes if all of them are still in place.
InstallBegin ==
  /\ ~(routes # Nil /\ service.plist /\ service.loaded)      \* the command's no-op
  /\ routes # Nil => Routed = Profile                         \* else ProfileConflict
  /\ Begin([tool |-> "route", op |-> "install", pc |-> IF routes = Nil THEN "write" ELSE "service",
            existed |-> routes # Nil, before |-> service, snap |-> mdl, done |-> {}])
  /\ UNCHANGED <<cfg, mdl, mishap, quiet, routeVars>>

\* The next profile gets its block, unless its file is no longer the one read
\* at the start or the write fails: then the profiles done so far are undone.
InstallWrite ==
  /\ At("route", "write") /\ cmd.done # Profile
  /\ \/ \E p \in Profile \ cmd.done :
          /\ mdl[p] = cmd.snap[p]
          /\ mdl' = [mdl EXCEPT ![p] = WithBlock(ModelsOf(mdl, p))]
          /\ cmd' = [cmd EXCEPT !.done = @ \cup {p}] /\ UNCHANGED used
     \/ (\E p \in Profile \ cmd.done : mdl[p] # cmd.snap[p]) /\ Goto("undo") /\ UNCHANGED <<mdl, used>>
     \/ Failure /\ Goto("undo") /\ UNCHANGED mdl
  /\ UNCHANGED <<cfg, mishap, quiet, routeVars>>

\* Mutant of InstallUndo: the first profile undone ends the undo.
MutUndoOne ==
  /\ At("route", "undo")
  /\ \/ \E p \in cmd.done : mdl' = [mdl EXCEPT ![p] = cmd.snap[p]]
     \/ cmd.done = {} /\ UNCHANGED mdl
  /\ Finish
  /\ UNCHANGED <<cfg, used, mishap, quiet, routeVars>>

\* A file that still is what install wrote goes back to what it was.
InstallUndo ==
  /\ At("route", "undo")
  /\ \/ \E p \in cmd.done :
          /\ mdl' = IF mdl[p] = WithBlock(ModelsOf(cmd.snap, p)) THEN [mdl EXCEPT ![p] = cmd.snap[p]] ELSE mdl
          /\ cmd' = [cmd EXCEPT !.done = @ \ {p}] /\ UNCHANGED <<used, mishap>>
     \/ cmd.done = {} /\ Finish /\ UNCHANGED <<mdl, used, mishap>>
     \/ /\ cmd.done # {} /\ Failure /\ Finish
        /\ mishap' = mishap \cup {"undo"} /\ UNCHANGED mdl
  /\ UNCHANGED <<cfg, quiet, routeVars>>

\* The manifest a later revert needs.
InstallManifest ==
  /\ At("route", "write") /\ cmd.done = Profile
  /\ \/ routes' = [p \in Profile |-> cmd.snap[p] = Nil] /\ Goto("service") /\ UNCHANGED used
     \/ Failure /\ Goto("undo") /\ UNCHANGED routes
  /\ UNCHANGED <<cfg, mdl, mishap, quiet, service>>

\* The store learns the routes and the LaunchAgent is started.
InstallService ==
  /\ At("route", "service")
  /\ \/ service' = [Served(TRUE) EXCEPT !.stored = Profile] /\ Goto("readback") /\ UNCHANGED used
     \/ /\ ~service.loaded /\ Failure /\ Goto("recover")
        /\ service' = [service EXCEPT !.stored = Profile]
  /\ UNCHANGED <<cfg, mdl, mishap, quiet, routes>>

\* omp lists every profile's catalog through the gateway.
InstallReadback ==
  /\ At("route", "readback")
  /\ \/ Finish /\ UNCHANGED used
     \/ Failure /\ Goto("recover")
  /\ UNCHANGED <<cfg, mdl, mishap, quiet, routeVars>>

\* Routes that were there before the command are kept.  New ones are reverted
\* behind a closed gate, unless requests are in flight or the service cannot
\* be stopped: then they are kept too.
InstallRecover ==
  /\ At("route", "recover")
  /\ \/ cmd.existed /\ service' = [service EXCEPT !.accepting = TRUE] /\ Finish
     \/ ~cmd.existed /\ \E active, stuck \in BOOLEAN :
          IF active \/ (stuck /\ service.loaded /\ ~cmd.before.loaded)
          THEN service' = [service EXCEPT !.accepting = TRUE] /\ Finish
          ELSE /\ service' = [service EXCEPT !.accepting = FALSE, !.loaded = cmd.before.loaded]
               /\ Goto("plan")
  /\ UNCHANGED <<cfg, mdl, used, mishap, quiet, routes>>

(***************************************************************************)
(* revert, for remove and for a failed install.                            *)
(***************************************************************************)
\* remove: plan, close admission, refuse over requests in flight, stop.
RemoveBegin ==
  /\ routes # Nil /\ Routed = Profile
  /\ Begin([tool |-> "route", op |-> "remove", pc |-> "stop", existed |-> TRUE, before |-> service,
            snap |-> mdl, done |-> {}])
  /\ service' = [service EXCEPT !.accepting = FALSE]
  /\ UNCHANGED <<cfg, mdl, mishap, quiet, routes>>

RemoveStop ==
  /\ At("route", "stop")
  /\ \/ service' = [service EXCEPT !.loaded = FALSE] /\ Goto("plan")
     \/ service' = [service EXCEPT !.accepting = TRUE] /\ Finish   \* active requests, or the stop failed
  /\ UNCHANGED <<cfg, mdl, used, mishap, quiet, routes>>

\* Every block is validated before the first profile is changed.
RevertPlan ==
  /\ At("route", "plan")
  /\ IF Routed = Profile THEN cmd' = [cmd EXCEPT !.pc = "revert", !.snap = mdl, !.done = {}]
                         ELSE Goto("blocked")
  /\ UNCHANGED <<cfg, mdl, used, mishap, quiet, routeVars>>

RevertWrite ==
  /\ At("route", "revert") /\ cmd.done # Profile
  /\ \/ \E p \in Profile \ cmd.done :
          /\ mdl[p] = cmd.snap[p]
          /\ mdl' = [mdl EXCEPT ![p] = Stripped(p, mdl[p], routes[p])]
          /\ cmd' = [cmd EXCEPT !.done = @ \cup {p}] /\ UNCHANGED used
     \/ (\E p \in Profile \ cmd.done : mdl[p] # cmd.snap[p]) /\ Goto("redo") /\ UNCHANGED <<mdl, used>>
     \/ Failure /\ Goto("redo") /\ UNCHANGED mdl
  /\ UNCHANGED <<cfg, mishap, quiet, routeVars>>

\* A revert that fails half-way puts its own edits back.
RevertRedo ==
  /\ At("route", "redo")
  /\ \/ \E p \in cmd.done :
          /\ mdl' = IF mdl[p] = Stripped(p, cmd.snap[p], routes[p]) THEN [mdl EXCEPT ![p] = cmd.snap[p]] ELSE mdl
          /\ cmd' = [cmd EXCEPT !.done = @ \ {p}] /\ UNCHANGED <<used, mishap>>
     \/ cmd.done = {} /\ Goto("blocked") /\ UNCHANGED <<mdl, used, mishap>>
     \/ /\ cmd.done # {} /\ Failure /\ Goto("blocked")
        /\ mishap' = mishap \cup {"undo"} /\ UNCHANGED mdl
  /\ UNCHANGED <<cfg, quiet, routeVars>>

\* A blocked revert keeps the routes and brings the service back.
RevertBlocked ==
  /\ At("route", "blocked")
  /\ LET open == [service EXCEPT !.accepting = TRUE,
                                 !.stored = IF cmd.op = "install" THEN Profile ELSE @] IN
     \/ /\ service' = IF service.plist /\ (cmd.op = "remove" \/ ~cmd.before.loaded)
                       THEN [open EXCEPT !.loaded = TRUE] ELSE open
        /\ UNCHANGED used
     \/ Failure /\ service' = open
  /\ Finish
  /\ UNCHANGED <<cfg, mdl, mishap, quiet, routes>>

\* The manifest goes when every profile is back.
RevertDone ==
  /\ At("route", "revert") /\ cmd.done = Profile
  /\ routes' = Nil
  /\ Goto("cleanup")
  /\ UNCHANGED <<cfg, mdl, used, mishap, quiet, service>>

\* remove forgets the stored routes and deletes the plist; a failed install
\* restores what the store and launchd had before it.
RouteCleanup ==
  /\ At("route", "cleanup")
  /\ service' = IF cmd.op = "remove"
                THEN [service EXCEPT !.stored = {}, !.plist = FALSE]
                ELSE [service EXCEPT !.stored = cmd.before.stored, !.accepting = cmd.before.accepting,
                                     !.plist = cmd.before.plist]
  /\ Finish
  /\ UNCHANGED <<cfg, mdl, used, mishap, quiet, routes>>

(***************************************************************************)
(* start and stop.                                                         *)
(***************************************************************************)
Start ==
  /\ service.plist /\ ~service.loaded
  /\ cmd = Idle /\ used.command < MaxCommand /\ Count("command")
  /\ service' = Served(TRUE)
  /\ UNCHANGED <<cfg, mdl, cmd, mishap, quiet, routes>>

\* stop leaves admission closed behind it, or reopens it when refused.
StopBegin ==
  /\ service.plist
  /\ Begin([tool |-> "route", op |-> "stop", pc |-> "halt"])
  /\ service' = [service EXCEPT !.accepting = FALSE]
  /\ UNCHANGED <<cfg, mdl, mishap, quiet, routes>>

StopEnd ==
  /\ At("route", "halt")
  /\ service' \in {[service EXCEPT !.loaded = FALSE], [service EXCEPT !.accepting = TRUE]}
  /\ Finish
  /\ UNCHANGED <<cfg, mdl, used, mishap, quiet, routes>>

RoutesNext ==
  \/ InstallBegin \/ InstallWrite \/ InstallUndo \/ InstallManifest \/ InstallService
  \/ InstallReadback \/ InstallRecover
  \/ RemoveBegin \/ RemoveStop \/ RevertPlan \/ RevertWrite \/ RevertRedo \/ RevertBlocked
  \/ RevertDone \/ RouteCleanup
  \/ Start \/ StopBegin \/ StopEnd
=============================================================================
