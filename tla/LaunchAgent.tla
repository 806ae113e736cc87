---------------------------- MODULE LaunchAgent ----------------------------
(***************************************************************************)
(* The gateway as a LaunchAgent: `gateway install`, `start`, `stop` and    *)
(* `remove` pin an export of the package, write a plist that names it and  *)
(* have launchd run it.  What they do to the profiles is in OmpProfiles.   *)
(*                                                                         *)
(* Abstractions.  The package is gateway.py and the rest, a version each;  *)
(* a digest is what it is of.  A gateway that listens answers in time.     *)
(* launchd lists a job for a while after its bootout, and the job's        *)
(* process may answer for a while; one that does not listen yet just dies. *)
(* launchctl always answers.  What stop asks of the ledger is in           *)
(* GatewayLease.                                                           *)
(***************************************************************************)
EXTENDS Job

CONSTANT Shell         \* where gateway commands run

VARIABLES source,      \* the package in the checkout
          exports,     \* gateway-exports: digest of the package -> the package
          plist,       \* the plist: digests of the export it names, or Nil
          agent,       \* launchd's job: listed, what it runs, its process
          dying,       \* a process of a job that was booted out still answers
          shells,      \* shell -> its command with its locals, or NoCommand
          hurry        \* history: whether commands overlapped, and whether one ended
                       \* that did not wait until the job it booted out was gone

agentVars == <<source, exports, plist, agent, dying, shells, hurry>>

NoJob == [listed |-> "no", runs |-> Nil, process |-> "none"]
NoCommand == [pc |-> "none"]

AgentInit ==
  /\ source = [gateway |-> 0, rest |-> 0] /\ exports = [x \in {} |-> Nil]
  /\ plist = Nil /\ agent = NoJob /\ dying = FALSE
  /\ shells = [s \in Shell |-> NoCommand] /\ hurry = {}

AgentTypeOK ==
  /\ agent.listed \in {"no", "yes", "leaving"} /\ agent.process \in {"none", "starting", "up"}
  /\ dying \in BOOLEAN /\ hurry \subseteq {"overlap", "unawaited"}
  /\ plist # Nil => DOMAIN plist = {"pkg", "sha"}

ShellAt(s, pc) == shells[s].pc = pc
ShellDo(s, c) == shells' = [shells EXCEPT ![s] = c]
ShellGoto(s, pc) == ShellDo(s, [shells[s] EXCEPT !.pc = pc])
ShellEnds(s) == ShellDo(s, NoCommand)
StillAgent == UNCHANGED <<job, source, exports, plist, agent, dying>>

Loaded == agent.listed # "no"
Answers == dying \/ agent.process = "up"

\* A command starts; install looks at a plist that is there first.
AgentBegin(s) ==
  /\ tool = "agent" /\ shells[s] = NoCommand /\ used.run < MaxRun /\ Count("run")
  /\ \E op \in {"install", "start", "stop", "remove"} :
       /\ op # "install" => plist # Nil
       /\ op = "start" => ~(Loaded /\ Answers)
       /\ ShellDo(s, [op |-> op, pc |-> CASE op = "install" -> IF plist = Nil THEN "status" ELSE "sha"
                                          [] op = "start" -> "boot" [] OTHER -> "halt",
                      first |-> TRUE, had |-> plist, before |-> [up |-> TRUE, plist |-> TRUE],
                      want |-> Nil, temp |-> Nil, again |-> FALSE, own |-> FALSE])
  /\ hurry' = IF \E t \in Shell : shells[t] # NoCommand THEN hurry \union {"overlap"} ELSE hurry
  /\ StillAgent

(***************************************************************************)
(* create_pinned_export, inside launchd_plist.                             *)
(***************************************************************************)
\* The digest of gateway.py, and only then that of the package.
ShaGateway(s) ==
  /\ ShellAt(s, "sha")
  /\ ShellDo(s, [shells[s] EXCEPT !.want = [sha |-> source.gateway, pkg |-> Nil], !.pc = "package"])
  /\ StillAgent /\ UNCHANGED <<used, hurry>>

\* _valid_export: the tree has both digests.
ValidExport(tree, want) == tree = want.pkg /\ tree.gateway = want.sha

\* gateway.install's way out of an error within it: it takes new routes back
\* behind a stop and removes a new plist, or leaves everything as it is.
InstallFails(s) ==
  \/ ShellEnds(s)
  \/ ~shells[s].before.up /\ ShellDo(s, [shells[s] EXCEPT !.op = "undo", !.temp = Nil, !.pc = "halt"])

\* The export is there: it must be what an existing plist names, when that is
\* compared before anything is done and again where a plist would be written.
Exported(s, good, want) ==
  LET c == shells[s] fits == good /\ (c.had = Nil \/ c.had = want)
  IN \/ fits /\ ShellDo(s, [c EXCEPT !.want = want, !.temp = Nil,
                             !.pc = IF c.first THEN "status" ELSE IF c.had = Nil THEN "write" ELSE "boot"])
     \/ ~fits /\ c.first /\ ShellEnds(s)
     \/ ~fits /\ ~c.first /\ InstallFails(s)

\* An export of that digest is used, or corrupt; otherwise one is made.
ShaPackage(s) ==
  /\ ShellAt(s, "package")
  /\ LET want == [shells[s].want EXCEPT !.pkg = source]
     IN IF want.pkg \in DOMAIN exports THEN Exported(s, ValidExport(exports[want.pkg], want), want)
        ELSE ShellDo(s, [shells[s] EXCEPT !.want = want, !.pc = "copy"])
  /\ StillAgent /\ UNCHANGED <<used, hurry>>

\* copytree, file after file, beside people who edit them.
ExportGateway(s) ==
  /\ ShellAt(s, "copy")
  /\ ShellDo(s, [shells[s] EXCEPT !.temp = source, !.pc = "copyrest"])
  /\ StillAgent /\ UNCHANGED <<used, hurry>>

ExportRest(s) ==
  /\ ShellAt(s, "copyrest")
  /\ ShellDo(s, [shells[s] EXCEPT !.temp.rest = source.rest, !.pc = "publish"])
  /\ StillAgent /\ UNCHANGED <<used, hurry>>

\* Verified, then renamed; over one that another command made meanwhile the
\* rename fails, and that one is verified.
Publish(s) ==
  /\ ShellAt(s, "publish")
  /\ LET c == shells[s] want == c.want
         there == want.pkg \in DOMAIN exports
         good == ValidExport(c.temp, want) /\ (there => ValidExport(exports[want.pkg], want))
     IN /\ Exported(s, good, want)
        /\ exports' = IF good THEN [id \in DOMAIN exports \union {want.pkg} |-> IF id \in DOMAIN exports THEN exports[id] ELSE c.temp]
                       ELSE exports
  /\ UNCHANGED <<job, used, source, plist, agent, dying, hurry>>

(***************************************************************************)
(* install_launch_agent and start_launch_agent.                            *)
(***************************************************************************)
\* The service must be up and listed, or neither.
InstallStatus(s) ==
  /\ ShellAt(s, "status")
  /\ IF Loaded # Answers THEN ShellEnds(s)
     ELSE ShellDo(s, [shells[s] EXCEPT !.before = [up |-> Answers, plist |-> plist # Nil], !.pc = "agent"])
  /\ StillAgent /\ UNCHANGED <<used, hurry>>

\* After the profiles: write_launch_agent looks at the plist for itself.
InstallAgent(s) ==
  /\ ShellAt(s, "agent")
  /\ ShellDo(s, [shells[s] EXCEPT !.had = plist, !.first = FALSE, !.pc = "sha"])
  /\ StillAgent /\ UNCHANGED <<used, hurry>>

WritePlist(s) ==
  /\ ShellAt(s, "write") /\ plist' = shells[s].want /\ ShellGoto(s, "boot")
  /\ UNCHANGED <<job, used, source, exports, agent, dying, hurry>>

Succeeds(s) == ShellDo(s, [shells[s] EXCEPT !.own = agent.process = "up", !.pc = "done"])

\* A job that is listed is only asked for its health, by start patiently.
Bootstrap(s) ==
  /\ ShellAt(s, "boot")
  /\ \/ /\ shells[s].op = "start" /\ UNCHANGED <<used, plist, agent>>
        /\ \/ plist = Nil /\ ShellEnds(s)
           \/ plist # Nil /\ Loaded /\ ShellGoto(s, "wait")
     \/ /\ Loaded /\ shells[s].op = "install" /\ UNCHANGED <<used, plist, agent>>
        /\ IF Answers THEN Succeeds(s) ELSE InstallFails(s)
     \/ /\ ~Loaded /\ plist # Nil /\ ShellGoto(s, "wait") /\ UNCHANGED <<used, plist>>
        /\ agent' = [listed |-> "yes", runs |-> plist, process |-> "starting"]
     \/ /\ ~Loaded /\ UNCHANGED agent
        /\ Upset \/ (plist = Nil /\ shells[s].op = "install" /\ UNCHANGED used)
        /\ IF shells[s].op = "install" THEN InstallFails(s) ELSE ShellEnds(s)
        /\ plist' = IF shells[s].op = "install" /\ shells[s].had = Nil THEN Nil ELSE plist
  /\ UNCHANGED <<job, source, exports, dying, hurry>>

BootedOut == [agent EXCEPT !.listed = "leaving", !.process = "none"]

\* Healthy, or not in time: an install boots its job out again without waiting,
\* and takes back a plist that it wrote.
WaitHealth(s) ==
  /\ ShellAt(s, "wait")
  /\ \/ Answers /\ Succeeds(s) /\ UNCHANGED <<plist, agent, dying, hurry>>
     \/ /\ ~Answers /\ shells[s].op # "install" /\ ShellEnds(s) /\ UNCHANGED <<plist, agent, dying, hurry>>
     \/ /\ ~Answers /\ shells[s].op = "install"
        /\ ShellGoto(s, "bootout") /\ UNCHANGED <<plist, agent, dying, hurry>>
  /\ UNCHANGED <<job, used, source, exports>>

InstallBootout(s) ==
  /\ ShellAt(s, "bootout")
  /\ agent' = IF Loaded THEN BootedOut ELSE agent
  /\ dying' = (dying \/ agent.process = "up") /\ hurry' = hurry \union {"unawaited"}
  /\ plist' = IF shells[s].had = Nil THEN Nil ELSE plist
  /\ InstallFails(s)
  /\ UNCHANGED <<job, used, source, exports>>

Done(s) == ShellAt(s, "done") /\ ShellEnds(s) /\ StillAgent /\ UNCHANGED <<used, hurry>>

(***************************************************************************)
(* stop_launch_agent and remove_launch_agent.                              *)
(***************************************************************************)
\* Without a plist there is nothing to stop.
Halt(s) ==
  /\ ShellAt(s, "halt")
  /\ IF plist = Nil THEN ShellEnds(s) ELSE ShellGoto(s, "unlisted")
  /\ IF plist # Nil /\ agent.listed = "yes"
     THEN agent' = BootedOut /\ dying' = (dying \/ agent.process = "up")
     ELSE UNCHANGED <<agent, dying>>
  /\ UNCHANGED <<job, used, source, exports, plist, hurry>>

\* Mutant of AwaitDown: a job that is not listed is down.
MutAwaitDown(s) ==
  /\ ShellAt(s, "unlisted") /\ ~Loaded /\ ShellGoto(s, "stopped")
  /\ StillAgent /\ UNCHANGED <<used, hurry>>

\* _await_gateway_down: first unlisted, then, at a later moment, silent; or it
\* takes too long, and what is half stopped stays so.
AwaitDown(s) ==
  /\ \/ ShellAt(s, "unlisted") /\ ~Loaded /\ ShellGoto(s, "silent")
     \/ ShellAt(s, "silent") /\ ShellGoto(s, IF Answers THEN "unlisted" ELSE "stopped")
     \/ ShellAt(s, "unlisted") /\ (Loaded \/ Answers) /\ ShellEnds(s)
  /\ hurry' = IF shells'[s] = NoCommand THEN hurry \union {"unawaited"} ELSE hurry
  /\ StillAgent /\ UNCHANGED used

\* stop is done.  remove, and an install undone, revert the profiles, or start
\* the service again if that is blocked, and stop once more before the plist
\* goes.
Stopped(s) ==
  /\ ShellAt(s, "stopped")
  /\ LET c == shells[s]
         stays == c.op = "stop" \/ (c.op = "undo" /\ c.before.plist)
     IN \/ stays /\ ShellEnds(s) /\ UNCHANGED plist
        \/ c.op # "stop" /\ ~c.again /\ ShellDo(s, [c EXCEPT !.op = "start", !.pc = "boot"]) /\ UNCHANGED plist
        \/ ~stays /\ ~c.again /\ ShellDo(s, [c EXCEPT !.again = TRUE, !.pc = "halt"]) /\ UNCHANGED plist
        \/ ~stays /\ c.again /\ ShellEnds(s) /\ plist' = Nil
  /\ UNCHANGED <<job, used, source, exports, agent, dying, hurry>>

(***************************************************************************)
(* launchd, people and kills.                                              *)
(***************************************************************************)
Launchd ==
  /\ tool = "agent"
  /\ \/ /\ agent.process = "starting" /\ ~dying /\ UNCHANGED <<dying, used>>
        /\ agent' = [agent EXCEPT !.process = "up"]
     \/ dying /\ dying' = FALSE /\ UNCHANGED <<agent, used>>
     \/ agent.listed = "leaving" /\ agent' = NoJob /\ UNCHANGED <<dying, used>>
     \/ agent.process = "up" /\ Upset /\ agent' = [agent EXCEPT !.process = "starting"] /\ UNCHANGED dying
  /\ UNCHANGED <<job, source, exports, plist, shells, hurry>>

AgentEdit ==
  /\ tool = "agent" /\ ByOthers
  /\ \E f \in {"gateway", "rest"} : source' = [source EXCEPT ![f] = used.edit + 1]
  /\ UNCHANGED <<job, exports, plist, agent, dying, shells, hurry>>

AgentKill(s) ==
  /\ shells[s] # NoCommand /\ Upset /\ ShellEnds(s)
  /\ hurry' = IF dying THEN hurry \union {"unawaited"} ELSE hurry
  /\ StillAgent

AgentNext ==
  \/ \E s \in Shell :
       \/ AgentBegin(s) \/ ShaGateway(s) \/ ShaPackage(s) \/ ExportGateway(s) \/ ExportRest(s) \/ Publish(s)
       \/ InstallStatus(s) \/ InstallAgent(s) \/ WritePlist(s) \/ Bootstrap(s) \/ WaitHealth(s) \/ InstallBootout(s) \/ Done(s)
       \/ Halt(s) \/ AwaitDown(s) \/ Stopped(s) \/ AgentKill(s)
  \/ Launchd \/ AgentEdit

(***************************************************************************)
(* Properties.                                                             *)
(***************************************************************************)
\* An export holds what its name says and a plist names one, whoever edits the
\* checkout while it is hashed and copied and whoever makes the same one.
ExportsArePinned ==
  /\ \A id \in DOMAIN exports : exports[id] = id
  /\ plist # Nil => plist.pkg \in DOMAIN exports /\ plist.sha = plist.pkg.gateway

\* launch_agent_code_status
CodeStatus == plist # Nil /\ plist.sha = source.gateway /\ plist.pkg \in DOMAIN exports

\* If the code status is fine, the gateway that serves runs the gateway.py of
\* the checkout: across edits, failed installs, crashes and removals, as long
\* as commands do not overlap.
StatusIsTrue == "overlap" \notin hurry /\ CodeStatus /\ agent.process = "up" => agent.runs.sha = source.gateway

\* A start or an install that reports success was answered by the process of
\* its job and not by one that a stop before it has left to die: unless
\* commands overlapped, or one that failed or was killed did not wait for it.
StartedIsServing == hurry = {} => \A s \in Shell : ShellAt(s, "done") => shells[s].own

\* The pin, from the checkout to the process that serves.
AgentIsPinned == ExportsArePinned /\ StatusIsTrue /\ StartedIsServing
=============================================================================
