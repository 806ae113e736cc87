---------------------------- MODULE GatewayLease ----------------------------
(***************************************************************************)
(* The Ollama residency gateway (localbench/gateway.py): the SQLite lease  *)
(* ledger, the request handlers, the sweeper that unloads idle models, the *)
(* park and manual fences, the `keep` and `gateway stop` commands, and the *)
(* restarts of the service.  Every method of GatewayStore is one SQLite    *)
(* transaction and is one step here; two steps of a command or a handler   *)
(* may have steps of any other actor between them.                         *)
(*                                                                         *)
(* Abstractions.                                                           *)
(*  - A time stamp of a lease is "none", "future" or "past"; Expire turns  *)
(*    "future" into "past" at any moment, so any durations are covered.    *)
(*  - Every outcome that claim_due and the admission rules treat alike is  *)
(*    one value: "active" stands for NULL and for the outcome of a         *)
(*    finished or interrupted request, "absent" for no row in `leases`.    *)
(*  - The probe of external clients and GPU activity (safe, unsafe or      *)
(*    unknown) may fail at any time and succeeds only while no direct      *)
(*    client holds a connection.                                           *)
(*  - Request and response bodies, purposes, profiles, timings and the     *)
(*    retention of the `requests` table are left out.                      *)
(***************************************************************************)
EXTENDS Naturals, FiniteSets

CONSTANTS
    Models,       \* Ollama models
    Clef,         \* the model of the external server behind the gateway
    Requests,     \* inference calls, one handler thread each
    Instances,    \* gateway processes, each with its own instance id
    Fences,       \* fence ids, one actor each (a park or `gateway fence`)
    Commands,     \* running `localbench keep` commands
    NoFence, NoInstance, NoModel,
    Ops,          \* what happens beside requests: see KnownOps
    Supervised,   \* TRUE: only launchd starts the service
    MaxCrashes,   \* bound on gateway processes killed
    MaxFaults     \* bound on store and Ollama errors and stops cut off

\* "keep" and "unload" are keep > 0 and keep 0; "park" and "fence" take
\* fences; "stop" is `gateway stop` and `start` at any time, "calm_stop" a
\* stop given only to a serving gateway; "direct" are clients of Ollama that
\* bypass the gateway; "busy" lets a store write exceed the busy timeout.
KnownOps == {"keep", "unload", "park", "fence", "stop", "calm_stop",
             "direct", "busy"}

ASSUME ConstantsAssumption ==
    /\ Clef \notin Models
    /\ NoModel \notin Models \cup {Clef}
    /\ NoFence \notin Fences
    /\ NoInstance \notin Instances
    /\ Ops \subseteq KnownOps
    /\ Supervised \in BOOLEAN
    /\ MaxCrashes \in Nat
    /\ MaxFaults \in Nat

VARIABLES
    leases,       \* table leases, a record per model
    rows,         \* table active_requests, the ids in it
    fences,       \* table park_fences, the fence id on a model
    accepting,    \* gateway_state 'accepting'
    log,          \* table requests, the status of a logged call
    resident,     \* what Ollama has loaded
    direct,       \* models used by clients that bypass the gateway
    inst,         \* where each gateway process is
    lock,         \* holder of service.lock
    stale,        \* instance ids recover_stale has still to clear
    sweep,        \* the sweeper thread of each process
    req,          \* the handler thread of each call
    cmd,          \* the keep commands
    holder,       \* what each fence's owner is doing
    stopper,      \* the `gateway stop` command
    loaded,       \* launchd has the job loaded
    crashes, faults

tables == <<rows, fences, accepting, log>>
db == <<leases, tables>>
ollama == <<resident, direct>>
process == <<inst, lock, stale, loaded>>
service == <<process, sweep>>
tools == <<cmd, holder, stopper>>
budget == <<crashes, faults>>
vars == <<db, ollama, service, req, tools, budget>>
-----------------------------------------------------------------------------
Timer == {"none", "future", "past"}
Retrying == {"deferred", "unload_failed", "verification_failed"}
Settled == {"unloaded_confirmed", "not_resident_confirmed"}
Outcome == {"absent", "active", "unload_pending"} \cup Retrying \cup Settled

Lease == [idle: Timer, manual: Timer, retry: Timer, outcome: Outcome]
NoLease == [idle |-> "none", manual |-> "none", retry |-> "none",
            outcome |-> "absent"]

Idle == [pc |-> "idle", cur |-> NoModel, todo |-> {}, result |-> "absent"]
SweepPC == {"check", "ps", "unload", "readback", "mark"}
Sweep == [pc: SweepPC, cur: Models, todo: SUBSET Models,
          result: {"absent"} \cup Retrying \cup Settled]

NoReq == [pc |-> "new", model |-> NoModel, inst |-> NoInstance, gone |-> FALSE]
ReqPC == {"connected", "upstream", "finishing", "done", "refused", "dead"}
Req == [pc: ReqPC, model: Models \cup {Clef}, inst: Instances, gone: BOOLEAN]

NoCmd == [pc |-> "idle", model |-> NoModel]
CmdPC == {"loading", "clearing", "unloading", "readback", "marking",
          "settling"}
Cmd == [pc: CmdPC, model: Models]

Holder == [pc: {"idle", "probing", "held"}, park: BOOLEAN]
NotHeld == [pc |-> "idle", park |-> FALSE]

StopPC == {"idle", "counting", "reading", "reclaiming", "bootout",
           "waiting", "refusing", "cut"}
Stop == [pc: StopPC, conns: {"zero", "some", "unknown"},
         todo: SUBSET Requests]
NoStop == [pc |-> "idle", conns |-> "unknown", todo |-> {}]

TypeOK ==
    /\ leases \in [Models -> Lease]
    /\ rows \subseteq Requests
    /\ fences \in [Models -> Fences \cup {NoFence}]
    /\ accepting \in BOOLEAN
    /\ log \in [Requests -> {"none", "ended", "abandoned", "refused"}]
    /\ resident \subseteq Models
    /\ direct \subseteq Models
    /\ inst \in [Instances ->
                   {"new", "reading", "recovering", "binding", "serving",
                    "closing", "dead"}]
    /\ lock \in Instances \cup {NoInstance}
    /\ stale \subseteq Instances
    /\ sweep \in [Instances -> Sweep \cup {Idle}]
    /\ loaded \in BOOLEAN
    /\ req \in [Requests -> Req \cup {NoReq}]
    /\ cmd \in [Commands -> Cmd \cup {NoCmd}]
    /\ holder \in [Fences -> Holder]
    /\ stopper \in Stop
    /\ crashes \in 0..MaxCrashes
    /\ faults \in 0..MaxFaults
-----------------------------------------------------------------------------
(* Reading the store and the processes.                                    *)

RowsOf(m) == {r \in rows : req[r].model = m}
Pending(m) == leases[m].outcome = "unload_pending"
Live(i) == inst[i] \notin {"new", "dead"}
Working(i) == inst[i] \in {"serving", "closing"}

\* Mutant of Due: a lease whose unload failed once is not claimed again.
MutDueGivesUp(m) ==
    /\ {leases[m].idle, leases[m].manual} # {"none"}
    /\ "future" \notin {leases[m].idle, leases[m].manual}
    /\ leases[m].outcome = "active"
    /\ RowsOf(m) = {}

\* claim_due: an expiry is set, none is ahead, no retry is ahead, the outcome
\* is neither pending nor settled, and no request is active.
Due(m) ==
    /\ {leases[m].idle, leases[m].manual} # {"none"}
    /\ "future" \notin {leases[m].idle, leases[m].manual, leases[m].retry}
    /\ ~Pending(m)
    /\ leases[m].outcome \notin Settled
    /\ RowsOf(m) = {}

\* Mutant of Admits: the outcome of the lease is not looked at.
MutAdmitsPending(m) == accepting /\ (m \in Models => fences[m] = NoFence)

\* The admission rules of start_request, in its order; the external server
\* is held by a fence on any model and has no lease.
Fenced(m) == IF m = Clef THEN \E n \in Models : fences[n] # NoFence
                         ELSE fences[m] # NoFence
Admits(m) ==
    /\ accepting
    /\ ~Fenced(m)
    /\ m # Clef => ~Pending(m)

\* What start_request and a finite keep write to a lease; what finish_request
\* and recover_instance write when no call is left; what recover_stale writes
\* to an unload cut short by the restart: it is due again at once.
Renewed(l) == [l EXCEPT !.outcome = "active", !.retry = "none"]
Idling(l) == [l EXCEPT !.outcome = "active", !.retry = "none",
                       !.idle = "future"]
Retried(l) == [l EXCEPT !.outcome = "deferred", !.retry = "past"]

\* lsof on the gateway port: the calls whose client still holds a connection.
Connections == {r \in Requests :
                  /\ req[r].pc \in {"connected", "upstream", "finishing"}
                  /\ ~req[r].gone}

\* lsof on the Ollama port, the asking process left out.  The gateway does
\* not see its own upstream calls; a command sees them as other clients.
Outsiders == direct # {} \/ \E c \in Commands :
                               cmd[c].pc \in {"loading", "unloading"}
Upstream == {r \in Requests : req[r].pc = "upstream"}

\* A store write that waits longer than the busy timeout raises.
StoreFails == /\ "busy" \in Ops
              /\ faults < MaxFaults
              /\ faults' = faults + 1
              /\ UNCHANGED crashes
OllamaFails == /\ faults < MaxFaults
               /\ faults' = faults + 1
               /\ UNCHANGED crashes

Init ==
    /\ leases = [m \in Models |-> NoLease]
    /\ rows = {}
    /\ fences = [m \in Models |-> NoFence]
    /\ accepting = TRUE
    /\ log = [r \in Requests |-> "none"]
    /\ resident = {}
    /\ direct = {}
    /\ inst = [i \in Instances |-> "new"]
    /\ lock = NoInstance
    /\ stale = {}
    /\ sweep = [i \in Instances |-> Idle]
    /\ loaded = TRUE
    /\ req = [r \in Requests |-> NoReq]
    /\ cmd = [c \in Commands |-> NoCmd]
    /\ holder = [f \in Fences |-> NotHeld]
    /\ stopper = NoStop
    /\ crashes = 0
    /\ faults = 0
-----------------------------------------------------------------------------
(* A gateway process: InstanceLock, recover_stale, serving, SIGTERM, exit. *)

Launch(i) ==
    /\ inst[i] = "new"
    /\ lock = NoInstance
    /\ Supervised => loaded /\ \A j \in Instances : ~Live(j)
    /\ inst' = [inst EXCEPT ![i] = "reading"]
    /\ lock' = i
    /\ UNCHANGED <<db, ollama, stale, sweep, loaded, req, tools, budget>>

\* Mutant of Leftover: nothing is looked for.
MutLeftoverNone(i) == {}

\* recover_stale, first transaction: whose rows are left over.
Leftover(i) == {req[r].inst : r \in rows} \ {i}

ReadStale(i) ==
    /\ inst[i] = "reading"
    /\ inst' = [inst EXCEPT ![i] = "recovering"]
    /\ stale' = Leftover(i)
    /\ UNCHANGED <<db, ollama, lock, sweep, loaded, req, tools, budget>>

\* recover_instance(j): drop the rows of one dead instance; a model left
\* without requests gets a fresh idle expiry.
RecoverInstance(i, j) ==
    /\ inst[i] = "recovering"
    /\ j \in stale
    /\ stale' = stale \ {j}
    /\ LET old == {r \in rows : req[r].inst = j}
           freed == {m \in Models : RowsOf(m) # {} /\ RowsOf(m) \subseteq old}
       IN /\ rows' = rows \ old
          /\ leases' = [m \in Models |-> IF m \in freed THEN Idling(leases[m])
                                                       ELSE leases[m]]
    /\ UNCHANGED <<fences, accepting, log, ollama, inst, lock, sweep, loaded,
                   req, tools, budget>>

\* recover_stale, last transaction: an unload cut short is retried at once.
RecoverPending(i) ==
    /\ inst[i] = "recovering"
    /\ stale = {}
    /\ inst' = [inst EXCEPT ![i] = "binding"]
    /\ leases' = [m \in Models |-> IF Pending(m) THEN Retried(leases[m])
                                               ELSE leases[m]]
    /\ UNCHANGED <<tables, ollama, lock, stale, sweep, loaded, req, tools,
                   budget>>

\* The socket is bound, admission is opened and the sweeper is started.
Serve(i) ==
    /\ inst[i] = "binding"
    /\ inst' = [inst EXCEPT ![i] = "serving"]
    /\ accepting' = TRUE
    /\ UNCHANGED <<leases, rows, fences, log, ollama, lock, stale, sweep,
                   loaded, req, tools, budget>>

\* SIGTERM: the accept loop ends and the lock is released; the handler and
\* sweeper threads run on until the interpreter exits.
Terminate(i) ==
    /\ inst' = [inst EXCEPT ![i] = "closing"]
    /\ lock' = IF lock = i THEN NoInstance ELSE lock
    /\ stale' = {}

\* The process and its threads are gone, and the kernel drops its locks.
Dies(i) ==
    /\ inst' = [inst EXCEPT ![i] = "dead"]
    /\ lock' = IF lock = i THEN NoInstance ELSE lock
    /\ stale' = IF lock = i THEN {} ELSE stale
    /\ sweep' = [sweep EXCEPT ![i] = Idle]
    /\ req' = [r \in Requests |->
                 IF req[r].inst = i /\ req[r].pc \in {"connected", "upstream",
                                                      "finishing"}
                 THEN [req[r] EXCEPT !.pc = "dead", !.gone = TRUE]
                 ELSE req[r]]
    /\ UNCHANGED <<db, ollama, loaded, tools>>

Exit(i) == inst[i] = "closing" /\ Dies(i) /\ UNCHANGED budget

Crash(i) ==
    /\ Live(i)
    /\ crashes < MaxCrashes
    /\ crashes' = crashes + 1
    /\ Dies(i)
    /\ UNCHANGED faults

\* A SIGTERM that no stop sent, such as a logout.
Sigterm(i) ==
    /\ inst[i] = "serving"
    /\ crashes < MaxCrashes
    /\ crashes' = crashes + 1
    /\ Terminate(i)
    /\ UNCHANGED <<db, ollama, sweep, loaded, req, tools, faults>>
-----------------------------------------------------------------------------
(* A call through the gateway: _dispatch and _send_upstream.               *)

Logged(r, status) == [log EXCEPT ![r] = status]
HasRow(r) == r \in rows

\* The accept loop hands the connection to a handler thread.
Connect(r, i, m) ==
    /\ req[r].pc = "new"
    /\ inst[i] = "serving"
    /\ req' = [req EXCEPT ![r] = [pc |-> "connected", model |-> m,
                                  inst |-> i, gone |-> FALSE]]
    /\ UNCHANGED <<db, ollama, service, tools, budget>>

\* start_request: the row and the lease in one transaction.
StartRequest(r) ==
    LET m == req[r].model IN
    /\ req[r].pc = "connected"
    /\ Admits(m)
    /\ rows' = rows \cup {r}
    /\ leases' = IF m = Clef THEN leases
                 ELSE [leases EXCEPT ![m] = Renewed(@)]
    /\ req' = [req EXCEPT ![r].pc = "upstream"]
    /\ UNCHANGED <<fences, accepting, log, ollama, service, tools, budget>>

\* start_request raised GatewayError: refuse_request logs it and a 503 goes.
RefuseRequest(r) ==
    /\ req[r].pc = "connected"
    /\ ~Admits(req[r].model)
    /\ log' = Logged(r, "refused")
    /\ req' = [req EXCEPT ![r].pc = "refused"]
    /\ UNCHANGED <<leases, rows, fences, accepting, ollama, service, tools,
                   budget>>

\* Ollama loads the model to serve the call.
UpstreamLoads(r) ==
    /\ req[r].pc = "upstream"
    /\ req[r].model \in Models \ resident
    /\ resident' = resident \cup {req[r].model}
    /\ UNCHANGED <<db, direct, service, req, tools, budget>>

\* The client hangs up; the handler notices when it next writes.
HangUp(r) ==
    /\ req[r].pc = "upstream"
    /\ ~req[r].gone
    /\ req' = [req EXCEPT ![r].gone = TRUE]
    /\ UNCHANGED <<db, ollama, service, tools, budget>>

\* The stream ends or breaks and the upstream connection is closed.
UpstreamEnds(r) ==
    /\ req[r].pc = "upstream"
    /\ req' = [req EXCEPT ![r].pc = "finishing"]
    /\ UNCHANGED <<db, ollama, service, tools, budget>>

\* The transaction of finish_request; without a row it does nothing.
Finish(r, status) ==
    IF ~HasRow(r) THEN UNCHANGED <<leases, rows, log>>
    ELSE LET m == req[r].model IN
         /\ rows' = rows \ {r}
         /\ log' = Logged(r, status)
         /\ leases' = IF m \in Models /\ RowsOf(m) = {r}
                      THEN [leases EXCEPT ![m] = Idling(@)]
                      ELSE leases

FinishRequest(r) ==
    /\ req[r].pc = "finishing"
    /\ Finish(r, "ended")
    /\ req' = [req EXCEPT ![r].pc = "done", ![r].gone = TRUE]
    /\ UNCHANGED <<fences, accepting, ollama, service, tools, budget>>

\* finish_request raised in the finally block: the row outlives its handler.
FinishFails(r) ==
    /\ req[r].pc = "finishing"
    /\ StoreFails
    /\ req' = [req EXCEPT ![r].pc = "dead", ![r].gone = TRUE]
    /\ UNCHANGED <<db, ollama, service, tools>>
-----------------------------------------------------------------------------
(* The sweeper of a process: GatewayPolicy.expire_due.                     *)

\* The next claimed model, or the end of the sweep.
NextModel(s) == IF s.todo = {} THEN {Idle}
                ELSE {[pc |-> "check", cur |-> m, todo |-> s.todo \ {m},
                       result |-> "absent"] : m \in s.todo}

\* claim_due marks every due lease in one transaction.
ClaimDue(i) ==
    LET due == {m \in Models : Due(m)} IN
    /\ Working(i)
    /\ sweep[i].pc = "idle"
    /\ due # {}
    /\ leases' = [m \in Models |->
                    IF m \in due
                    THEN [leases[m] EXCEPT !.outcome = "unload_pending"]
                    ELSE leases[m]]
    /\ \E s \in NextModel([sweep[i] EXCEPT !.todo = due]) :
         sweep' = [sweep EXCEPT ![i] = s]
    /\ UNCHANGED <<tables, ollama, process, req, tools, budget>>

\* One step of the sweep that touches neither the store nor Ollama.
SweepTo(i, pc, result) ==
    /\ sweep' = [sweep EXCEPT ![i].pc = pc, ![i].result = result]
    /\ UNCHANGED <<db, process, req, tools>>

CheckSafe(i) ==
    /\ sweep[i].pc = "check"
    /\ ~Outsiders
    /\ SweepTo(i, "ps", "absent")
    /\ UNCHANGED <<ollama, budget>>

CheckUnsafe(i) ==
    /\ sweep[i].pc = "check"
    /\ SweepTo(i, "mark", "deferred")
    /\ UNCHANGED <<ollama, budget>>

ReadResidents(i) ==
    /\ sweep[i].pc = "ps"
    /\ IF sweep[i].cur \in resident
       THEN SweepTo(i, "unload", "absent")
       ELSE SweepTo(i, "mark", "not_resident_confirmed")
    /\ UNCHANGED <<ollama, budget>>

\* POST /api/generate with keep_alive 0.
Unload(i) ==
    /\ sweep[i].pc = "unload"
    /\ resident' = resident \ {sweep[i].cur}
    /\ SweepTo(i, "readback", "absent")
    /\ UNCHANGED <<direct, budget>>

Readback(i) ==
    /\ sweep[i].pc = "readback"
    /\ SweepTo(i, "mark", IF sweep[i].cur \in resident
                          THEN "verification_failed"
                          ELSE "unloaded_confirmed")
    /\ UNCHANGED <<ollama, budget>>

\* /api/ps or the unload failed; a failed unload may have had its effect.
SweepError(i) ==
    /\ sweep[i].pc \in {"ps", "unload", "readback"}
    /\ OllamaFails
    /\ SweepTo(i, "mark", CASE sweep[i].pc = "ps" -> "deferred"
                            [] sweep[i].pc = "unload" -> "unload_failed"
                            [] OTHER -> "verification_failed")
    /\ \/ UNCHANGED resident
       \/ /\ sweep[i].pc = "unload"
          /\ resident' = resident \ {sweep[i].cur}
    /\ UNCHANGED direct

\* mark_result overwrites the outcome whatever it is by now.
MarkResult(m, result) ==
    leases' = IF leases[m].outcome = "absent" THEN leases
              ELSE [leases EXCEPT
                      ![m].outcome = result,
                      ![m].retry = IF result \in Retrying THEN "future"
                                                          ELSE "none"]

Mark(i) ==
    /\ sweep[i].pc = "mark"
    /\ MarkResult(sweep[i].cur, sweep[i].result)
    /\ \E s \in NextModel(sweep[i]) : sweep' = [sweep EXCEPT ![i] = s]
    /\ UNCHANGED <<tables, ollama, process, req, tools, budget>>

\* mark_result raised: maintenance_loop catches it and drops the sweep.
MarkFails(i) ==
    /\ sweep[i].pc = "mark"
    /\ StoreFails
    /\ sweep' = [sweep EXCEPT ![i] = Idle]
    /\ UNCHANGED <<db, ollama, process, req, tools>>
-----------------------------------------------------------------------------
(* `localbench keep`: cmd_keep with keep > 0, then with keep 0.            *)

\* Mutant of Keepable: no look at the lease.
MutKeepableAlways(m) == TRUE

\* set_manual_lease, which refuses while an unload is pending.
Keepable(m) == ~Pending(m)

SetManualLease(c, m) ==
    /\ "keep" \in Ops
    /\ cmd[c].pc = "idle"
    /\ Keepable(m)
    /\ leases' = [leases EXCEPT ![m] = [Renewed(@) EXCEPT !.manual = "future"]]
    /\ cmd' = [cmd EXCEPT ![c] = [pc |-> "loading", model |-> m]]
    /\ UNCHANGED <<tables, ollama, service, req, holder, stopper, budget>>

\* The POST with a finite keep_alive loads the model, or ends in an error
\* other than an HTTP status, which leaves the manual lease in place.
KeepEnds(c) ==
    /\ cmd[c].pc = "loading"
    /\ cmd' = [cmd EXCEPT ![c] = NoCmd]
    /\ resident' \in {resident, resident \cup {cmd[c].model}}
    /\ UNCHANGED <<db, direct, service, req, holder, stopper, budget>>

KeepRejected(c) ==
    /\ cmd[c].pc = "loading"
    /\ cmd' = [cmd EXCEPT ![c].pc = "clearing"]
    /\ UNCHANGED <<db, ollama, service, req, holder, stopper, budget>>

\* clear_manual_lease, for a rejected keep or after a confirmed unload.
ClearManualLease(c) ==
    /\ cmd[c].pc \in {"clearing", "marking"}
    /\ leases' = [leases EXCEPT ![cmd[c].model].manual = "none"]
    /\ cmd' = [cmd EXCEPT ![c] = IF cmd[c].pc = "clearing" THEN NoCmd
                                 ELSE [@ EXCEPT !.pc = "settling"]]
    /\ UNCHANGED <<tables, ollama, service, req, holder, stopper, budget>>

\* safe_to_unload, asked by a command: the store shows no request, no fence
\* of another and no pending unload, and the probe sees no other client.
SafeToUnload(m, fence) ==
    /\ RowsOf(m) = {}
    /\ fences[m] \in {NoFence, fence}
    /\ ~Pending(m)
    /\ ~Outsiders
    /\ Upstream = {}

KeepZero(c, m) ==
    /\ "unload" \in Ops
    /\ cmd[c].pc = "idle"
    /\ m \in resident
    /\ SafeToUnload(m, NoFence)
    /\ cmd' = [cmd EXCEPT ![c] = [pc |-> "unloading", model |-> m]]
    /\ UNCHANGED <<db, ollama, service, req, holder, stopper, budget>>

KeepZeroUnload(c) ==
    /\ cmd[c].pc = "unloading"
    /\ resident' = resident \ {cmd[c].model}
    /\ cmd' = [cmd EXCEPT ![c].pc = "readback"]
    /\ UNCHANGED <<db, direct, service, req, holder, stopper, budget>>

KeepZeroReadback(c) ==
    /\ cmd[c].pc = "readback"
    /\ cmd' = [cmd EXCEPT ![c] = IF cmd[c].model \in resident THEN NoCmd
                                 ELSE [@ EXCEPT !.pc = "marking"]]
    /\ UNCHANGED <<db, ollama, service, req, holder, stopper, budget>>

\* The second half of mark_unloaded, an unconditional mark_result.
KeepZeroSettle(c) ==
    /\ cmd[c].pc = "settling"
    /\ MarkResult(cmd[c].model, "unloaded_confirmed")
    /\ cmd' = [cmd EXCEPT ![c] = NoCmd]
    /\ UNCHANGED <<tables, ollama, service, req, holder, stopper, budget>>
-----------------------------------------------------------------------------
(* Fences: gateway.acquire_park_fence for a park, `gateway fence`, and the *)
(* unload a park does under its fence.                                     *)

\* Mutant of Fenceable: requests in flight are not looked at.
MutFenceableInUse(m) == fences[m] = NoFence

\* The store refuses a model that has a request or a fence.
Fenceable(m) == RowsOf(m) = {} /\ fences[m] = NoFence

\* All models are fenced in one transaction, or none.  A park then
\* probes; `gateway fence` holds the fence as it is.
AcquireFence(f, ms, park) ==
    /\ holder[f].pc = "idle"
    /\ (IF park THEN "park" ELSE "fence") \in Ops
    /\ ms # {}
    /\ \A m \in ms : Fenceable(m)
    /\ fences' = [m \in Models |-> IF m \in ms THEN f ELSE fences[m]]
    /\ holder' = [holder EXCEPT
                    ![f] = [pc |-> IF park THEN "probing" ELSE "held",
                            park |-> park]]
    /\ UNCHANGED <<leases, rows, accepting, log, ollama, service, req, cmd,
                   stopper, budget>>

ProbePasses(f) ==
    /\ holder[f].pc = "probing"
    /\ \A m \in Models : fences[m] = f => SafeToUnload(m, f)
    /\ holder' = [holder EXCEPT ![f].pc = "held"]
    /\ UNCHANGED <<db, ollama, service, req, cmd, stopper, budget>>

\* The park dies: its journal keeps the fence id for a later unpark.
ParkDies(f) ==
    /\ holder[f].park
    /\ holder' = [holder EXCEPT ![f] = [pc |-> "held", park |-> FALSE]]
    /\ UNCHANGED <<db, ollama, service, req, cmd, stopper, budget>>

\* release_park_fence: a refused probe, an unpark, `gateway unfence`.
ReleaseFence(f) ==
    /\ holder[f].pc # "idle"
    /\ fences' = [m \in Models |-> IF fences[m] = f THEN NoFence
                                   ELSE fences[m]]
    /\ holder' = [holder EXCEPT ![f] = NotHeld]
    /\ UNCHANGED <<leases, rows, accepting, log, ollama, service, req, cmd,
                   stopper, budget>>

MayParkUnload(f, m) ==
    holder[f].pc = "held" /\ holder[f].park /\ fences[m] = f

ParkUnload(f, m) ==
    /\ MayParkUnload(f, m)
    /\ m \in resident
    /\ resident' = resident \ {m}
    /\ UNCHANGED <<db, direct, service, req, tools, budget>>
-----------------------------------------------------------------------------
(* `localbench gateway stop` and `start`.                                  *)

StopTo(pc) ==
    /\ stopper' = [stopper EXCEPT !.pc = pc]
    /\ UNCHANGED <<cmd, holder>>

\* Mutant of CloseAdmission: the stop looks around first.
MutCloseLater == UNCHANGED accepting

CloseAdmission == accepting' = FALSE

\* No `gateway stop` runs: the last one has ended or was cut off.
NoStopRuns == stopper.pc \in {"idle", "cut"}

BeginStop ==
    /\ NoStopRuns
    /\ \/ "stop" \in Ops
       \/ /\ "calm_stop" \in Ops
          /\ \E i \in Instances : inst[i] = "serving"
    /\ CloseAdmission
    /\ StopTo("counting")
    /\ UNCHANGED <<leases, rows, fences, log, ollama, service, req, budget>>

\* _gateway_established_connections, which may not know.
CountConnections ==
    /\ stopper.pc = "counting"
    /\ stopper' \in {[pc |-> "reading", conns |-> n, todo |-> {}] :
                       n \in {"unknown",
                              IF Connections = {} THEN "zero" ELSE "some"}}
    /\ UNCHANGED <<db, ollama, service, req, cmd, holder, budget>>

\* reconcile_abandoned_requests: the rows of a dead owner, or every row if
\* no client was connected.
ReadRows ==
    /\ stopper.pc = "reading"
    /\ stopper' = [stopper EXCEPT
                     !.pc = "reclaiming",
                     !.todo = {r \in rows : \/ ~Live(req[r].inst)
                                            \/ stopper.conns = "zero"}]
    /\ UNCHANGED <<db, ollama, service, req, cmd, holder, budget>>

\* Each of them is finished in a transaction of its own.
Reclaim(r) ==
    /\ stopper.pc = "reclaiming"
    /\ r \in stopper.todo
    /\ Finish(r, "abandoned")
    /\ stopper' = [stopper EXCEPT !.todo = @ \ {r}]
    /\ UNCHANGED <<fences, accepting, ollama, service, req, cmd, holder,
                   budget>>

\* Mutant of StopDecision: a refused stop just ends.
MutStopJustEnds == IF stopper.conns = "zero" /\ rows = {} THEN "bootout"
                                                          ELSE "idle"

\* Any client, any unknown and any row left refuse the stop.
StopDecision == IF stopper.conns = "zero" /\ rows = {} THEN "bootout"
                                                       ELSE "refusing"

DecideStop ==
    /\ stopper.pc = "reclaiming"
    /\ stopper.todo = {}
    /\ StopTo(StopDecision)
    /\ UNCHANGED <<db, ollama, service, req, budget>>

\* launchctl bootout unloads the job and sends SIGTERM, which kills a process
\* that has not installed its handler yet.
Bootout ==
    /\ stopper.pc = "bootout"
    /\ loaded' = FALSE
    /\ \/ \E i \in Instances :
            /\ inst[i] = "serving"
            /\ Terminate(i)
            /\ UNCHANGED <<db, ollama, sweep, req>>
            /\ StopTo("waiting")
       \/ \E i \in Instances :
            /\ inst[i] \in {"reading", "recovering", "binding"}
            /\ inst' = [inst EXCEPT ![i] = "dead"]
            /\ lock' = NoInstance
            /\ stale' = {}
            /\ UNCHANGED <<db, ollama, sweep, req>>
            /\ StopTo("waiting")
       \/ /\ \A i \in Instances : inst[i] \in {"new", "closing", "dead"}
          /\ StopTo("waiting")
          /\ UNCHANGED <<db, ollama, inst, lock, stale, sweep, req>>
    /\ UNCHANGED budget

BootoutFails ==
    /\ stopper.pc = "bootout"
    /\ StopTo("refusing")
    /\ UNCHANGED <<db, ollama, service, req, budget>>

\* _await_gateway_down: the job is gone, or the wait times out.
StopEnds ==
    /\ stopper.pc = "waiting"
    /\ StopTo(IF \E i \in Instances : Live(i) THEN "refusing" ELSE "idle")
    /\ UNCHANGED <<db, ollama, service, req, budget>>

\* A read or a write of reconcile_abandoned_requests exceeds the busy timeout.
ReclaimFails ==
    /\ stopper.pc \in {"reading", "reclaiming"}
    /\ StoreFails
    /\ stopper' = [stopper EXCEPT !.pc = "refusing", !.todo = {}]
    /\ UNCHANGED <<db, ollama, service, req, cmd, holder>>

\* The except branch opens admission again before it raises; that write may
\* itself exceed the busy timeout.
RefuseStop ==
    /\ stopper.pc = "refusing"
    /\ \/ accepting' = TRUE /\ StopTo("idle") /\ UNCHANGED budget
       \/ UNCHANGED accepting /\ StopTo("cut") /\ StoreFails
    /\ UNCHANGED <<leases, rows, fences, log, ollama, service, req>>

\* The stop is interrupted, which the except branch handles, or killed.
StopIsCut ==
    /\ ~NoStopRuns
    /\ faults < MaxFaults
    /\ faults' = faults + 1
    /\ \E pc \in {"refusing", "cut"} :
         stopper' = [stopper EXCEPT !.pc = pc, !.todo = {}]
    /\ UNCHANGED <<db, ollama, service, req, cmd, holder, crashes>>

StopBreaks == BootoutFails \/ ReclaimFails \/ StopIsCut

StartService ==
    /\ ~loaded
    /\ NoStopRuns
    /\ loaded' = TRUE
    /\ UNCHANGED <<db, ollama, inst, lock, stale, sweep, req, tools, budget>>
-----------------------------------------------------------------------------
(* The environment: clients that bypass the gateway, Ollama's own          *)
(* keep-alive, the clock.                                                  *)

DirectBegins(m) ==
    /\ "direct" \in Ops
    /\ direct' = direct \cup {m}
    /\ resident' = resident \cup {m}
    /\ UNCHANGED <<db, service, req, tools, budget>>

DirectEnds(m) ==
    /\ m \in direct
    /\ direct' = direct \ {m}
    /\ UNCHANGED <<db, resident, service, req, tools, budget>>

OllamaEvicts(m) ==
    /\ m \in resident \ direct
    /\ \A r \in Upstream : req[r].model # m
    /\ resident' = resident \ {m}
    /\ UNCHANGED <<db, direct, service, req, tools, budget>>

Expire(m, t) ==
    /\ leases[m][t] = "future"
    /\ leases' = [leases EXCEPT ![m][t] = "past"]
    /\ UNCHANGED <<tables, ollama, service, req, tools, budget>>
-----------------------------------------------------------------------------
Restart(i) ==
    \/ Launch(i) \/ ReadStale(i) \/ RecoverPending(i) \/ Serve(i)
    \/ \E j \in Instances : RecoverInstance(i, j)

Handler(r) ==
    \/ StartRequest(r) \/ RefuseRequest(r) \/ UpstreamEnds(r)
    \/ FinishRequest(r)

Sweeper(i) ==
    \/ ClaimDue(i) \/ CheckUnsafe(i) \/ ReadResidents(i)
    \/ Unload(i) \/ Readback(i) \/ Mark(i)

Keeper(c) ==
    \/ KeepEnds(c) \/ ClearManualLease(c) \/ KeepZeroUnload(c)
    \/ KeepZeroReadback(c) \/ KeepZeroSettle(c)

Stopper ==
    \/ CountConnections \/ ReadRows \/ DecideStop \/ Bootout \/ StopEnds
    \/ RefuseStop
    \/ \E r \in Requests : Reclaim(r)

Next ==
    \/ \E i \in Instances :
         \/ Restart(i) \/ Exit(i) \/ Crash(i) \/ Sigterm(i)
         \/ Sweeper(i) \/ CheckSafe(i) \/ SweepError(i) \/ MarkFails(i)
    \/ \E r \in Requests :
         \/ Handler(r) \/ UpstreamLoads(r) \/ HangUp(r) \/ FinishFails(r)
         \/ \E i \in Instances, m \in Models \cup {Clef} : Connect(r, i, m)
    \/ \E c \in Commands :
         \/ Keeper(c) \/ KeepRejected(c)
         \/ \E m \in Models : SetManualLease(c, m) \/ KeepZero(c, m)
    \/ \E f \in Fences :
         \/ ProbePasses(f) \/ ParkDies(f) \/ ReleaseFence(f)
         \/ \E ms \in SUBSET Models, park \in BOOLEAN :
              AcquireFence(f, ms, park)
         \/ \E m \in Models : ParkUnload(f, m)
    \/ BeginStop \/ Stopper \/ StopBreaks \/ StartService
    \/ \E m \in Models :
         \/ DirectBegins(m) \/ DirectEnds(m) \/ OllamaEvicts(m)
         \/ \E t \in {"idle", "manual", "retry"} : Expire(m, t)

Spec == Init /\ [][Next]_vars

\* Threads and commands keep running, upstream calls end (they time out),
\* clocks advance, direct clients hang up.  The sweep is retried for ever, and
\* SF on CheckSafe says the machine is not found busy at every single check.
Fairness ==
    /\ \A i \in Instances :
         /\ WF_vars(Restart(i)) /\ WF_vars(Exit(i)) /\ WF_vars(Sweeper(i))
         /\ SF_vars(CheckSafe(i))
    /\ \A r \in Requests : WF_vars(Handler(r))
    /\ \A c \in Commands : WF_vars(Keeper(c))
    /\ WF_vars(Stopper)
    /\ \A m \in Models :
         /\ WF_vars(DirectEnds(m))
         /\ \A t \in {"idle", "manual", "retry"} : WF_vars(Expire(m, t))

FairSpec == Spec /\ Fairness
-----------------------------------------------------------------------------
(* Properties.                                                             *)

\* A call whose client is still there and whose upstream connection is open.
InUse(m) == \E r \in Upstream : req[r].model = m /\ ~req[r].gone

\* The models whose unload this sweep has claimed and not yet settled.
Claimed(i) == sweep[i].todo \cup ({sweep[i].cur} \ {NoModel})

\* expire_due never posts an unload for a model that serves a live call: the
\* claim, the probe, /api/ps and the unload are separate steps, and only the
\* 'unload_pending' mark keeps new calls out in between.
SweepSparesCalls ==
    \A i \in Instances : sweep[i].pc = "unload" => ~InUse(sweep[i].cur)

\* Once a fence is on a model no call to it is live, however the acquisition
\* and the admission of calls interleave: a park copies, unloads and deletes
\* only quiesced models.
FenceQuiets == \A m \in Models : fences[m] # NoFence => ~InUse(m)

\* A model whose finite keep has not expired is in no sweep: a keep that
\* succeeds while a sweep runs is never undone by it.
KeepHonoured ==
    \A i \in Instances : \A m \in Claimed(i) : leases[m].manual # "future"

\* Every live call has its row in active_requests, so the guards that read the
\* table (fence, claim, safe_to_unload, stop) see it.
LiveCallsHaveRows ==
    \A r \in Upstream : ~req[r].gone => r \in rows

\* A serving process finds no row of another process: a restart has cleared
\* every leftover before the first call is admitted.
NoStaleRows ==
    \A i \in Instances : inst[i] = "serving" =>
        \A r \in rows : req[r].inst = i

\* 'unloaded_confirmed' and 'not_resident_confirmed' are true as long as they
\* stand: whatever loads the model again first replaces the outcome.
SettledIsTrue ==
    \A m \in Models : leases[m].outcome \in Settled => m \notin resident

\* A lease marked unload_pending is in the sweep of a process that will
\* settle it, or a restart is still to put it right.
PendingIsClaimed ==
    \A m \in Models : Pending(m) =>
        \/ \E i \in Instances : m \in Claimed(i)
        \/ \A i \in Instances : inst[i] \notin {"binding", "serving"}

\* A resident model without a call in flight has a lease that expires.
ResidentExpires ==
    \A m \in resident : RowsOf(m) = {} =>
        {leases[m].idle, leases[m].manual} # {"none"}

\* Neither a sweep nor a park unloads a model under a live call.
CallsAreSafe == SweepSparesCalls /\ FenceQuiets

\* Holding service.lock proves that every earlier holder has exited.
LockProvesExit ==
    \A i, j \in Instances : lock = i /\ Live(j) => i = j

\* A call is logged once: the handler, a reclaiming stop and a restart may
\* all try to finish it, and what the log says of it never changes.
LoggedOnce == \A r \in Requests : log[r] # "none" => log'[r] = log[r]

\* What is live has its row, and what is over has one line in the log.
CallsAreAccounted == [][LiveCallsHaveRows' /\ LoggedOnce]_vars

\* A call that ran to its end is in the log.
ServedIsLogged ==
    \A r \in Requests : req[r].pc = "done" => log[r] \in {"ended", "abandoned"}

\* What the tables say agrees with the processes, the sweeps, Ollama and the
\* log, beside parks and fences and across crashes, restarts and failures of
\* Ollama.  It is not said of every service: a store write that exceeds the busy
\* timeout drops a claim or a call, a direct client loads a model nobody
\* records, a cleared keep takes the only expiry of a lease away.
TablesAreTrue ==
    NoStaleRows /\ SettledIsTrue /\ PendingIsClaimed /\ ResidentExpires /\ ServedIsLogged

\* The tables keep the promise of ResidencyLock: rows are the calls that use a
\* model, 'unload_pending' and park_fences are what keeps calls out.  This
\* holds whatever the commands, crashes and faults do.
Promise == INSTANCE ResidencyLock WITH
    Calls <- Requests,
    users <- [m \in Models |-> RowsOf(m)],
    unloading <- {m \in Models : Pending(m)},
    fenced <- {m \in Models : fences[m] # NoFence}

KeepsPromise == Promise!LockSpec

\* The same as a state predicate: a model with an admitted call is neither
\* being unloaded nor fenced.
AdmissionExcludes ==
    \A m \in Models :
        RowsOf(m) # {} => ~Pending(m) /\ fences[m] = NoFence

\* An unload that was claimed comes to a result.
PendingResolves == \A m \in Models : Pending(m) ~> ~Pending(m)

\* A resident model nobody uses is in the end unloaded, used again or kept.
IdleUnloads ==
    \A m \in Models :
        (m \in resident) ~> \/ m \notin resident
                            \/ RowsOf(m) # {}
                            \/ leases[m].manual = "future"

\* Every unload that is due is settled, and every idle model unloaded.
UnloadsSettle == PendingResolves /\ IdleUnloads

\* A stop that is refused, interrupted, fails or times out does not leave the
\* service draining, unless it is killed or the store does not take the write
\* that reopens admission either: nothing but a restart or a later refused stop
\* mends that.
DrainEnds ==
    (~accepting) ~> \/ accepting
                    \/ \A i \in Instances : ~Live(i)
                    \/ stopper.pc = "cut"
=============================================================================
