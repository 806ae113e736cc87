# localbench in TLA+

Models, model checks and proofs of localbench: the residency gateway in front of Ollama, the commands that move models
and profiles out of the way and back, the machine-wide slot, what a measurement stands on, and the tools that land,
prove and queue work. Every action is one step of the code (a store transaction, a file write, a system call, an HTTP
call), and names the function it is in; `PROJECT.json` has the lines.

Run a check with `tlc -config GatewayLease_core.cfg MCGatewayLease`, a proof with `tlapm HeavySlotProofs.tla`.

## 1. The system

localbench measures local language models. It is a set of short-lived commands, one daemon (the gateway) and files
they share. Nothing but the gateway lives long, so the hard behaviour is in how commands interleave with the gateway,
with each other and with the user, and in what a command that is killed leaves behind.

| component | state | hard behaviour | what makes it correct | module |
|---|---|---|---|---|
| residency gateway (`gateway.py`, `keep` in `__main__.py`) | SQLite tables, flag `accepting`, lock file, Ollama's residents | transactions of threads and other processes between any two steps; kills, restarts, store timeouts, clients that bypass it | no model is unloaded or fenced under a call; idle models go; rows tell the truth; nothing stays pending or draining | GatewayLease, ResidencyLock |
| concurrency caps (`gateway.py`) | two semaphores per process | an exit that forgets one | caps hold, "busy" only when full | GatewaySlots |
| gateway as a service (`gateway.py`) | pinned exports, plist, launchd's job | a job that dies slowly, failed installs, edits under the copy | what serves is what the checkout pins | LaunchAgent |
| park / unpark (`park.py`) | `PARKED.json`, tags, fences, history | cut between any two effects | weights are never lost, nothing is admitted to a name that is away | Park |
| heavy slot (`heavyslot.py`) | flock, owner file, tickets, depth | handoff, killed waiters, probes of the lock | one holder, named, first come first served | HeavySlot |
| presets, gateway routes, smol role (`presets.py`, `omp_profiles.py`, `smol.py`) | profile files, manifests, `applied.json`, `state.json` | death or failure half-way, rollbacks out of order, people who edit | files all new or all old; records tell what is live; hand edits stay | OmpFiles, Presets, OmpProfiles, SmolRole, OmpConfig |
| quiet (`quiet.py`) | `quiet.json`, stopped processes | killed before the record, reused pids, a listing that fails | what was stopped is continued | Quiet |
| child processes (`lifecycle.py`) | registry, its lock | a signal between any two statements | no child survives a cancellation | Children |
| measured legs, goldens, A/B (`__main__.py`, `sysstats.py`, `golden.py`) | pins, samples, golden | updates and other models in mid-leg | rows are compared under the pins they were measured under | Measure |
| watchdog and cancellation (`watchdog.py`, `client.py`) | active request, reason | abort between check and registration | an abort reaches the run, an aborted run keeps nothing | RunWatch |
| omp snapshots (`ompfreeze.py`) | snapshots, lock inodes | prune beside holds and builds | a held snapshot stays | OmpFreeze |
| decision tier, proof runner (`decision.py`, `prove.py`, `features.py`) | runners of Ollama, receipts, grades, beads | other clients, and listings of them that fail | a clean receipt is of a run that had its context; a bead closes on a sound receipt of its route | DecisionTier, ProofRun |
| mutation tool (`mutate.py`, the repair of `doctor.py`) | source file, journal, lock directory, cache | killed with a plant on disk, one journal for many cases | plants are journaled or kept for a human, edits stay | Mutate |
| landing (`land.py`) | worktree, main, index | other commits, kills | main grows by what was gated | Landing |
| run plan, tick driver, proof queue, CLI profiles | exports, beads, records | reruns over partial copies, interrupts, stale plans, late sends | nothing lost, doubled or overwritten; an idle pane is woken | RunPlan, TickDriver, ProofQueue, CliProfile |
| release watch (`releasewatch.py`) | seen, queue and handled files | two passes, failed fetches, lost answers, kills | a release is filed once | ReleaseWatch |
| omp refresh (`ompupdate.py`) | captures, baseline, staleness | update in mid-capture | a proof is carried only over the same requests | OmpRefresh |
| evaluation campaigns (`evaluation.py`) | campaign files, traces, scores | killed trials, two commands, moving pins and graders | one trial per case, under the campaign's pins | Campaign |
| the rest (adapters, parsers, projections, clients, statistics) | none or external | none of the above | see section 9 | |

Interactions. `park` and `gateway fence` write `park_fences`, which admission reads; `keep` writes leases, which the
sweeper reads; `stop` closes admission and reclaims rows; park moves tags, which pull moves too; presets, routes and
smol edit the same two files of every profile; quiet, snapshots, sampler and watchdog surround a measured leg; proofs
load runners that other clients use, and write receipts the proof queue reads; every measuring command takes the heavy
slot, which keeps the runs of the tools apart. All of these are calls into shared state; there are no messages.

## 2. Modules and plan

Composed modules: GatewayLease implements ResidencyLock. OmpConfig composes OmpFiles (the files, hand edits, deaths),
Presets, OmpProfiles and SmolRole over the same files. ProofRun extends DecisionTier. Workshop and Harness put tools
that share nothing beyond the slot side by side: the variable `tool` names the one a behaviour is about, so one run
checks them all and their state spaces add up instead of multiplying. `Job` is their frame: `job` holds the locals and
the place of the running command and dies with it, `used` counts commands, changes by others and upsets against
`Bound`. What two tools do share is in one module (OmpConfig, GatewayLease, Park), never side by side.

Done: everything in the table above. Left for later, by weight: liveness of the tools (a queue that settles); the park
report `park_windows` and the other pure functions against a reference; the history and the estimates of the heavy
slot.

## 3. The gateway: GatewayLease, ResidencyLock

`leases`, `rows`, `fences`, `accepting` and `log` are the tables; `resident` is what Ollama has loaded, `direct` its
clients that bypass the gateway; `inst` and `lock` the gateway processes and `service.lock`; `req`, `sweep`, `cmd`,
`stopper` the program counters of handler threads, sweepers, `keep` commands and a `stop`. A method of `GatewayStore`
is one `BEGIN IMMEDIATE` transaction and one action: `StartRequest`, `Finish`, `ClaimDue`, `MarkResult`,
`SetManualLease`, `AcquireFence`, `ReleaseFence`. What a caller does between two methods may have anything in between:
the sweep is `ClaimDue`, then per model `CheckSafe` or `CheckUnsafe`, `ReadResidents`, `Unload`, `Readback`, `Mark`; a
restart is `Launch`, `ReadStale`, `RecoverInstance`, `RecoverPending`, `Serve`. `Crash`, `Sigterm`, `MarkFails`,
`FinishFails`, `OllamaFails` are the failures. Durations are abstract: a time stamp is none, future or past and passes
at any moment.

`ResidencyLock` says what the tables are for: a model has users, or is being unloaded or fenced, never both.
`KeepsPromise` is its specification under the mapping rows -> users, `unload_pending` -> unloading, `park_fences` ->
fenced.

| run | instance | states | shows |
|---|---|---|---|
| gateway_core | 2 models, 2 calls, 2 processes, park and manual fences, 1 crash, 1 fault | 195,878 | CallsAreSafe, TablesAreTrue, KeepsPromise |
| gateway_keep | 1 model, 2 calls, 2 keeps, 2 fences, direct clients, 1 crash, 1 fault | 2,025,855 | KeepHonoured |
| gateway_stop | a `stop` given to a serving gateway, a `keep 0`, 1 call, 2 processes, fairness; 2 faults: store timeouts, interrupts and kills of the stop | 219,773 | CallsAreAccounted, DrainEnds |
| gateway_live | 2 models, 2 calls, 1 crash, 1 fault, fairness | 158,795 | UnloadsSettle |

What they say, part by part. CallsAreSafe: no sweep unloads a model under a call (SweepSparesCalls), and once a park
has its fence there is none (FenceQuiets). TablesAreTrue: no row of a dead instance outlives the recovery
(NoStaleRows), a lease that is settled tells what Ollama has (SettledIsTrue), a claimed one is some sweep's or
recovery's (PendingIsClaimed), what is resident and known has an expiry (ResidentExpires), what was served is logged
(ServedIsLogged). CallsAreAccounted: a live call has its row (LiveCallsHaveRows) and is logged once (LoggedOnce).
UnloadsSettle: every claimed unload gets a result (PendingResolves), every idle model goes (IdleUnloads). DrainEnds: a
stop that does not stop reopens admission, unless it is killed or the write that reopens it times out as well; then
(`stopper.pc = "cut"`) the service drains until a restart or a later refused stop.

What their runs leave out, because it breaks them. TablesAreTrue is of a service without store timeouts, direct clients
and cleared keeps, beside parks, manual fences, a crash and an Ollama failure: gateway_core has just these.
gateway_stop has no crash of the gateway: launchd restarts one that dies during a stop, the new process opens admission
again under a stop that has already counted no connections, and that stop reclaims the row of a live call
(CallsAreAccounted with MaxCrashes = 1). SafeToUnload, four reads of the code, is one step.

Why the bounds are enough. Every conflict in the store is between one model's lease or fence and one call, with one
more actor that undoes a mark; two models are there because a sweep holds a list, two processes because a restart
overlaps its predecessor. A call is made once per element of `Requests`, so at most two calls are made; a sweep
repeats without bound. In gateway_stop one call is enough: rows are reclaimed, recovered and finished one by one. The
other runs take other command sets, because one instance with all of them does not finish; `Ops` says which commands
run. `CHECK_DEADLOCK FALSE`: calls, crashes and commands are bounded and an idle gateway with nothing resident has
nothing to do.

Fairness. WF on threads and running commands (the scheduler), on the end of direct connections and on time stamps
passing; WF on `Restart` (launchd's KeepAlive). SF on `CheckSafe`: the sweep is retried every second, and the machine
is not found busy at every single check. Without it IdleUnloads is false by design: a busy machine defers every
unload.

## 4. The caps: GatewaySlots

One process, its two semaphores and the exits of `_send_upstream`: refused for want of a slot, refused by the store,
raised in `start_request` (a store timeout, counted by `faults`), ended upstream. `open` stands for the admission
rules. slots_core (3 handlers, 2 and 1 slots, 1 store timeout, WF on handlers; 63,648 states) shows SlotsAccounted,
that calls in flight stay within the caps and at most one clef slot is lost per store timeout, and that a clef slot
comes back while fewer timeouts than slots have been (ClefSlotComesBack). Three handlers are one more than the larger
cap.

## 5. Park

`journal` is `PARKED.json` with one entry per planned name and its phase (planned, copied, unloaded, parked,
restored); `tags` and `server` are the world; `fences` the store; `window` the history; `op` the operation under
`PARKED.json.lock`. A park is ParkBegin, ParkFence, ParkProbed, then per entry Copy, Verify, UnloadName, DeleteName,
and Seal; an unpark journals and fences the aliases it will delete (AliasFence, AliasProbed), then restores each name
(Restore, Restored), deletes the aliases (CleanAlias), releases the fences one by one and removes the journal. `Abort`
cuts an operation anywhere, `ParkUndo` is the except branch that takes the fences back, ManualFence, ManualUnfence and
Pull are other commands. `prune_models.py`, which deletes parked copies the journal does not name, has no action:
CleanWhenDone shows that under the lock it never finds one.

| run | instance | states | shows |
|---|---|---|---|
| park_core | 2 names of the same weights (one alias), 4 fence ids, 2 cuts, 1 pull | 522,644 | WeightsKept, CleanWhenDone, FencesCover |
| park_live | 2 names of different weights, 2 cuts, a user who removes unjournaled aliases | 67,964 | Reconciles |

FencesCover has three parts: a name is fenced as long as it is away, an alias when it is deleted, and a fence goes
only when its name was verified to be back.

Two names with one alias are the case the alias code is written for; two cuts allow a cut park with a cut unpark, and
four fence ids are as many as are recorded at once. `CHECK_DEADLOCK FALSE` in park_core: after a pull during a park
both commands may refuse until somebody acts. Fairness of park_live: a running operation goes on; unpark is tried
again (SF on UnparkBegin), its probes do not refuse for ever (SF on AliasFence, AliasProbed), the user helps (SF on
RemoveAlias).

## 6. HeavySlot

`lock`, `owner`, `tickets` and `ahead` are the four files; `depth` the refcount; `pc` a process in acquire, hold or
release. `Sense` reads the machine, `Take` is flock with the queue guard held, `Queue` writes a ticket, `Expire` a
deadline, `Probe` and `Probed` the check for a free lock that `acquire` makes, `Observe` and `Observed` the same by
`localbench slot`, `Crash` a kill (the kernel drops the flock, the files stay).

slot_core (3 processes, nesting 2, 1 kill, deadlines and observers; 80,960 states) shows SlotIsSound (who holds has
the lock, the owner file names it, tickets are of waiters), FirstInLine and GpuServed. Three processes are a holder, a
waiter and one that waits, probes, is killed or arrives; the safety properties are proved for any number. Fairness:
processes run on, jobs end ([]<> not holding), and of a process that polls again and again not every poll finds a busy
machine or meets the instant in which another process probes the lock; then SF on Take, as the poll has no queue of
its own beyond the tickets. Without the last two GpuServed is false by design: a busy machine refuses everybody, and a
status command in an endless loop can meet every poll.

## 7. Profile files, tools, measurements

| run | instance | states | shows |
|---|---|---|---|
| omp_config | 2 profiles (one bare), 3 presets of 2 families, 2 smol models, 3 commands; 1 edit, 1 death, 1 failure, 1 upset | 756,257 | EditsSurvive, RecordsHold, RouteHolds, SmolResolves, PresetsUndo |
| workshop | ten tools, bounds below | 3,188,068 | PlantIsJournaled, OthersEditsStay, LandedIsGated, MainOnlyGrows, WakesSpare, WakesCome, QueueSettles, NewIsFiledOnce, CarriedIsSame, CampaignStands, AgentIsPinned, WrittenOnce |
| harness | six tools, bounds below | 4,971,701 | StoppedIsRecorded, ChildrenStopped, GoldensHold, AbortReaches, HeldSnapshotStays, ReceiptsStand |
| campaign_pins | campaigns alone, within the bounds below | | RunUnderPins violated (section 8) |

All are about safety: no fairness is assumed, and each stops when its bounds are used up (`CHECK_DEADLOCK
FALSE`).

Profile files. `cfg` and `mdl` are `config.yml` and `models.yml` of every profile, with the parts the tools own and
the hand edits in them; `cmd` is the running command, one at a time, cut at any step (Death), with calls of the omp
CLI that fail. `Presets` has apply (plan, backup, write key by key, readback, commit, record), its restore and
rollback; `OmpProfiles` the two-phase install and revert with their undo and redo, and start, stop and remove around
them; `SmolRole` set and revert. Three commands are an apply, a second one over it and a rollback or another tool; two
profiles are what "all or nothing" needs, and the bare one has no `models.yml` yet. `mishap` names what excuses a
property: a death, a forced rollback, an edit between a comparison and its write.

The workshop. Bounds as commands / changes by others / upsets (kills, signals, failures).

| tool | bounds | how it corresponds to the code |
|---|---|---|
| Mutate | 3/2/2 | `lock`, `journal`, `cache` are files; LockTake to LockFree is `held`, LockRecover the recovery of a dead owner's journal; `main` goes through `PlantList` (two cases in one file), and CaseKey, ReadSource, GoodRun, Recheck, WriteJournal, Plant, BadRun, Restore, Undo, Unjournal is `run_case` of each; TreeEdit, TestEdit are people, DoctorFix is `doctor --fix` |
| Landing | 2/2/1 | `main`, `index`, `checkout`, one worktree; LandBegin to LandCleanup is `main`, LandAncestor and LandUpdate are `advance_main`, whose `update-ref` compares and swaps; commits of others take the index lock and move main at any step |
| RunPlan | 2/1/1 | export, proof, copy of each artifact if it is not there, removal; a timeout or Ctrl-C loses what was not copied, and a copy that breaks off leaves a part (PlanPreserve, PlanInterrupt) |
| TickDriver | 1/2/4 | a check reads the pane and the slot, decides and sends; runs and turns begin and end between |
| ProofQueue | 2/3/1 | `plan` is computed from beads and grades, then applied command by command, while people and proofs change both |
| CliProfile | 3/1/2 | a record per command, a manifest with its status, resume |
| ReleaseWatch | 3/2/2 | daily and digest pass over seen, queued, handled and the beads, with fetches that fail, a `br create` that makes a bead and does not answer (LoseBead), and a window that takes entries |
| OmpRefresh | 3/2/2 | settle, two legs per capture, three attempts, comparison per feature; an install replaces entry and modules in two steps |
| Campaign | 2/1/1 | two processes: create, resume, claim, try, record, grade, look for the score, write it; compared pins, omp and sources with their grader that move; a trace is what each grader makes of it |
| LaunchAgent | 3/1/1 | two shells: export, plist, bootstrap, bootout, polling, cleanup on every error path |

Harness, likewise:

| tool | bounds | how it corresponds to the code |
|---|---|---|
| Quiet | 4/3/1 | plan, confirmation, signal pid by pid, record; pids exit and are reused, and the listing of a resume may fail (`blind`) |
| Children | -/-/2 | three threads and up to two signals; the handler is a program of its own in the main thread: mask, copy under the lock, SIGTERM, grace, SIGKILL, unwind |
| Measure | 2/1/1 | preflight, isolate, tiers with samples, pins read at both ends, aa, ab and run with merge and comparison |
| RunWatch | 2/2/1 | the main thread's request and child, the sampler's check, abort and interrupt, each a step |
| OmpFreeze | 3/2/1 | plan, lock, build, probe, verify, hold, work, recheck, prune of two processes; inodes and names are apart |
| ProofRun with DecisionTier | 1/2/1 | candidate by candidate: the shipped context, the residents, their users (a listing that fails reads as none), load, suite, release, receipt, grade, bead; other clients load, call and drop models at any step |

Why the bounds are enough. What a tool does to its files it does per item, and the hazards are between one command and
one other actor, so two commands (three where a resume meets a resumed one), two changes and one or two cuts contain
each of them; passing runs reach every action and every disjunct. The two processes of Campaign and the two shells of
LaunchAgent are interchangeable, and the workshop uses that symmetry: its properties are all about safety. Children
has no commands: its threads start at once. The decisions of a proof do not reach the next proof but through receipts
and beads, which the first candidate already meets when a second follows it.

The properties that are less plain than their names. EditsSurvive: a whole-file restore never takes a person's edit
with it. RecordsHold: `applied.json` says what the files hold. PresetsUndo: from before its first write on a preset
can be undone, and an undo undoes all of it. PlantIsJournaled: a plant on disk is undone by the journal, or a conflict
whose versions are kept, a signal inside the restore, the doctor or a write over a person's edit left it there (`left`
names why). WakesSpare and WakesCome: the driver decides to send after enough calm checks in a row and gives up on
wakes in vain, and passes no resting pane over for more checks than the cooldown asks for. NewIsFiledOnce: a bead more
only for an answer of `br` that was lost or a kill between the bead and the files. QueueSettles: repeated
reconciliation leaves one bead per unproven unit. CarriedIsSame: a proof is carried only if the installed version
sends what was captured. CampaignStands: one trial per varied case, under the campaign's pins as far as `pin_diff`
compares them, and a PASS that its cases support. AgentIsPinned: an export is what its name says, a healthy status
means that code serves, and a start that reports success was answered by its own process. GoldensHold: a row was
measured under the pins it is filed under, with no other model hidden in an excused gap, and sound comparisons are of
equal pins. ReceiptsStand: a clean decision receipt is of a run that fitted its context, and a bead closed by a proof
has a banked, clean receipt of its own route that was better when it was graded. WrittenOnce: receipts, run
directories, records, bodies and outcomes, once written, stay, and an export goes only when its results are copied or
were given up by the proof itself (`lost`).

## 8. Where code and words disagree

One is a run that TLC must find violated, campaign_pins (RunUnderPins). `__main__.py:3211-3212` says completed cases
"remain checkpointed under identical pins". The campaign's pins are read once, and each leg compares its end with its
own beginning only: pins that move between two legs are seen by none, and the case is graded under pins it was not
measured under. `eval varied` does compare with the campaign's pins, and CampaignStands holds of it.

The others were met while modelling. Either a property excuses the case by name, or the constants of the run exclude
it.

Gateway and slot.
- `keep 0` unloads on an idleness it read before the confirmation (`__main__.py:2226`, README.md:203-204).
- A store timeout in `mark_result` after an unload (`gateway.py:1791`) leaves the lease claimed until a restart, and
  calls are told to retry (591).
- A refused auxiliary call keeps its slot for the life of the process (`gateway.py:1267`, against the comment at
  1246).
- A keep that Ollama rejects clears the lease of an earlier keep (`clear_manual_lease`): the model stays loaded with
  no recorded expiry (ResidentExpires with Ops = {"keep"}).
- A gateway that still binds when `stop` closes admission opens it again when it begins to serve, and a call admitted
  between the count of connections and the read of the rows loses its row (LiveCallsHaveRows with Ops = {"stop"}).
  With a gateway that already serves, and goes on to, it cannot happen (gateway_stop); one that dies during the stop is
  restarted and does the same.
- A stop that is killed after it closed admission, or whose last write (`gateway.py:2048`) exceeds the busy timeout,
  leaves the gateway draining; a repeated stop that is refused, or a restart, reopens it.
- `service.lock` is released when the accept loop has ended, while threads of the process may still run
  (LockProvesExit with Supervised = FALSE).
- A store timeout in `start_request` is not caught, and its clef slot is lost (ClefSlotComesBack without its guard).
- A status command that probes the flock makes an acquire fail on a free slot (RefusalsHaveCause with Observers =
  TRUE).
- Overlapping installs: the loser's failed bootstrap unlinks the plist of the winner's loaded job; a failed install
  boots out without waiting, and a stop that times out leaves a dying process that may answer the next start.

Park and profiles.
- A park cut between the copy and its checkpoint is not reconciled by unpark (`park.py:390`, README.md:209-210).
- A park cut before its history row has names away and no open window (WindowCovers with MaxAborts = 1).
- `smol set` writes `state.json` without the "profiles" entry of an earlier set (`smol.py:307-308`), so that revert
  cannot undo "exactly these edits" (`__main__.py`, help of smol).
- presets of two families that name the same setting would overwrite each other while `applied.json` keeps both
  (`load` does not check; the registry's families have settings of their own): RecordsHold is of families that are
  apart.
- A death between the edit of the profiles and the manifest (`omp_profiles.py:261`) leaves routes that no revert
  knows.

Measurements.
- A sample that falls into the run's own isolation makes the watchdog abort a healthy run (`workloads.py`,
  README.md:177).
- A cancellation while `urlopen` waits for headers interrupts nothing until they come or 1800 s pass.
- The comment at `__main__.py:544` promises all pins, PIN_KEYS leaves `omp_version` and `omp_sha` out
  (`golden.py:138`); pins that move and move back within a leg are not seen.
- The signal handler waits for ever when the signal falls into the main thread's own `register_child` or
  `unregister_child`; a second signal skips SIGKILL; a signal between `Popen` and `register_child` leaves an orphan.
- `quiet` killed between SIGSTOP and the save, or while it writes, leaves stopped processes nobody knows; a pid that
  is reused between the plan of a pause and its signal stops another program.
- A builder whose probe fails removes a snapshot that others hold (`ompfreeze.py:339-343`); a run may hold a lock file
  that is unlinked; an update between two copies gives a mixed snapshot with a matching id. With three processes a
  pruner whose lock file another pruner has unlinked removes a snapshot that was built and held again under a fresh
  lock file (`ompfreeze.py:394-406`), against the docstring of `hold` ("prune() skips it while any holder lives",
  353). The run has two processes and cannot show it; the proof met it, `dropped` names the versions removed so, and
  HeldSnapshotStays is of the others.
- `quiet --resume` forgets a pause "whose pid is gone or runs another command" (`__main__.py:2455-2456`). A `ps` that
  fails gives an empty listing (`sysstats.py:32-36`, `quiet.py:80-94`): the resume continues nothing and forgets every
  browser that is still stopped. The model has it (`blind`), and StoppedIsRecorded names the pids lost so.
- "Telemetry that cannot be read is itself a reason (fail closed)" (`decision.py:1114`): an `lsof` or `ioreg` that fails
  raises nothing and reads as no client (`sysstats.py:32-36`, 380). The load that follows may cut a call that was there
  when the guard asked; the model has the listing that fails, and no property says that calls are spared.
- `ensure_context` acts on residents it read before (`decision.py:1255-1283`); an established connection to Ollama
  counts as a user of every model, and a call that comes between the question and the load is cut, as are those of
  models it does not ask about; `prove` may evict an idle runner it did not load (`prove.py:1263`), leaves the
  runner of a failed run though the docstring of `prove_spec` has the baseline restored, and unloads as its own a
  runner another client loaded again.
- An exception in one candidate skips the beads of earlier candidates whose receipts are banked; failed assertions of
  a spec do not reach the problems of decision and memory receipts; a live decision proof, compared with nothing, is
  never PROVEN; SIGKILL leaves the Laya shim running.

Tools.
- mutate: a cancellation during the restore leaves the plant with the lock released, so the journal is not consulted
  again; after a conflict the next case replaces the journal of the plant that was left, and unlinks it; a kill between
  journal and plant, between undo and unlink, or between recovery and unlink, makes every later recovery raise a
  conflict until a person removes the journal; a kill between `mkdir` and the owner file leaves a lock nobody takes.
- mutate `--cached` reuses verdicts "when the case and local test/import closure are unchanged" (`mutate.py:289`). A test
  named by its method, as in the repository's case files, resolves to no file (144-149): the closure is empty, and a
  verdict is reused after the tests changed. KeyOf is what the code does, so no property says a cached verdict is true.
- `doctor --fix` removes the lock of a dead mutation run, "safe, reversible and idempotent" (`doctor.py:5`). That lock is
  what makes the next run recover the plant; without it the plant is taken for the original (DoctorFix, `left`).
- tick driver: "a message never lands during a measurement or on top of a turn" (`tick_driver.py:63-64`). A run or a turn
  that begins between the look and the send is not seen.
- land: the docstring (line 8) leaves the worktree for inspection, `finally` removes it; a failing index reset reports
  failure with main advanced.
- run_plan: a proof that runs into the 600 s timeout loses its receipts, and Ctrl-C during the copies loses those not
  yet copied (`except Exception`, 141, does not see it); a copy that broke off is not replaced by a later one.
- proofqueue: `_adopted` matches substrings, so a unit adopts, and closes, the bead of another whose title contains
  its route (docstring, line 137); two that overlap rewrite each other; a comment that fails after the body was
  written is lost.
- profile_cli: a kill between the directory and its manifest leaves a directory that neither a run nor `--resume`
  accepts.
- releasewatch: a name whose first fetch failed at the baseline counts as a new family later; the digest's first look
  takes what came after the daily baseline for old, and what it could not read then for new; a deferred item that
  drops off its listing is lost; a kill between `br create` and the files, or a `br create` that makes its bead and
  times out (600-605), files twice.
- omp refresh: only the first attempt waits for the package to settle; the baseline is never replaced, so a proof
  renewed stays STALE; two first refreshes race.
- campaigns: `pin_diff` leaves `omp_version` and `omp_sha` out (`golden.py:36-40`), so an omp update between trials
  voids nothing; the evidence is called append-only (`evaluation.py:1`), but `write_scores` looks for the file (242) and
  replaces it later (247), so that of two commands that score different states of the cases the later replaces the text
  of the other; a score is filed under the sources on disk, whatever code made it; a rescore before the end writes
  INCOMPLETE under the scorer, and the complete score then "differs"; a
  killed varied trial leaves a directory that every resume refuses; a creation that is cut can be neither resumed nor
  repeated.

## 9. What is proved, what is only checked, what is left out

Proved with TLAPS for every value of the constants, from the assumptions in the modules:

- `GatewayLeaseProofs`. `Invariant`: `Spec => []IInv`, IInv == TypeOK /\ RowsAdmitted /\ AdmissionExcludes.
  RowsAdmitted (only admitted calls have rows, so a row is never inserted twice and a call's model is fixed) is what
  makes AdmissionExcludes inductive. From it `TypeCorrect`, `AdmissionIsExclusive` and `Implements`: every step is a
  step of ResidencyLock or leaves its variables alone. One lemma per group of actions, each by the effect on a lease
  (LeaseUpdates) and on the rows.
- `GatewaySafetyProofs` extends it to what the runs check. Plain is a service that launchd alone starts and that gets
  no stop and no unload command; a stop, a keep 0 and a second instance break the properties (section 8), so the
  theorems have Plain as their condition. SInv is the strengthening: no stop is under way (NoStops), one instance
  lives (OneInstance), a live call has its row (CallsHaveRows), a model in a sweep's hands is marked as pending until
  that sweep settles it (ClaimsAreMarked), a kept one is not (KeptAreUnmarked), and a logged call has no row to log
  again (LoggedIsOver). From it `CallsStaySafe`, `KeepIsHonoured` and `CallsAreCounted`: a marked model admits no
  call, so a sweep meets none. TInv adds what the tables tell: rows are of the instance that serves or is being
  recovered (RowsOfServer), a served call is logged (ServedIsLogged), a used model's lease is not settled
  (UsedAreUnsettled), a pending one is in the list of its sweep or of a recovery (PendingAreClaimed), what is resident
  expires (ResidentsExpire). From it `TablesStayTrue`, which also excludes direct clients (they load behind a settled
  lease), keeps (one that Ollama rejects clears an expiry) and store timeouts (they leave a pending lease nobody has):
  the command set of gateway_core.
- `HeavySlotProofs`. `Invariant` with IInv == TypeOK /\ LockFollows /\ HolderNamed /\ TicketsWait. LockFollows (who is
  between take and unlock has the lock, and depth is positive just there) is the strengthening: HolderNamed alone is
  not inductive, since a release removes the file it finds. `SlotSound` collects the invariants, `Fifo` is the action
  property: a take looks at the tickets in the same step.
- `GatewaySlotsProofs`. `Invariant` with IInv == Types /\ SlotsBounded: free slots plus counted handlers are at most
  the cap, and for the clef cap less by at most one per store timeout. From it `TypeCorrect`, `CapsHold`, `SlotsKept`
  and `Accounted`. It needs a finite set of handlers.
- `ParkProofs`, in two layers. `WeightsStay`: WeightsKept is not inductive, a name may be deleted or pulled over.
  AliasesHold is: the alias of an entry that is away has its digest, and so has the entry at hand between the verified
  copy and the checkpoint. Progress (an unpark cleans up only when every entry is restored) is needed for the deletion
  of aliases, Places for the entry at hand. `FencesStay` and `LeftClean` rest on FInv: Ids (a fence id belongs to a
  park or to a cleanup, and a running park's id to its new entries alone, so that a refusal releases nobody else's
  fence), Fenced (also for what a park is about to take and a cleanup is about to delete), Restoring (what unpark has
  passed is back) and Accounted (every copy, every missing name or server and every fence of a park has its entry, one
  that a refused park does not take back), which is what lets RemoveJournal leave nothing behind.
- `OmpConfigProofs`. `BaseHolds`: shapes, and that what presets do not own in models.yml (smol block, route) is in a
  running preset command's backup as it is in the file. On it stand five results. `EditsKept` (Survive): backup and
  hashes of an applied preset carry the hand edits of the time, so going back loses only later ones, and those show in
  the hashes. `PresetsCanBeUndone` (PutBack): what a restore has put back so far holds its old bytes. `LinesResolve`
  (Resolved): no backup, plan, prior or recorded line names a block that is not there; it is what each half-done set
  and revert keeps (SetFitsIn, RevertFitsIn). `RoutesHold` (Routing, Serving): at each place of install and remove the
  profiles are the snapshot with the edits of `done`, and a closed gateway is down or has the state to be reopened
  with. `RecordsStand` (Telling): the standing applies of a profile are a stack. What an apply backed up meets the
  presets below it and the record it found is theirs (Stacked), so an apply pushes (Push, PushRecord) and a rollback
  in order pops (Pop); a running apply has changed its own settings only (ApplyStandsAt), a running rollback what it
  has restored (RollbackStandsAt).
- `WorkshopProofs`, one section per tool. Landing (`LandInvariant`, `Landed`, `Grows`): a landing that has committed
  knows its base and the tree it gated, and the compare-and-swap of `update-ref` lets it on that base only. Mutate
  (`MutateInvariant`, `Journaled`, `EditsStay`): the journal has the bytes without the plant and all edits in it
  (JournalUndoes), what a run remembers of the file at each place of each case (MutateKnows), and every plant that the
  journal does not undo is in `left`. TickDriver (`Spared`, `Woken`): the driver's count of idle checks is that of the
  checks that were (calm), and what passed since the last send is no more than its cooldown. OmpRefresh
  (`CarriedRightly`): an attempt that no install overtook has heard one version, entry and modules alike. LaunchAgent
  (`Pinned`): exports are as named (PinsFit), one command at a time leaves what runs as the plist says (OneAtATime), a
  process told to end is waited for (Awaited). Campaign (`CampInvariant`, `Stands`, `OutcomesStay`): what each of the
  processes knows of files, pins and trials at its place, and that no two are at one case (OnlyOne). `OutcomesStay` is
  of the rows of the cases; of the scores it is false (section 8). RunPlan and CliProfile (`PlanInvariant`,
  `ProfileInvariant`): what is copied is from the run's own export, records agree with the manifest. With the others
  they give `RecordedOnce`, the action property over all tools. ProofQueue (`QueueInvariant`, `Settles`): every unit
  has one action in what is left to do, or is settled for good (Past). ReleaseWatch (`FiledOnceEach`): what is filed
  is on record or in doubt except the item in hand (OnRecord), and the pass remembers at least what seen.json says
  (MemFits).
- `HarnessProofs`, likewise. Children (`ChildInvariant`, `AllStopped`): needs one signal outside the gap between
  `Popen` and registration, as the property does. The order of registration (TableOrderly) and the handler's progress
  (HandlerPhases) support the crux, ChildCovered: before the cleanup a child in use is in the table, after it the
  handler has it in its copy or it is dead. Quiet (`QuietRecorded`): what is stopped is in the record or in the plan
  being carried out. RunWatch (`AbortReached`): who registers a response meets the cancellation, or the sampler meets
  the response (Meets). Measure (`MeasureInvariant`, `GoldensTrue`): pins grow, so a leg that ends with the pins it
  began with had them all along; what a leg and its samples know of foul models goes into the row or voids it.
  OmpFreeze (`FreezeInvariant`, `SnapshotsHeld`): for any number of processes. Who removes under a lock file holds it
  alone (FreezeExclusive); a run whose path still names its lock file finds its snapshot (FreezeWorks). DecisionTier
  and ProofRun (`DecideInvariant`, `ReceiptsAllStand`): receipts, outcomes and closings refer to each other (ProofFits).

Assumptions. The modules name theirs: bounds are numbers, finite sets are finite, and Nil is none of the records it
stands in for (a command's locals, a file, a snapshot). Two theorems have a hypothesis of their own. `Settles` assumes
Apart: a unit's title names no other unit, and no bead of people's names two. Beads that name two are fought over for
ever, since `_adopted` matches substrings. `RecordsStand` assumes FamiliesApart: presets of different families name
different settings, as those of the registry do. The runs' instances satisfy both. HeldSnapshotStays, TablesAreTrue
and CallsStaySafe have the conditions above.

The modules of the tools are proved about inside the compositions (Workshop, Harness): lemmas say that the steps of
the other tools leave a tool's variables alone.

Only model-checked. Liveness: DrainEnds, UnloadsSettle, Reconciles, GpuServed and ClefSlotComesBack; fairness and
ENABLED are out of the prover's reach. CallsAreAccounted beside the stop and the unload commands of gateway_stop,
which the condition of `CallsAreCounted` excludes. Every other safety invariant and action property of the passing
runs is a theorem.

Not modelled, with the reason per component in `PROJECT.json`: adapters of external servers and applications, parsers
of `ps`, `lsof` and model listings, text projections and clients, which keep no state that two steps could disagree
on; workloads, private corpora, response cache, memory banks and generation corpora, whose files have one writer that
writes them once; statistics on floating-point numbers; the contents of requests, prompts and answers.
`prune_models.py` deletes parked copies the journal does not name, under park's lock: CleanWhenDone shows that there
are none.
