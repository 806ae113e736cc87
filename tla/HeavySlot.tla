----------------------------- MODULE HeavySlot -----------------------------
(***************************************************************************)
(* The machine-wide heavy slot (localbench/heavyslot.py): a flock on       *)
(* heavy.lock, the owner file beside it, the tickets of the processes that *)
(* wait for it, and the refcount of nested holds.                          *)
(*                                                                         *)
(* Abstractions.                                                           *)
(*  - A ticket's queue_order is one more than that of every live ticket:   *)
(*    kept is who has a ticket and whose tickets were written before.      *)
(*  - What a process does under heavy-queue/.lock is one step: nothing     *)
(*    else reads or writes the tickets.                                    *)
(*  - The readings of CPU, memory and GPU admit or refuse at any time; a   *)
(*    forced take is a reading that admits.  A wait expires at any time.   *)
(*  - Pids are not used twice.  One thread per process takes the slot.     *)
(*  - heavy-history.jsonl and the estimates made from it are left out.     *)
(***************************************************************************)
EXTENDS Naturals

CONSTANTS
    Procs,        \* localbench processes, named by their pid
    None,
    Deadlines,    \* TRUE: a wait may be zero or expire
    Observers,    \* TRUE: `localbench slot` and status commands run
    MaxDepth,     \* bound on nested holds of one process
    MaxCrashes    \* bound on processes killed

ASSUME SlotAssumption ==
    /\ None \notin Procs
    /\ Deadlines \in BOOLEAN
    /\ Observers \in BOOLEAN
    /\ MaxDepth \in Nat \ {0}
    /\ MaxCrashes \in Nat

VARIABLES
    lock,         \* the process whose descriptor has the flock
    owner,        \* the pid in heavy.lock.owner
    tickets,      \* who has a ticket in heavy-queue
    ahead,        \* for each ticket, the tickets with a lower queue_order
    pc, gpu,      \* where each process is; whether its job needs the GPU
    admitted,     \* its last readings admit it
    depth,        \* its refcount, _HELD[key]["count"]
    crashes

queue == <<tickets, ahead>>
job == <<gpu, admitted>>
vars == <<lock, owner, queue, pc, job, depth, crashes>>
-----------------------------------------------------------------------------
PC == {"out", "sense", "try", "refused", "probing", "leaving", "holding",
       "unlocking", "observing", "dead"}
Waiting == {"sense", "try", "refused", "probing", "leaving"}

TypeOK ==
    /\ lock \in Procs \cup {None}
    /\ owner \in Procs \cup {None}
    /\ tickets \subseteq Procs
    /\ ahead \in [Procs -> SUBSET Procs]
    /\ pc \in [Procs -> PC]
    /\ gpu \in [Procs -> BOOLEAN]
    /\ admitted \in [Procs -> BOOLEAN]
    /\ depth \in [Procs -> 0..MaxDepth]
    /\ crashes \in 0..MaxCrashes

Init ==
    /\ lock = None
    /\ owner = None
    /\ tickets = {}
    /\ ahead = [p \in Procs |-> {}]
    /\ pc = [p \in Procs |-> "out"]
    /\ gpu = [p \in Procs |-> FALSE]
    /\ admitted = [p \in Procs |-> FALSE]
    /\ depth = [p \in Procs |-> 0]
    /\ crashes = 0

Goto(p, l) == pc' = [pc EXCEPT ![p] = l]

\* What acquire knew of the machine, and the job itself, are over.
Forget(p) == admitted' = [admitted EXCEPT ![p] = FALSE]
ForgetJob(p) == gpu' = [gpu EXCEPT ![p] = FALSE]

\* Mutant of Live: the tickets of dead processes stay.
MutLiveAll == tickets

\* _waiters_unlocked prunes the tickets of dead processes.
Live == {p \in tickets : pc[p] # "dead"}

\* The order of the snapshot: GPU tickets first, each class in its order.
Precedes(p, q) == \/ gpu[p] /\ ~gpu[q]
                  \/ gpu[p] = gpu[q] /\ p \in ahead[q]

\* Mutant of Turn: who has no ticket yet does not look at the queue.
MutTurnBypass(p) == p \in tickets => \A q \in Live : ~Precedes(q, p)

\* Even a new caller waits behind every ticket.
Turn(p) == IF p \in tickets THEN \A q \in Live : ~Precedes(q, p)
                            ELSE Live = {}

\* The tickets that are left are those in S.
Keep(S) ==
    /\ tickets' = S
    /\ ahead' = [p \in Procs |-> IF p \in S THEN ahead[p] \cap S ELSE {}]

\* A ticket is written for p unless it has one.
Enqueue(p) ==
    /\ tickets' = Live \cup {p}
    /\ ahead' = [q \in Procs |-> IF q \in Live THEN ahead[q] \cap Live
                               ELSE IF q = p THEN Live ELSE {}]
-----------------------------------------------------------------------------
(* acquire                                                                 *)

Begin(p, g) ==
    /\ pc[p] = "out"
    /\ gpu' = [gpu EXCEPT ![p] = g]
    /\ Goto(p, "sense")
    /\ UNCHANGED <<lock, owner, queue, admitted, depth, crashes>>

\* The readings are taken before the queue is looked at.
Sense(p, ok) ==
    /\ pc[p] = "sense"
    /\ admitted' = [admitted EXCEPT ![p] = ok]
    /\ Goto(p, "try")
    /\ UNCHANGED <<lock, owner, queue, gpu, depth, crashes>>

CanTake(p) == Turn(p) /\ admitted[p] /\ lock = None

TicketsLeft(p) == Live \ {p}
Named(p) == p

Take(p) ==
    /\ pc[p] = "try"
    /\ CanTake(p)
    /\ lock' = p
    /\ owner' = Named(p)
    /\ Keep(TicketsLeft(p))
    /\ depth' = [depth EXCEPT ![p] = 1]
    /\ Forget(p)
    /\ Goto(p, "holding")
    /\ UNCHANGED <<gpu, crashes>>

\* No slot: a ticket is written unless there is one, and it polls again.
Queue(p) ==
    /\ pc[p] = "try"
    /\ ~CanTake(p)
    /\ Enqueue(p)
    /\ Forget(p)
    /\ Goto(p, "sense")
    /\ UNCHANGED <<lock, owner, gpu, depth, crashes>>

\* No slot and the wait has expired, perhaps before a ticket was written.
Expire(p) ==
    /\ Deadlines
    /\ pc[p] = "try"
    /\ ~CanTake(p)
    /\ Keep(Live) \/ Enqueue(p)
    /\ Forget(p)
    /\ Goto(p, "refused")
    /\ UNCHANGED <<lock, owner, gpu, depth, crashes>>

\* holder(): the probe takes the flock if nobody has it.
Probe(p) ==
    /\ pc[p] = "refused"
    /\ IF lock = None THEN lock' = p /\ Goto(p, "probing")
                      ELSE UNCHANGED lock /\ Goto(p, "leaving")
    /\ UNCHANGED <<owner, queue, job, depth, crashes>>

Probed(p) ==
    /\ pc[p] = "probing"
    /\ lock' = None
    /\ Goto(p, "leaving")
    /\ UNCHANGED <<owner, queue, job, depth, crashes>>

\* SlotRefused is raised; the finally block removes the ticket.
Leave(p) ==
    /\ pc[p] = "leaving"
    /\ Keep(tickets \ {p})
    /\ ForgetJob(p)
    /\ Goto(p, "out")
    /\ UNCHANGED <<lock, owner, admitted, depth, crashes>>

Reenter(p) ==
    /\ pc[p] = "holding"
    /\ depth[p] < MaxDepth
    /\ depth' = [depth EXCEPT ![p] = @ + 1]
    /\ UNCHANGED <<lock, owner, queue, pc, job, crashes>>

\* Mutant of Last: an inner release gives the slot up.
MutLastAlways(p) == TRUE

Last(p) == depth[p] = 1

ReleaseInner(p) ==
    /\ pc[p] = "holding"
    /\ ~Last(p)
    /\ depth' = [depth EXCEPT ![p] = @ - 1]
    /\ UNCHANGED <<lock, owner, queue, pc, job, crashes>>

\* The last release unlinks the owner file before it unlocks.
ReleaseLast(p) ==
    /\ pc[p] = "holding"
    /\ Last(p)
    /\ depth' = [depth EXCEPT ![p] = @ - 1]
    /\ owner' = None
    /\ Goto(p, "unlocking")
    /\ UNCHANGED <<lock, queue, job, crashes>>

Unlock(p) ==
    /\ pc[p] = "unlocking"
    /\ lock' = None
    /\ ForgetJob(p)
    /\ Goto(p, "out")
    /\ UNCHANGED <<owner, queue, admitted, depth, crashes>>

\* `localbench slot` probes the lock, then prunes the tickets.  While somebody
\* holds the slot it only prunes, which nobody can tell: see Live.
Observe(p) ==
    /\ Observers
    /\ pc[p] = "out"
    /\ lock = None
    /\ lock' = p
    /\ Goto(p, "observing")
    /\ UNCHANGED <<owner, queue, job, depth, crashes>>

Observed(p) ==
    /\ pc[p] = "observing"
    /\ lock' = None
    /\ Keep(Live)
    /\ Goto(p, "out")
    /\ UNCHANGED <<owner, job, depth, crashes>>

\* The kernel drops the flock; the owner file and the ticket stay.
Crash(p) ==
    /\ crashes < MaxCrashes
    /\ pc[p] \notin {"out", "dead"}
    /\ crashes' = crashes + 1
    /\ lock' = IF lock = p THEN None ELSE lock
    /\ depth' = [depth EXCEPT ![p] = 0]
    /\ Goto(p, "dead")
    /\ UNCHANGED <<owner, queue, job>>

Finishes(p) ==
    \/ Queue(p) \/ Expire(p) \/ Probe(p) \/ Probed(p) \/ Leave(p)
    \/ ReleaseInner(p) \/ ReleaseLast(p) \/ Unlock(p) \/ Observed(p)

Step(p) ==
    \/ \E g \in BOOLEAN : Begin(p, g)
    \/ \E ok \in BOOLEAN : Sense(p, ok)
    \/ Take(p) \/ Finishes(p) \/ Reenter(p) \/ Observe(p) \/ Crash(p)

Next == \E p \in Procs : Step(p)

Spec == Init /\ [][Next]_vars

\* p looks for the slot while no status or refusal probes the lock.
Polls(p) == pc[p] = "try" /\ \A q \in Procs : pc[q] \notin {"probing", "observing"}

\* Processes run on and jobs end.  Of a process that polls again and again, not
\* every poll finds a busy machine, and not every poll meets the instant in
\* which another process probes the lock.
Fairness ==
    \A p \in Procs :
      /\ WF_vars(Finishes(p) \/ \E ok \in BOOLEAN : Sense(p, ok))
      /\ []<>(pc[p] # "holding")
      /\ []<>(pc[p] = "try") => []<>(Polls(p) /\ admitted[p])
      /\ SF_vars(Take(p))

FairSpec == Spec /\ Fairness
-----------------------------------------------------------------------------
(* Properties.                                                             *)

\* Who holds the slot, at whatever depth, has the lock: nested holds and
\* releases, probes of the lock and crashes included.
HoldersLock == \A p \in Procs : depth[p] > 0 => lock = p

\* The owner file names the holder as long as it holds, whatever a holder
\* before it left behind and whenever that removed its own file.
HolderNamed == \A p \in Procs : pc[p] = "holding" => owner = p

\* A ticket of a live process is that of one that waits, and of two tickets
\* one was written first: nothing a process went through leaves a ticket that
\* blocks the others, or two that block each other.
TicketsWait ==
    /\ \A p \in tickets : pc[p] \in Waiting \cup {"dead"}
    /\ \A p, q \in tickets : p # q => (p \in ahead[q] <=> q \notin ahead[p])

\* Lock, owner file and queue agree with who works under the slot.
SlotIsSound == HoldersLock /\ HolderNamed /\ TicketsWait

\* Nobody passes a GPU ticket of a live process with a CPU ticket or with
\* none, and nobody passes an earlier ticket of the own class.
Passes(p, q) ==
    /\ pc[q] # "dead"
    /\ \/ p \notin tickets
       \/ gpu[q] /\ ~gpu[p]
       \/ gpu[q] = gpu[p] /\ p \notin ahead[q]
FirstInLine ==
    [][\A p \in Procs : depth[p] = 0 /\ depth'[p] > 0 =>
         \A q \in tickets \ {p} : ~Passes(p, q)]_vars

\* A GPU job that waits gets the slot, unless its wait expires or is refused.
GpuServed ==
    \A p \in Procs :
        (pc[p] = "sense" /\ gpu[p]) ~> (pc[p] \in {"holding", "refused", "dead"})

\* A refusal has a cause: somebody holds the slot or is ahead in the queue, or
\* the machine is too busy.
RefusalsHaveCause ==
    [][\A p \in Procs : pc[p] = "try" /\ pc'[p] = "refused" =>
         \/ ~admitted[p]
         \/ \E q \in Procs : pc[q] \in {"holding", "unlocking"}
         \/ tickets \ {p} # {}]_vars
=============================================================================
