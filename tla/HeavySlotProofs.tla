-------------------------- MODULE HeavySlotProofs --------------------------
(***************************************************************************)
(* Proofs about HeavySlot: its safety properties, for any set of processes,*)
(* depth of nesting and number of crashes.                                 *)
(***************************************************************************)
EXTENDS HeavySlot, TLAPS

USE DEF queue, job, vars

\* A process has the lock at every step between its flock and its unlock, and
\* it has a hold exactly when it is holding.
LockFollows ==
    \A p \in Procs :
        /\ pc[p] \in {"holding", "unlocking", "probing", "observing"} => lock = p
        /\ pc[p] = "holding" <=> depth[p] > 0

IInv == TypeOK /\ LockFollows /\ HolderNamed /\ TicketsWait

LEMMA InitInv == Init => IInv
  BY SlotAssumption
  DEF Init, IInv, TypeOK, LockFollows, HolderNamed, TicketsWait, PC

\* A process that waits for the slot, or leaves without it, holds nothing.
LEMMA WaitStep ==
    ASSUME IInv, NEW p \in Procs,
           \/ \E g \in BOOLEAN : Begin(p, g)
           \/ \E ok \in BOOLEAN : Sense(p, ok)
           \/ Queue(p) \/ Expire(p) \/ Probe(p) \/ Probed(p) \/ Leave(p)
           \/ Observe(p) \/ Observed(p)
    PROVE  TypeOK' /\ LockFollows' /\ HolderNamed'
  <1> USE DEF IInv, TypeOK, LockFollows, HolderNamed, PC, Goto
  <1>1. CASE \E g \in BOOLEAN : Begin(p, g)
    BY <1>1 DEF Begin
  <1>2. CASE \E ok \in BOOLEAN : Sense(p, ok)
    BY <1>2 DEF Sense
  <1>3. CASE Queue(p)
    BY <1>3 DEF Queue, Forget, Enqueue, Live
  <1>4. CASE Expire(p)
    BY <1>4 DEF Expire, Forget, Enqueue, Keep, Live
  <1>5. CASE Probe(p)
    BY <1>5, SlotAssumption DEF Probe
  <1>6. CASE Probed(p)
    BY <1>6, SlotAssumption DEF Probed
  <1>7. CASE Leave(p)
    BY <1>7 DEF Leave, ForgetJob, Keep
  <1>8. CASE Observe(p)
    BY <1>8, SlotAssumption DEF Observe
  <1>9. CASE Observed(p)
    BY <1>9, SlotAssumption DEF Observed, Keep, Live
  <1> QED
    BY <1>1, <1>2, <1>3, <1>4, <1>5, <1>6, <1>7, <1>8, <1>9

\* A process takes a lock that nobody has, and gives up what it has.
LEMMA HoldStep ==
    ASSUME IInv, NEW p \in Procs,
           \/ Take(p) \/ Reenter(p) \/ ReleaseInner(p) \/ ReleaseLast(p)
           \/ Unlock(p) \/ Crash(p)
    PROVE  TypeOK' /\ LockFollows' /\ HolderNamed'
  <1> USE SlotAssumption DEF IInv, TypeOK, LockFollows, HolderNamed, PC, Goto
  <1>1. CASE Take(p)
    BY <1>1 DEF Take, Forget, CanTake, Named, Keep, TicketsLeft, Live
  <1>2. CASE Reenter(p)
    BY <1>2 DEF Reenter
  <1>3. CASE ReleaseInner(p)
    BY <1>3 DEF ReleaseInner, Last
  <1>4. CASE ReleaseLast(p)
    BY <1>4 DEF ReleaseLast, Last
  <1>5. CASE Unlock(p)
    BY <1>5 DEF Unlock, ForgetJob
  <1>6. CASE Crash(p)
    BY <1>6 DEF Crash
  <1> QED
    BY <1>1, <1>2, <1>3, <1>4, <1>5, <1>6

\* Removing tickets leaves an order among the others.
LEMMA KeepOrders ==
    ASSUME IInv, NEW S, S \subseteq tickets, Keep(S)
    PROVE  \A p, q \in tickets' : p # q => (p \in ahead'[q] <=> q \notin ahead'[p])
  BY DEF IInv, TicketsWait, TypeOK, Keep

\* A new ticket is behind those of the live processes.
LEMMA EnqueueOrders ==
    ASSUME IInv, NEW p \in Procs, Enqueue(p)
    PROVE  \A q, r \in tickets' : q # r => (q \in ahead'[r] <=> r \notin ahead'[q])
  <1> SUFFICES ASSUME NEW q \in tickets', NEW r \in tickets', q # r
               PROVE  q \in ahead'[r] <=> r \notin ahead'[q]
    OBVIOUS
  <1>1. Live \subseteq tickets /\ tickets \subseteq Procs /\ tickets' = Live \cup {p}
    BY DEF Live, Enqueue, IInv, TypeOK
  <1>2. CASE q \in Live /\ r \in Live
    BY <1>1, <1>2 DEF IInv, TicketsWait, Enqueue
  <1>3. CASE q \in Live /\ r = p /\ p \notin Live
    BY <1>1, <1>3 DEF Enqueue
  <1>4. CASE r \in Live /\ q = p /\ p \notin Live
    BY <1>1, <1>4 DEF Enqueue
  <1> QED
    BY <1>1, <1>2, <1>3, <1>4

\* Whoever stops waiting has removed its ticket, or is dead.
LEMMA TicketStep ==
    ASSUME IInv, NEW p \in Procs, Step(p)
    PROVE  TicketsWait'
  <1> USE DEF Waiting, Goto
  <1>1. CASE UNCHANGED queue /\ pc' \in {[pc EXCEPT ![p] = l] : l \in Waiting \cup {"dead"}}
    BY <1>1 DEF IInv, TicketsWait, TypeOK
  <1>2. CASE UNCHANGED queue /\ p \notin tickets /\ (pc' = pc \/ \E l \in PC : Goto(p, l))
    BY <1>2 DEF IInv, TicketsWait, TypeOK
  <1>3. CASE UNCHANGED <<queue, pc>>
    BY <1>3 DEF IInv, TicketsWait
  <1>4. CASE \E S \in SUBSET tickets : Keep(S) /\ (\E l \in PC : Goto(p, l) /\ (p \notin S \/ l \in Waiting))
    <2> PICK S \in SUBSET tickets, l \in PC :
          Keep(S) /\ Goto(p, l) /\ (p \notin S \/ l \in Waiting)
      BY <1>4
    <2>1. tickets' = S /\ \A q \in S : pc'[q] \in Waiting \cup {"dead"}
      BY DEF Keep, IInv, TicketsWait, TypeOK
    <2> QED
      BY <2>1, KeepOrders DEF TicketsWait
  <1>5. CASE Enqueue(p) /\ \E l \in Waiting : Goto(p, l)
    <2>1. \A q \in tickets' : pc'[q] \in Waiting \cup {"dead"}
      BY <1>5 DEF Enqueue, Live, IInv, TicketsWait, TypeOK
    <2> QED
      BY <1>5, <2>1, EnqueueOrders DEF TicketsWait
  <1>6. Live \subseteq tickets /\ Live \ {p} \subseteq tickets /\ tickets \ {p} \subseteq tickets
    BY DEF Live
  <1>7. pc[p] \notin Waiting \cup {"dead"} => p \notin tickets
    BY DEF IInv, TicketsWait
  <1>8. CASE \E g \in BOOLEAN : Begin(p, g)
    BY <1>1, <1>8 DEF Begin
  <1>9. CASE \E ok \in BOOLEAN : Sense(p, ok)
    BY <1>1, <1>9 DEF Sense
  <1>10. CASE Take(p)
    BY <1>4, <1>6, <1>10 DEF Take, TicketsLeft, PC
  <1>11. CASE Queue(p)
    BY <1>5, <1>11 DEF Queue
  <1>12. CASE Expire(p)
    BY <1>4, <1>5, <1>6, <1>12 DEF Expire, PC
  <1>13. CASE Probe(p)
    BY <1>1, <1>13 DEF Probe
  <1>14. CASE Probed(p)
    BY <1>1, <1>14 DEF Probed
  <1>15. CASE Leave(p)
    BY <1>4, <1>6, <1>15 DEF Leave, PC
  <1>16. CASE Reenter(p) \/ ReleaseInner(p)
    BY <1>3, <1>16 DEF Reenter, ReleaseInner
  <1>17. CASE ReleaseLast(p) \/ Unlock(p) \/ Observe(p)
    BY <1>2, <1>7, <1>17 DEF ReleaseLast, Unlock, Observe, PC
  <1>18. CASE Observed(p)
    BY <1>4, <1>6, <1>7, <1>18 DEF Observed, PC
  <1>19. CASE Crash(p)
    BY <1>1, <1>19 DEF Crash
  <1> QED
    BY <1>8, <1>9, <1>10, <1>11, <1>12, <1>13, <1>14, <1>15, <1>16, <1>17,
       <1>18, <1>19 DEF Step, Finishes

\* The invariant is inductive.
LEMMA NextInv == IInv /\ [Next]_vars => IInv'
  <1> SUFFICES ASSUME IInv, [Next]_vars PROVE IInv'
    OBVIOUS
  <1>1. ASSUME NEW p \in Procs, Step(p) PROVE IInv'
    BY <1>1, WaitStep, HoldStep, TicketStep DEF Step, Finishes, IInv
  <1>2. CASE UNCHANGED vars
    BY <1>2 DEF IInv, TypeOK, LockFollows, HolderNamed, TicketsWait
  <1> QED
    BY <1>1, <1>2 DEF Next

\* The lock follows the places and depths of the processes, and the owner file and
\* the tickets agree with them.
THEOREM Invariant == Spec => []IInv
  BY InitInv, NextInv, PTL DEF Spec

\* acquire, release, holder and the commands keep the types.
THEOREM TypeCorrect == Spec => []TypeOK
  BY Invariant, PTL DEF IInv

\* The flock is what a hold stands on: whoever holds, at any depth, has it.
THEOREM HoldIsLocked == Spec => []HoldersLock
  <1>1. IInv => HoldersLock
    BY DEF IInv, TypeOK, LockFollows, HoldersLock
  <1> QED
    BY <1>1, Invariant, PTL

\* At most one process holds the slot.
THEOREM OneHolder ==
    Spec => [](\A p, q \in Procs : depth[p] > 0 /\ depth[q] > 0 => p = q)
  <1>1. IInv => \A p, q \in Procs : depth[p] > 0 /\ depth[q] > 0 => p = q
    BY DEF IInv, LockFollows
  <1> QED
    BY <1>1, Invariant, PTL

\* The owner file names the holder.
THEOREM OwnerNamesHolder == Spec => []HolderNamed
  BY Invariant, PTL DEF IInv

\* No ticket of a live process blocks others for good.
THEOREM TicketsAreWaiters == Spec => []TicketsWait
  BY Invariant, PTL DEF IInv

\* The three together, as the run checks them.
THEOREM SlotSound == Spec => []SlotIsSound
  BY HoldIsLocked, OwnerNamesHolder, TicketsAreWaiters, PTL DEF SlotIsSound

\* GPU tickets go first, each class in its order.
THEOREM Fifo == Spec => FirstInLine
  <1>1. ASSUME IInv, [Next]_vars
        PROVE  \A p \in Procs : depth[p] = 0 /\ depth'[p] > 0 =>
                 \A q \in tickets \ {p} : ~Passes(p, q)
    <2> SUFFICES ASSUME NEW p \in Procs, depth[p] = 0, depth'[p] > 0,
                        NEW q \in tickets \ {p}
                 PROVE  ~Passes(p, q)
      OBVIOUS
    <2>1. Take(p)
      <3>1. PICK r \in Procs : Step(r)
        BY <1>1 DEF Next
      <3>2. depth' # depth
        BY <1>1 DEF IInv, TypeOK
      <3>3. CASE Take(r)
        <4>1. r = p
          <5>1. depth' = [depth EXCEPT ![r] = 1]
            BY <3>3 DEF Take
          <5> QED
            BY <1>1, <5>1 DEF IInv, TypeOK
        <4> QED
          BY <3>3, <4>1
      <3>4. CASE Reenter(r)
        BY <1>1, <3>4 DEF Reenter, IInv, TypeOK, LockFollows
      <3>5. CASE ReleaseInner(r) \/ ReleaseLast(r)
        BY <1>1, <3>5 DEF ReleaseInner, ReleaseLast, Last, IInv, TypeOK, LockFollows
      <3>6. CASE Crash(r)
        BY <1>1, <3>6 DEF Crash, IInv, TypeOK
      <3> QED
        BY <3>1, <3>2, <3>3, <3>4, <3>5, <3>6
        DEF Step, Finishes, Begin, Sense, Queue, Expire, Probe, Probed, Leave,
            Unlock, Observe, Observed
    <2>2. Turn(p)
      BY <2>1 DEF Take, CanTake
    <2> QED
      BY <1>1, <2>2 DEF Turn, Precedes, Passes, Live, IInv, TicketsWait, TypeOK
  <1> QED
    BY <1>1, Invariant, PTL DEF Spec, FirstInLine
=============================================================================
