----------------------------- MODULE TickDriver -----------------------------
(***************************************************************************)
(* scripts/tick_driver.py: an idle agent pane is woken by messages when no *)
(* check sees a measurement or a turn, and left alone once its wakes move  *)
(* nothing.                                                                *)
(*                                                                         *)
(* Abstractions.  The cooldown is counted in checks.  A progress mark is   *)
(* the number of changes made to HEAD, the tree or the beads so far.       *)
(***************************************************************************)
EXTENDS Job

CONSTANTS IdleNeeded, Cooldown, StaleLimit

ASSUME TickAssumption == {IdleNeeded, Cooldown, StaleLimit} \subseteq Nat \ {0}

VARIABLES driver,    \* State: first sent, checks since the last send, mark then, stale, idle
          pane,      \* the pane is mid-turn
          run,       \* a localbench run is alive
          mark,      \* progress made so far
          calm,      \* history: checks in a row that found neither
          dull,      \* history: wakes in a row that moved nothing
          passed     \* history: calm checks without an attempt to send since the last turn or message

tickVars == <<driver, pane, run, mark, calm, dull, passed>>

TickInit ==
  /\ driver = [first |-> FALSE, since |-> 0, head |-> Nil, stale |-> 0, idle |-> 0]
  /\ pane = FALSE /\ run = FALSE /\ mark = 0
  /\ calm = 0 /\ dull = 0 /\ passed = 0

TickTypeOK == driver.stale \in 0..StaleLimit /\ driver.idle \in 0..IdleNeeded /\ mark \in 0..MaxEdit

UpTo(n, limit) == IF n < limit THEN n + 1 ELSE limit

TickBegin ==
  /\ used.run = 0
  /\ Begin([pc |-> "read", head |-> Nil, busy |-> FALSE])
  /\ UNCHANGED tickVars

\* The progress mark is read first, then whether a run or a turn is on.
TickRead ==
  /\ At("tick", "read")
  /\ Set("head", mark, "look")
  /\ UNCHANGED tickVars

TickLook ==
  /\ At("tick", "look")
  /\ Set("busy", run \/ pane, "decide")
  /\ calm' = IF run \/ pane THEN 0 ELSE UpTo(calm, IdleNeeded)
  /\ UNCHANGED <<driver, pane, run, mark, dull, passed>>

\* Mutant of Rested: a busy check leaves the idle count as it is.
MutRested == IF job.busy THEN driver.idle ELSE UpTo(driver.idle, IdleNeeded)

\* The idle count after this check: a run or a turn starts it again.
Rested == IF job.busy THEN 0 ELSE UpTo(driver.idle, IdleNeeded)

\* One more wake would be the last of StaleLimit that moved nothing.
Stale == job.head = driver.head /\ driver.stale + 1 >= StaleLimit

\* decide: wait, send the first message or a tick, or give up.
Decide(action) ==
  CASE action = "wait"  -> job.busy \/ Rested < IdleNeeded \/ (driver.first /\ driver.since < Cooldown)
    [] action = "first" -> ~job.busy /\ Rested >= IdleNeeded /\ ~driver.first
    [] action = "exit"  -> ~job.busy /\ Rested >= IdleNeeded /\ driver.first /\ driver.since >= Cooldown /\ Stale
    [] action = "tick"  -> ~job.busy /\ Rested >= IdleNeeded /\ driver.first /\ driver.since >= Cooldown /\ ~Stale

TickDecide ==
  /\ At("tick", "decide")
  /\ driver' = [driver EXCEPT !.idle = Rested, !.since = UpTo(@, Cooldown)]
  /\ \/ Decide("wait") /\ Goto("read")
     \/ (Decide("first") \/ Decide("tick")) /\ Goto("send")
     \/ Decide("exit") /\ Goto("stale")
  /\ passed' = IF job.busy THEN 0 ELSE IF Decide("wait") THEN passed + 1 ELSE passed
  /\ UNCHANGED <<pane, run, mark, calm, dull>>

\* Mutant of TickSend: a message counts as sent though the pane does not show it.
MutTickSend ==
  /\ At("tick", "send")
  /\ \/ /\ pane' = TRUE /\ passed' = 0 /\ Goto("read")
     \/ Fails("read") /\ UNCHANGED <<pane, passed>>
  /\ driver' = [first |-> TRUE, since |-> 0, head |-> job.head, idle |-> 0, stale |-> 0]
  /\ UNCHANGED <<run, mark, calm, dull>>

\* A send counts once the pane shows it; it starts a turn.
TickSend ==
  /\ At("tick", "send")
  /\ \/ /\ driver' = [first |-> TRUE, since |-> 0, head |-> job.head, idle |-> 0,
                      stale |-> IF driver.first /\ job.head = driver.head THEN driver.stale + 1 ELSE 0]
        /\ dull' = IF driver.first /\ job.head = driver.head THEN dull + 1 ELSE 0
        /\ pane' = TRUE /\ passed' = 0 /\ Goto("read")
     \/ Fails("read") /\ UNCHANGED <<driver, pane, dull, passed>>
  /\ UNCHANGED <<run, mark, calm>>

\* The stop file, or a stale lane: the other pane is told, the driver ends.
TickExit ==
  /\ In("tick") /\ (job.pc = "stale" \/ (job.pc = "read" /\ used.upset < MaxUpset))
  /\ Finish
  /\ UNCHANGED tickVars

\* The pane works and rests, runs come and go, and somebody makes progress.
TickWorld ==
  /\ In("tick")
  /\ \/ pane' = ~pane /\ (IF pane THEN UNCHANGED used ELSE Upset) /\ UNCHANGED <<run, mark>>
     \/ run' = ~run /\ (IF run THEN UNCHANGED used ELSE Upset) /\ UNCHANGED <<pane, mark>>
     \/ ByOthers /\ mark' = mark + 1 /\ UNCHANGED <<pane, run>>
  /\ UNCHANGED <<job, driver, calm, dull, passed>>

TickNext ==
  TickBegin \/ TickRead \/ TickLook \/ TickDecide \/ TickSend \/ TickExit \/ TickWorld

(***************************************************************************)
(* Properties.                                                             *)
(***************************************************************************)
\* The driver decides to send only after IdleNeeded checks in a row found neither a
\* measurement nor a turn, whatever sends failed before; and a lane whose wakes move
\* nothing is left alone: the driver gives up before the StaleLimit-th wake in vain.
\* What begins between the last of those checks and the send is not seen by the
\* code, whatever tick_driver.py:64 says.
WakesSpare ==
  (At("tick", "send") => calm = IdleNeeded) /\ dull < StaleLimit

\* No pane that rests is passed over for good: beyond the cooldown, or the checks a
\* first message needs, every calm check attempts a send or gives the lane up.  A send
\* that did not arrive starts no wait again.
WakesCome == passed <= Cooldown \/ passed < IdleNeeded
=============================================================================
