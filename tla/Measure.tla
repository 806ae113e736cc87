------------------------------- MODULE Measure -------------------------------
(***************************************************************************)
(* `localbench aa`, `ab` and `run`: legs of tiers measured beside a sampler *)
(* thread on a machine others use, and what is concluded from them: a      *)
(* golden, an A/B table, a comparison with the golden.                     *)
(*                                                                         *)
(* Abstractions.  A pin is a version number that only grows.  The servers  *)
(* are the measured one (own) and another.  A golden's row stands for the  *)
(* rows of a tier; it carries, beside the pins written with it, what was   *)
(* true while it was measured.  The measured server is one localbench      *)
(* starts; a tier takes at least one sample.  Metrics, bands and GPU       *)
(* shares are left out: a model that runs is resident.                     *)
(***************************************************************************)
EXTENDS Job

CONSTANT MaxPin        \* bound of a pin's version

VARIABLES foreign,   \* servers with somebody else's model in memory
          deaf,      \* servers whose residency cannot be read
          stopping,  \* our own server got SIGTERM and has not exited
          pins,      \* what is installed
          golden,    \* the golden: Nil or [pins, rows: tier -> Nil or row]
          report,    \* what the last command concluded
          seen       \* history: the pins since the tier began

measureVars == <<foreign, deaf, stopping, pins, golden, report, seen>>

Server == {"own", "other"}
Pin == {"backend", "conf", "omp"}
Pins == [Pin -> 0..MaxPin]
Tier == {"micro", "e2e"}

\* tier_keys; the version of omp is no key of a golden.
TierKeys == [micro |-> {"backend"}, e2e |-> {"backend", "conf"}]
PinKeys == {"backend", "conf"}
Alike(p, q, keys) == \A k \in keys : p[k] = q[k]

MeasureInit ==
  /\ foreign = {} /\ deaf = {} /\ stopping = FALSE
  /\ pins = [k \in Pin |-> 0] /\ golden = Nil /\ report = Nil /\ seen = {}

Row == [pins : Pins, made : SUBSET Pins, foul : BOOLEAN]
Golden == [pins : Pins, rows : [Tier -> Row \cup {Nil}]]
Leg == [pins : Pins \cup {Nil}, made : [Tier -> SUBSET Pins], problem : BOOLEAN, unknown : BOOLEAN, foul : BOOLEAN]
Stop == [pre : BOOLEAN, late : BOOLEAN, gap : BOOLEAN, foul : BOOLEAN]
Sample == [pc : {"own", "other"}, within : BOOLEAN, gap : BOOLEAN, foreign : BOOLEAN, unknown : BOOLEAN, foul : BOOLEAN]
MeasurePlace == {"preflight", "isolate", "pins", "tier", "pre", "term", "exit", "measure", "judge"}
Measurement == [pc : MeasurePlace, kind : {"aa", "ab", "run"}, tiers : SUBSET Tier, todo : SUBSET Tier,
                done : Seq(Leg), leg : Leg, sam : Sample \cup {Nil}, stop : Stop]

ASSUME MeasureAssumption == MaxPin \in Nat /\ Nil \notin Measurement

MeasureTypeOK ==
  /\ foreign \subseteq Server /\ deaf \subseteq Server /\ stopping \in BOOLEAN /\ pins \in Pins /\ seen \subseteq Pins
  /\ golden \in Golden \cup {Nil}
  /\ tool = "measure" => job \in Measurement \cup {Nil}

\* ab_order with one pair; the A/A pair; a run.
Legs == [aa |-> <<"A", "A">>, ab |-> <<"A", "B", "A">>, run |-> <<"A">>]

NewLeg == [pins |-> Nil, made |-> [t \in Tier |-> {}], problem |-> FALSE,
           unknown |-> FALSE, foul |-> FALSE]
NoStop == [pre |-> FALSE, late |-> FALSE, gap |-> FALSE, foul |-> FALSE]

MeasureBegin ==
  /\ \E kind \in DOMAIN Legs, ts \in SUBSET Tier \ {{}} :
       Begin([pc |-> "preflight", kind |-> kind, tiers |-> ts, todo |-> ts, done |-> <<>>,
              leg |-> NewLeg, sam |-> Nil, stop |-> NoStop])
  /\ report' = Nil
  /\ UNCHANGED <<foreign, deaf, stopping, pins, golden, seen>>

Measuring(pc) == At("measure", pc)
Busy == deaf # {}

\* preflight: what cannot be read refuses, after the wait, unless --allow-busy.
Preflight ==
  /\ Measuring("preflight")
  /\ \/ Set("leg", [job.leg EXCEPT !.problem = Busy], "isolate")
     \/ Busy /\ Finish
  /\ UNCHANGED measureVars

\* isolate: the measured server is emptied and warmed, Ollama is asked to
\* unload (what fails there is passed over); our own server must answer.
Isolate ==
  /\ Measuring("isolate")
  /\ \/ /\ "own" \notin deaf
        /\ foreign' \in {foreign \ {"own"}, {}}
        /\ Goto("pins")
     \/ "own" \in deaf /\ Finish /\ UNCHANGED foreign
  /\ UNCHANGED <<deaf, stopping, pins, golden, report, seen>>

\* The pins of the leg; then the sampler starts.
ReadPins ==
  /\ Measuring("pins")
  /\ Set("leg", [job.leg EXCEPT !.pins = pins], "tier")
  /\ UNCHANGED measureVars

TierBegin ==
  /\ Measuring("tier")
  /\ \E t \in job.todo :
       /\ t = "micro" \/ "micro" \notin job.todo
       /\ job' = [job EXCEPT !.pc = IF t = "e2e" THEN "pre" ELSE "measure", !.todo = @ \ {t}]
  /\ seen' = {pins}
  /\ UNCHANGED <<used, foreign, deaf, stopping, pins, golden, report>>

Foreign(s) == s \in foreign

\* A cold tier restarts our own server: what it has loaded is read first.
StopPre ==
  /\ Measuring("pre")
  /\ Set("stop", [NoStop EXCEPT !.pre = "own" \notin deaf /\ ~Foreign("own")], "term")
  /\ UNCHANGED measureVars

StopTerm ==
  /\ Measuring("term")
  /\ stopping' = TRUE /\ Goto("exit")
  /\ UNCHANGED <<foreign, deaf, pins, golden, report, seen>>

\* Mutant of Excuses: a stop excuses whatever was loaded.
MutExcuses(killed) == ~killed

\* _owned_stop_for_sample: only a stop that ended by itself, of a server that
\* had exactly the declared models loaded.
Excuses(killed) == ~killed /\ job.stop.pre

\* The samples that fell into the stop are excused or stay unknown, the one
\* under way with them.
LegAfter(killed) ==
  [job.leg EXCEPT !.unknown = @ \/ (job.stop.gap /\ ~Excuses(killed)),
                  !.foul = @ \/ (job.stop.gap /\ Excuses(killed) /\ job.stop.foul)]

SampleAfter(killed) ==
  IF job.sam = Nil \/ ~job.sam.within THEN job.sam
  ELSE [job.sam EXCEPT !.within = FALSE, !.unknown = @ \/ (job.sam.gap /\ ~Excuses(killed)),
                       !.foul = job.sam.gap /\ @ /\ Excuses(killed)]

\* It exits, if need be by SIGKILL, and is started and warmed again.
StopExit ==
  /\ Measuring("exit")
  /\ \E killed \in BOOLEAN :
       /\ killed => used.upset < MaxUpset
       /\ used' = IF killed THEN [used EXCEPT !.upset = @ + 1] ELSE used
       /\ job' = [job EXCEPT !.pc = "measure", !.stop = NoStop, !.leg = LegAfter(killed), !.sam = SampleAfter(killed)]
  /\ stopping' = FALSE /\ foreign' = foreign \ {"own"}
  /\ UNCHANGED <<deaf, pins, golden, report, seen>>

TierEnd ==
  /\ Measuring("measure")
  /\ \E t \in job.tiers \ job.todo :
       /\ job.leg.made[t] = {}
       /\ Set("leg", [job.leg EXCEPT !.made[t] = seen], "tier")
  /\ seen' = {}
  /\ UNCHANGED <<foreign, deaf, stopping, pins, golden, report>>

(***************************************************************************)
(* The sampler thread, between ReadPins and LegEnd: it probes one server   *)
(* after the other.                                                        *)
(***************************************************************************)
Sampling == tool = "measure" /\ job # Nil /\ job.pc \in {"tier", "pre", "term", "exit", "measure"}

ProbeBegin ==
  /\ Sampling /\ job.sam = Nil
  /\ job' = [job EXCEPT !.sam = [pc |-> "own", within |-> stopping, gap |-> FALSE,
                                 foreign |-> FALSE, unknown |-> FALSE, foul |-> FALSE]]
  /\ UNCHANGED <<used, measureVars>>

\* A server that is stopping refuses the connection, which reads as empty, or
\* does not answer: a gap, if the probe began and ended within the stop.
ProbeOwn ==
  /\ Sampling /\ job.sam # Nil /\ job.sam.pc = "own"
  /\ \E answers \in BOOLEAN :
       /\ answers = ("own" \notin deaf) \/ (stopping /\ ~answers)
       /\ LET gap == ~answers /\ job.sam.within /\ stopping
          IN job' = [job EXCEPT !.sam =
               [@ EXCEPT !.pc = "other", !.gap = gap, !.unknown = ~answers /\ ~gap,
                         !.foreign = answers /\ ~stopping /\ Foreign("own"),
                         !.foul = gap /\ Foreign("own") /\ ~job.stop.late]]
  /\ UNCHANGED <<used, measureVars>>

\* The sample is stored.  A gap counts as one only when every other server
\* could be read; an exception leaves a sample that knows nothing.
SampleStore ==
  /\ Sampling /\ job.sam # Nil
  /\ \/ /\ job.sam.pc = "other"
        /\ LET sam == job.sam
               unknown == sam.unknown \/ "other" \in deaf
               excusable == sam.gap /\ sam.within /\ ~unknown
               leg == [job.leg EXCEPT
                        !.problem = @ \/ sam.foreign \/ ("other" \notin deaf /\ Foreign("other")),
                        !.unknown = @ \/ unknown, !.foul = @ \/ (sam.foul /\ ~unknown /\ ~stopping)]
               stop == [job.stop EXCEPT !.gap = @ \/ excusable, !.foul = @ \/ (excusable /\ sam.foul)]
           IN job' = [job EXCEPT !.sam = Nil, !.leg = leg, !.stop = stop]
        /\ UNCHANGED used
     \/ Upset /\ job' = [job EXCEPT !.sam = Nil, !.leg.unknown = TRUE]
  /\ UNCHANGED measureVars

\* The sampler is joined and the pins are read again.
LegEnd ==
  /\ Measuring("tier") /\ job.todo = {} /\ job.sam = Nil
  /\ LET leg == [job.leg EXCEPT !.problem = @ \/ ~Alike(pins, job.leg.pins, PinKeys)]
         done == Append(job.done, leg)
     IN job' = [job EXCEPT !.done = done, !.leg = NewLeg, !.todo = job.tiers,
                           !.pc = IF Len(done) = Len(Legs[job.kind]) THEN "judge" ELSE "preflight"]
  /\ UNCHANGED <<used, measureVars>>

(***************************************************************************)
(* What is concluded.                                                      *)
(***************************************************************************)
Unsound(leg) == leg.problem \/ leg.unknown

\* from_aa: the rows of the tiers that ran, under the pins of the first leg.
FromAA(legs) ==
  [pins |-> legs[1].pins,
   rows |-> [t \in Tier |-> IF t \notin job.tiers THEN Nil
                            ELSE [pins |-> legs[1].pins, made |-> legs[1].made[t] \cup legs[2].made[t],
                                  foul |-> legs[1].foul \/ legs[2].foul]]]

\* merge: the rows of the other tiers are kept, with the pins they were banked
\* under, while the backend is the same.
Merge(old, new) ==
  IF old = Nil \/ ~Alike(old.pins, new.pins, {"backend"}) THEN new
  ELSE [new EXCEPT !.rows = [t \in Tier |-> IF t \in job.tiers THEN new.rows[t] ELSE old.rows[t]]]

JudgeAA ==
  /\ Measuring("judge") /\ job.kind = "aa"
  /\ LET legs == job.done
         sound == (\A i \in 1..2 : ~Unsound(legs[i])) /\ Alike(legs[1].pins, legs[2].pins, PinKeys)
     IN golden' = IF sound THEN Merge(golden, FromAA(legs)) ELSE golden
  /\ Finish /\ UNCHANGED <<foreign, deaf, stopping, pins, report, seen>>

\* arm_pin_drift: in an A/B the version of omp binds the tiers that run omp.
DriftKeys(t) == IF t = "e2e" THEN Pin ELSE TierKeys[t]

Drifted(t) == ~Alike(job.done[1].pins, job.done[3].pins, DriftKeys(t))

\* The receipt, unless residency was unknown; rows of a drifted tier are void.
JudgeAB ==
  /\ Measuring("judge") /\ job.kind = "ab"
  /\ report' = IF \E i \in 1..3 : job.done[i].unknown THEN Nil
               ELSE [kind |-> "ab", sound |-> \A i \in 1..3 : ~Unsound(job.done[i]), legs |-> job.done,
                     tiers |-> {t \in job.tiers : ~Drifted(t)}]
  /\ Finish /\ UNCHANGED <<foreign, deaf, stopping, pins, golden, seen>>

\* judge and compare: a row of another generation is not compared.
JudgeRun ==
  /\ Measuring("judge") /\ job.kind = "run"
  /\ report' = [kind |-> "run", sound |-> ~Unsound(job.done[1]), legs |-> job.done,
                tiers |-> {t \in job.tiers : /\ golden # Nil
                                             /\ golden.rows[t] # Nil
                                             /\ Alike(golden.rows[t].pins, job.done[1].pins, TierKeys[t])}]
  /\ Finish /\ UNCHANGED <<foreign, deaf, stopping, pins, golden, seen>>

\* Others load and unload models, servers stall, what is installed is updated.
MeasureWorld ==
  /\ ByOthers
  /\ \/ /\ \E s \in Server :
             /\ s = "own" => ~stopping
             /\ foreign' = (foreign \ {s}) \cup ({s} \ foreign)
             /\ job' = IF s = "own" /\ Measuring("term") THEN [job EXCEPT !.stop.late = TRUE] ELSE job
        /\ UNCHANGED <<deaf, pins, seen>>
     \/ /\ \E s \in Server : deaf' = (deaf \ {s}) \cup ({s} \ deaf)
        /\ UNCHANGED <<job, foreign, pins, seen>>
     \/ /\ \E k \in Pin : pins[k] < MaxPin /\ pins' = [pins EXCEPT ![k] = @ + 1]
        /\ seen' = IF seen = {} THEN {} ELSE seen \cup {pins'}
        /\ UNCHANGED <<job, foreign, deaf>>
  /\ UNCHANGED <<stopping, golden, report>>

MeasureNext ==
  \/ MeasureBegin \/ Preflight \/ Isolate \/ ReadPins \/ TierBegin \/ StopPre \/ StopTerm \/ StopExit
  \/ TierEnd \/ ProbeBegin \/ ProbeOwn \/ SampleStore \/ LegEnd \/ JudgeAA \/ JudgeAB \/ JudgeRun
  \/ MeasureWorld

(***************************************************************************)
(* Properties.                                                             *)
(***************************************************************************)
\* A golden's row was measured wholly under the pins it is filed under, both
\* legs, through partial re-banks of other tiers; and no gap that was excused
\* as a stop of our own server hid another model in it, unless it was loaded
\* between the look at the server and the SIGTERM.
GoldenIsTrue ==
  golden # Nil =>
    \A t \in Tier : golden.rows[t] # Nil =>
      /\ ~golden.rows[t].foul
      /\ \A p \in golden.rows[t].made : Alike(p, golden.rows[t].pins, TierKeys[t])

\* What a sound run is compared with was measured under the same pins, before
\* or after any number of re-banks and updates; and in a sound A/B the legs of
\* an arm ran one build of everything their tier uses, omp included: except
\* that omp may be replaced during the last leg, which nothing reads again.
ComparesAlike ==
  report # Nil /\ report.sound =>
    \A t \in report.tiers :
      IF report.kind = "run"
      THEN \A p \in report.legs[1].made[t] : Alike(p, golden.rows[t].pins, TierKeys[t])
      ELSE /\ \A i \in 1..3 : \A p \in report.legs[i].made[t] : Alike(p, report.legs[i].pins, TierKeys[t])
           /\ t = "e2e" => \A p \in report.legs[1].made[t] : p.omp = report.legs[3].pins.omp

\* What a golden stands for and what a sound run says of it.
GoldensHold == GoldenIsTrue /\ ComparesAlike
=============================================================================
