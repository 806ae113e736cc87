---------------------------- MODULE ReleaseWatch ----------------------------
(***************************************************************************)
(* releasewatch.py: the daily pass and the weekly digest file a bead for   *)
(* what came up upstream since they first looked, and queue its screen.    *)
(*                                                                         *)
(* Abstractions.  A place is what one query lists: an Ollama name, or the  *)
(* Hugging Face listing, which both passes read.  What is filed, queued,   *)
(* refused or too large is a constant of the item.  One pass runs at a     *)
(* time: a second one is refused the lock.  An entry of the queue is the   *)
(* item and whether its screen still waits.                                *)
(***************************************************************************)
EXTENDS Job

CONSTANTS Name,       \* Ollama names of the watched families
          Judge,      \* Ollama names only the digest looks at
          Of,         \* place -> the items that come up there
          Fate,       \* item -> screen, plain (a bead and no screen), refused or large
          MaxQueued   \* MAX_QUEUED

Place == Name \cup Judge \cup {"hf"}
Release == UNION {Of[p] : p \in Place}
Where(i) == CHOOSE p \in Place : i \in Of[p]

ASSUME WatchAssumption ==
  /\ DOMAIN Of = Place /\ MaxQueued \in Nat \ {0}
  /\ Fate \in [Release -> {"screen", "plain", "refused", "large"}]
  /\ \A p, q \in Place : p # q => Of[p] \cap Of[q] = {}

VARIABLES up,        \* what upstream lists: item -> to come, up or gone
          state,     \* seen.json: units [by, of], library, items by outcome
          entries,   \* queue.json: item -> none, queued or taken
          filed,     \* item -> the beads filed for it
          late,      \* history: came up after the units that list it had a baseline
          doubt      \* history: item -> its beads no file will tell of: br's answer
                     \* was lost, or the pass was killed before it wrote

watchVars == <<up, state, entries, filed, late, doubt>>

Watches(by) == IF by = "daily" THEN Name \cup {"hf"} ELSE Judge \cup {"hf"}
Library(by) == IF by = "daily" THEN Name ELSE Judge
Listed(p) == {i \in Of[p] : up[i] = "up"}

WatchUnit == [by : {"daily", "digest"}, of : Place \cup {"library"}]
Seen == [units : SUBSET WatchUnit, library : SUBSET Name,
         items : [Release -> {"new", "baseline", "skipped", "filed", "queued"}]]
Queue == [Release -> {"none", "queued", "taken"}]
Pass == [pc : {"library", "fetch", "items", "queue", "seen"}, by : {"daily", "digest"}, names : SUBSET Place, listed : BOOLEAN,
         failed : SUBSET Place, todo : SUBSET Place, fetched : SUBSET Place, got : [Place -> SUBSET Release],
         mem : Seen, queue : Queue, unit : {Nil} \cup [of : Place, silent : BOOLEAN],
         items : SUBSET Release, item : {Nil} \cup Release, dirty : BOOLEAN]

ASSUME PassAssumption == Nil \notin Pass

WatchInit ==
  /\ \E first \in Release :
       /\ tool = "watch" \/ first = CHOOSE i \in Release : TRUE
       /\ up = [i \in Release |-> IF i = first THEN "up" ELSE "to come"]
  /\ entries = [i \in Release |-> "none"]
  /\ state = [units |-> {}, library |-> {}, items |-> [i \in Release |-> "new"]]
  /\ filed = [i \in Release |-> 0] /\ late = {} /\ doubt = [i \in Release |-> 0]

WatchTypeOK ==
  /\ up \in [Release -> {"to come", "up", "gone"}] /\ late \subseteq Release
  /\ state \in Seen /\ entries \in Queue /\ filed \in [Release -> 0..MaxRun] /\ doubt \in [Release -> 0..MaxRun]
  /\ tool = "watch" /\ job # Nil => job \in Pass

\* Under the lock both files are read.
WatchBegin ==
  /\ \E by \in {"daily", "digest"} :
       Begin([pc |-> "library", by |-> by, names |-> {}, listed |-> FALSE, failed |-> {}, todo |-> {}, fetched |-> {},
              got |-> [p \in Place |-> {}], mem |-> state, queue |-> entries, unit |-> Nil, items |-> {}, item |-> Nil, dirty |-> FALSE])
  /\ UNCHANGED watchVars

Fetching(pc) == At("watch", pc)

\* The library page first: without it no Ollama name is looked at.
FetchLibrary ==
  /\ Fetching("library")
  /\ \/ LET names == {n \in Library(job.by) : Listed(n) # {}}
        IN /\ job' = [job EXCEPT !.pc = "fetch", !.names = names, !.listed = TRUE, !.todo = names \cup {"hf"}]
           /\ UNCHANGED used
     \/ Upset /\ job' = [job EXCEPT !.pc = "fetch", !.todo = {"hf"}]
  /\ UNCHANGED watchVars

\* Every unit is fetched before the first is used; one that fails is left out.
FetchUnit ==
  /\ Fetching("fetch")
  /\ \E p \in job.todo :
       \/ /\ job' = [job EXCEPT !.todo = @ \ {p}, !.fetched = @ \cup {p}, !.got[p] = Listed(p)]
          /\ UNCHANGED used
       \/ Upset /\ job' = [job EXCEPT !.todo = @ \ {p}, !.failed = @ \cup {p}]
  /\ UNCHANGED watchVars

Key(of) == [by |-> job.by, of |-> of]

\* A name that came to the library after the library had its baseline.
NewFamily(p) == /\ job.by = "daily" /\ p \in Name
                /\ Key("library") \in state.units /\ p \notin state.library

TakeUnit ==
  /\ Fetching("fetch") /\ job.todo = {}
  /\ \E p \in job.fetched :
       Set("unit", [of |-> p, silent |-> Key(p) \notin job.mem.units /\ ~NewFamily(p)], "items")
       /\ UNCHANGED watchVars

(***************************************************************************)
(* The items of a unit.                                                    *)
(***************************************************************************)
\* An item in the queue is handled, whatever became of seen.json.
Handled(i) == job.mem.items[i] # "new" \/ job.queue[i] # "none"

\* refusal, _note_oversize, commands and queue_full.
Refused(i) == Fate[i] = "refused"
Oversize(i) == Fate[i] = "large"
Screened(i) == Fate[i] = "screen"
Full == Cardinality({i \in Release : job.queue[i] = "queued"}) >= MaxQueued

\* detail may not answer or not match the listing, or br fail: it comes again.
Unread(i) == Upset /\ job' = [job EXCEPT !.items = @ \cup {i}]

Remaining == {i \in job.got[job.unit.of] \ job.items : ~Handled(i)}
Passed(i, outcome) == job' = [job EXCEPT !.items = @ \cup {i}, !.mem.items[i] = outcome, !.dirty = TRUE]

\* A unit's first listing is its baseline; the digest reads the details of it.
TakeBaseline ==
  /\ Fetching("items") /\ job.unit.silent
  /\ \E i \in Remaining :
       \/ Passed(i, "baseline") /\ UNCHANGED used
       \/ job.by = "digest" /\ Unread(i)
  /\ UNCHANGED watchVars

\* Refused by its name, or too large, for good; what cannot be read, finds the
\* queue full or gets no bead from br comes again.
PutAside ==
  /\ Fetching("items") /\ ~job.unit.silent
  /\ \E i \in Remaining :
       \/ (Refused(i) \/ Oversize(i)) /\ Passed(i, "skipped") /\ UNCHANGED used
       \/ ~Refused(i) /\ Unread(i)
       \/ /\ Screened(i) /\ Full
          /\ job' = [job EXCEPT !.items = @ \cup {i}] /\ UNCHANGED used
  /\ UNCHANGED watchVars

Fileable(i) == ~Refused(i) /\ ~Oversize(i) /\ ~(Screened(i) /\ Full)

\* br create made a bead.
FileBead ==
  /\ Fetching("items") /\ ~job.unit.silent
  /\ \E i \in Remaining :
       /\ Fileable(i) /\ filed' = [filed EXCEPT ![i] = @ + 1]
       /\ job' = [job EXCEPT !.item = i, !.items = @ \cup {i}, !.pc = IF Screened(i) THEN "queue" ELSE "seen"]
  /\ UNCHANGED <<used, up, state, entries, late, doubt>>

\* It made one and did not answer in time, or with an id that can be read: to
\* the pass it failed, and the next one files again.
LoseBead ==
  /\ Fetching("items") /\ ~job.unit.silent
  /\ \E i \in Remaining :
       /\ Fileable(i) /\ filed' = [filed EXCEPT ![i] = @ + 1] /\ doubt' = [doubt EXCEPT ![i] = @ + 1]
       /\ Unread(i)
  /\ UNCHANGED <<up, state, entries, late>>

\* The queue is written before seen.json.
SaveQueue ==
  /\ Fetching("queue")
  /\ entries' = [job.queue EXCEPT ![job.item] = "queued"]
  /\ Set("queue", entries', "seen")
  /\ UNCHANGED <<up, state, filed, late, doubt>>

SaveSeen ==
  /\ Fetching("seen")
  /\ LET outcome == IF Screened(job.item) THEN "queued" ELSE "filed"
     IN /\ state' = [job.mem EXCEPT !.items[job.item] = outcome]
        /\ job' = [job EXCEPT !.mem = state', !.item = Nil, !.pc = "items"]
  /\ UNCHANGED <<used, up, entries, filed, late, doubt>>

UnitDone ==
  /\ Fetching("items") /\ Remaining = {}
  /\ job' = [job EXCEPT !.pc = "fetch", !.mem.units = @ \cup {Key(job.unit.of)}, !.unit = Nil, !.items = {},
               !.fetched = @ \ {job.unit.of}, !.got[job.unit.of] = {},
               !.dirty = @ \/ Key(job.unit.of) \notin job.mem.units]
  /\ UNCHANGED <<used, watchVars>>

\* Mutant of Known: the library takes every name it lists.
MutKnown == job.names

\* A name whose page could not be read stays unknown.
Known == job.names \ job.failed

\* The daily pass records the library; what is still unsaved is saved.
PassDone ==
  /\ Fetching("fetch") /\ job.todo = {} /\ job.fetched = {}
  /\ LET library == job.by = "daily" /\ job.listed
         new == IF library THEN [job.mem EXCEPT !.library = @ \cup Known, !.units = @ \cup {Key("library")}] ELSE job.mem
     IN state' = IF job.dirty \/ library THEN new ELSE state
  /\ Finish /\ UNCHANGED <<up, entries, filed, late, doubt>>

WatchKill ==
  /\ In("watch") /\ Stops
  /\ doubt' = IF job.pc = "queue" \/ (job.pc = "seen" /\ ~Screened(job.item)) THEN [doubt EXCEPT ![job.item] = @ + 1] ELSE doubt
  /\ UNCHANGED <<up, state, entries, filed, late>>

HasBaseline(p) ==
  /\ p \in Watches("daily") =>
       [by |-> "daily", of |-> p] \in state.units
       \/ (p \in Name /\ [by |-> "daily", of |-> "library"] \in state.units /\ p \notin state.library)
  /\ p \in Watches("digest") => [by |-> "digest", of |-> p] \in state.units

\* Items come up and leave the listings; the standing window takes a screen.
WatchWorld ==
  \/ /\ ByOthers
     /\ \E i \in Release :
          \/ /\ up[i] = "to come" /\ up' = [up EXCEPT ![i] = "up"]
             /\ late' = IF HasBaseline(Where(i)) THEN late \cup {i} ELSE late
          \/ up[i] = "up" /\ up' = [up EXCEPT ![i] = "gone"] /\ UNCHANGED late
     /\ UNCHANGED <<job, state, entries, filed, doubt>>
  \/ /\ job = Nil
     /\ \E i \in Release : entries[i] = "queued" /\ entries' = [entries EXCEPT ![i] = "taken"]
     /\ UNCHANGED <<jobVars, up, state, filed, late, doubt>>

WatchNext ==
  \/ WatchBegin \/ FetchLibrary \/ FetchUnit \/ TakeUnit \/ TakeBaseline \/ PutAside \/ FileBead \/ LoseBead
  \/ SaveQueue \/ SaveSeen \/ UnitDone \/ PassDone \/ WatchKill \/ WatchWorld

(***************************************************************************)
(* Properties.                                                             *)
(***************************************************************************)
Noted(i) == entries[i] # "none" \/ state.items[i] \in {"filed", "queued"}

\* Between passes a release has one bead if it is on record as filed or queued
\* and none if it is not, whichever pass saw it and whatever was killed: a
\* bead more only for each answer of br create that was lost and for each kill
\* between br create and the file that records it.
FiledOnce == job = Nil => \A i \in Release : filed[i] = doubt[i] + IF Noted(i) THEN 1 ELSE 0

\* What came up after the passes that list it had their baseline is never taken
\* for an old release: across failed fetches, kills and both passes it is filed,
\* put aside for a reason of its own, or still to come.
LateIsNew == \A i \in late : state.items[i] # "baseline"

\* The window is never handed more screens than it takes.
QueueCapped == Cardinality({i \in Release : entries[i] = "queued"}) <= MaxQueued

\* A new release is filed once, by one of the two passes, within the cap, but
\* for the beads that br made and no file tells of.
NewIsFiledOnce == FiledOnce /\ LateIsNew /\ QueueCapped
=============================================================================
