----------------------------- MODULE CliProfile -----------------------------
(***************************************************************************)
(* scripts/profile_cli.py: a matrix of commands is timed into one record   *)
(* per command, and a run that was cut is resumed.                         *)
(*                                                                         *)
(* Abstractions.  A profile is its version, which stands for its digest; a *)
(* sample is the run that took it.  Files are replaced whole.              *)
(***************************************************************************)
EXTENDS Job

CONSTANTS Commands,  \* the commands of the profile
          Samples    \* samples of each

VARIABLES spec,      \* the version in the profile's file
          rundir     \* the run directory: Nil, or [manifest, records]

profileVars == <<spec, rundir>>

NoRecords == [i \in 1..Commands |-> Nil]

ProfileInit == spec = 0 /\ rundir = Nil

ProfileTypeOK ==
  rundir # Nil => rundir.manifest = Nil \/ rundir.manifest.status \in {"running", "complete", "incomplete"}

\* A new run wants a new directory; a resume wants a manifest of this profile.
ProfileBegin ==
  /\ \E resume \in BOOLEAN :
       /\ IF resume THEN rundir # Nil /\ rundir.manifest # Nil /\ rundir.manifest.spec = spec
                    ELSE rundir = Nil
       /\ Begin([pc |-> IF resume THEN "next" ELSE "mkdir", id |-> used.run + 1, spec |-> spec, at |-> 1, rows |-> <<>>])
  /\ UNCHANGED profileVars

ProfileMkdir ==
  /\ At("profile", "mkdir")
  /\ rundir' = [manifest |-> Nil, records |-> NoRecords]
  /\ Goto("manifest")
  /\ UNCHANGED spec

ProfileManifest ==
  /\ At("profile", "manifest")
  /\ rundir' = [rundir EXCEPT !.manifest = [spec |-> job.spec, status |-> "running"]]
  /\ Goto("next")
  /\ UNCHANGED spec

\* _read_command_result
Whole(r, s) == r # Nil /\ r.spec = s /\ Len(r.rows) = Samples

\* A command with a whole record is passed over; a bad record ends the run.
ProfileNext ==
  /\ At("profile", "next") /\ job.at \in 1..Commands
  /\ \/ rundir.records[job.at] = Nil /\ job' = [job EXCEPT !.rows = <<>>, !.pc = "sample"]
     \/ Whole(rundir.records[job.at], job.spec) /\ job' = [job EXCEPT !.at = @ + 1]
     \/ rundir.records[job.at] # Nil /\ ~Whole(rundir.records[job.at], job.spec) /\ job' = Nil
  /\ UNCHANGED <<used, spec, rundir>>

ProfileSample ==
  /\ At("profile", "sample")
  /\ \/ /\ Len(job.rows) < Samples
        /\ Set("rows", Append(job.rows, job.id), "sample")
        /\ UNCHANGED rundir
     \/ /\ Len(job.rows) = Samples
        /\ rundir' = [rundir EXCEPT !.records[job.at] = [spec |-> job.spec, rows |-> job.rows]]
        /\ Set("at", job.at + 1, "next")
  /\ UNCHANGED spec

\* build_report over the manifest's own profile, then its status is saved.
ProfileReport ==
  /\ At("profile", "next") /\ job.at \notin 1..Commands
  /\ rundir' = [rundir EXCEPT !.manifest.status =
                  IF \A i \in 1..Commands : rundir.records[i] # Nil THEN "complete" ELSE "incomplete"]
  /\ Finish
  /\ UNCHANGED spec

\* A command that cannot start, an interrupt or a kill.
ProfileStops == In("profile") /\ Stops /\ UNCHANGED profileVars

\* The profile is edited; records are removed; a directory that is neither
\* new nor resumable, of a run cut before its manifest, is removed by hand.
ProfileOthers ==
  \/ ByOthers /\ spec' = used.edit + 1 /\ UNCHANGED <<job, rundir>>
  \/ /\ ByOthers /\ rundir # Nil
     /\ \E i \in 1..Commands : rundir.records[i] # Nil /\ rundir' = [rundir EXCEPT !.records[i] = Nil]
     /\ UNCHANGED <<job, spec>>
  \/ /\ job = Nil /\ rundir # Nil /\ rundir.manifest = Nil
     /\ rundir' = Nil
     /\ UNCHANGED <<jobVars, spec>>

ProfileTool ==
  \/ ProfileBegin \/ ProfileMkdir \/ ProfileManifest \/ ProfileNext \/ ProfileSample \/ ProfileReport \/ ProfileStops
  \/ ProfileOthers

(***************************************************************************)
(* Properties.                                                             *)
(***************************************************************************)
\* Across cuts, resumes and edits of the profile: a record, once saved, is
\* never changed by a run; every record is of one run and of the profile its
\* manifest names; and a run that calls itself complete has them all.
KeepsRecords ==
  rundir # Nil /\ rundir' \notin {Nil, rundir} /\ used'.edit = used.edit =>
    /\ \A i \in 1..Commands : rundir.records[i] # Nil => rundir'.records[i] = rundir.records[i]
    /\ rundir'.manifest # rundir.manifest /\ rundir'.manifest.status = "complete" =>
         \A i \in 1..Commands : rundir'.records[i] # Nil
    /\ \A i \in 1..Commands : rundir'.records[i] # Nil =>
         /\ Whole(rundir'.records[i], rundir'.manifest.spec)
         /\ \A k \in 1..Samples : rundir'.records[i].rows[k] = rundir'.records[i].rows[1]
=============================================================================
