-------------------------- MODULE InstanceRestore --------------------------
(***************************************************************************)
(* Restoring an instance from an archive (helpers/migration.rs, with the   *)
(* requests of api/migration.rs and the boot hook main.rs calls before any *)
(* database is opened).                                                    *)
(*                                                                         *)
(* Four kinds of file are kept consistent only by the order in which they  *)
(* are written and removed: the instance's own files (a ledger with its    *)
(* -wal, and models), the staged copies, the record that a restore is      *)
(* pending, and the pre-restore folders.  Staging, discarding and applying *)
(* may each be cut short by the end of the process between any two of      *)
(* those steps; a discard may also run beside a staging.                   *)
(*                                                                         *)
(* Contents are tokens.  An archive that is uploaded again after it was    *)
(* restored counts as another archive.  Two uploads at once, which nothing *)
(* in restore_upload prevents, are not modelled; nor are removals that     *)
(* fail: moves and writes do.                                              *)
(***************************************************************************)
EXTENDS Naturals

CONSTANTS
  Units,       \* what a restore replaces: restore_units
  Ledger,      \* the unit that is a database
  Archives,    \* the backups an operator may upload
  Carries,     \* per archive, the units it holds
  Own,         \* the content the instance started with
  Fresh,       \* the empty ledger the engine makes when it finds none
  None,        \* no file, no archive, no unit
  MaxCrashes,  \* bound: ends of the process nobody asked for
  MaxFaults    \* bound: moves, merges of credentials, or writes that fail

ASSUME UnitsAssumption == Ledger \in Units /\ "wal" \notin Units /\ None \notin Units
ASSUME ContentsAssumption == Own # Fresh /\ None \notin {Own, Fresh} /\ {Own, Fresh, None} \cap Archives = {}
\* verify_manifest refuses an archive without a database.
ASSUME CarriesAssumption == \A a \in Archives : Carries[a] \subseteq Units /\ Ledger \in Carries[a]
ASSUME BoundsAssumption == MaxCrashes \in Nat /\ MaxFaults \in Nat

VARIABLES
  place,    \* per unit, the content at the path the engine uses
  wal,      \* the content whose -wal (and -shm) lies beside the ledger
  aside,    \* files in the pre-restore folders
  staging,  \* per unit, the staged copy
  pending,  \* the archive restore-pending.json describes
  report,   \* the archive the last restore report names
  failed,   \* restore-failed.json exists
  boot,     \* where the process stands
  unit,     \* the unit apply_pending_restore is replacing
  stager,   \* the staging in progress
  discard,  \* a discard has removed the record and not yet the staged copies
  leaving,  \* restart_soon is counting its second
  used,     \* crashes and faults so far
  hist      \* history, read by no action: see Histories

disk == <<place, wal, aside, staging, pending, report, failed>>
moving == <<place, wal, aside>>
said == <<report, failed>>
api == <<stager, discard, leaving>>
vars == <<place, wal, aside, staging, pending, report, failed, boot, unit, stager,
          discard, leaving, used, hist>>

Contents == {Own, Fresh} \cup Archives
Files == (Units \cup {"wal"}) \X Contents
Idle == [pc |-> "idle", archive |-> None]

\* had: every file the engine has run with.
\* torn: a staged copy was removed under the present record, or that record
\* was written over a staging already removed.
\* botched: the -wal of these ledgers was still in its place when a restore failed
\* with the ledger moved aside.
\* unsaid: a failure could not be written to restore-failed.json.
Histories == [had : SUBSET Files, torn : BOOLEAN, botched : SUBSET Contents, unsaid : BOOLEAN]

Staged(a) == \A u \in Carries[a] : staging[u] = a
NoStaging == [u \in Units |-> None]

Init ==
  /\ place = [u \in Units |-> Own] /\ wal = Own /\ aside = {}
  /\ staging = NoStaging /\ pending = None /\ report = None /\ failed = FALSE
  /\ boot = "up" /\ unit = None
  /\ stager = Idle /\ discard = FALSE /\ leaving = FALSE
  /\ used = [crashes |-> 0, faults |-> 0]
  /\ hist = [had |-> (Units \cup {"wal"}) \X {Own}, torn |-> FALSE, botched |-> {}, unsaid |-> FALSE]

-----------------------------------------------------------------------------
(* POST /api/migration/restore: stage_restore, on a blocking thread *)

Up == boot = "up"
Stages(pc) == stager' = [stager EXCEPT !.pc = pc]

Upload(a) ==
  /\ Up /\ stager = Idle
  /\ \A u \in Units : <<u, a>> \notin hist.had
  /\ stager' = [pc |-> "clearing", archive |-> a]
  /\ UNCHANGED <<disk, boot, unit, discard, leaving, used, hist>>

\* remove_dir_all on what was staged before, a file at a time ...
ClearStaged(u) ==
  /\ Up /\ stager.pc = "clearing"
  /\ staging[u] # None
  /\ staging' = [staging EXCEPT ![u] = None]
  /\ UNCHANGED <<moving, pending, said, boot, unit, api, used, hist>>

\* ... then the old record ...
ClearRecord ==
  /\ Up /\ stager.pc = "clearing"
  /\ staging = NoStaging
  /\ pending' = None
  /\ Stages("extracting")
  /\ UNCHANGED <<moving, staging, said, boot, unit, discard, leaving, used, hist>>

\* ... then the archive's files, until it ends or proves damaged ...
Extract(u) ==
  /\ Up /\ stager.pc = "extracting"
  /\ u \in Carries[stager.archive] /\ staging[u] = None
  /\ staging' = [staging EXCEPT ![u] = stager.archive]
  /\ UNCHANGED <<moving, pending, said, boot, unit, api, used, hist>>
ExtractEnds ==
  /\ Up /\ stager.pc = "extracting"
  /\ Stages("verifying")
  /\ UNCHANGED <<disk, boot, unit, discard, leaving, used, hist>>

\* ... and verify_manifest: every listed file with its checksum and no other.
\* An archive may also be refused for its venue, its version, or the
\* overwrite the operator did not confirm.
Verified == Staged(stager.archive) /\ \A u \in Units \ Carries[stager.archive] : staging[u] = None
Verify ==
  /\ Up /\ stager.pc = "verifying"
  /\ \/ Verified /\ Stages("recording")
     \/ Stages("refused")
  /\ UNCHANGED <<disk, boot, unit, discard, leaving, used, hist>>

\* The record, and an earlier failure is forgotten.  A record that cannot be
\* written is a refusal as well.
Record ==
  /\ Up /\ stager.pc = "recording"
  /\ pending' = stager.archive
  /\ failed' = FALSE
  /\ stager' = Idle
  /\ hist' = [hist EXCEPT !.torn = ~Staged(stager.archive)]
  /\ UNCHANGED <<moving, staging, report, boot, unit, discard, leaving, used>>

\* A refusal removes everything: discard_staged_restore.
Refuse ==
  /\ Up /\ stager.pc = "refused"
  /\ pending' = None /\ staging' = NoStaging
  /\ stager' = Idle
  /\ UNCHANGED <<moving, said, boot, unit, discard, leaving, used, hist>>

\* POST /api/migration/restore/discard: the record, then the staged copies.
Discard ==
  /\ Up /\ ~discard
  /\ pending # None \/ stager # Idle
  /\ pending' = None /\ discard' = TRUE
  /\ UNCHANGED <<moving, staging, said, boot, unit, stager, leaving, used, hist>>
DiscardStaged ==
  /\ Up /\ discard
  /\ staging' = NoStaging /\ discard' = FALSE
  /\ hist' = [hist EXCEPT !.torn = @ \/ pending # None]
  /\ UNCHANGED <<moving, pending, said, boot, unit, stager, leaving, used>>

\* POST /api/migration/restore/apply asks for a restart.
Apply ==
  /\ Up /\ pending # None /\ ~leaving
  /\ leaving' = TRUE
  /\ UNCHANGED <<disk, boot, unit, stager, discard, used, hist>>

-----------------------------------------------------------------------------
(* apply_pending_restore, at boot *)

Boots(pc) == boot' = pc
Quiet == UNCHANGED <<staging, pending, said, api, used, hist>>

Start ==
  /\ boot = "down"
  /\ Boots(IF pending = None THEN "open" ELSE "checking")
  /\ UNCHANGED <<disk, unit, api, used, hist>>

\* "Only a unit missing from both places is a fault."
Missing(a) == {u \in Carries[a] : staging[u] = None /\ place[u] = None}
Check ==
  /\ boot = "checking"
  /\ Boots(IF Missing(pending) = {} THEN "moving" ELSE "failing")
  /\ UNCHANGED <<disk, unit, api, used, hist>>

\* One unit at a time; one whose staged copy is gone is skipped.
Waiting_targetGone == {u \in Carries[pending] : staging[u] # None /\ place[u] = None}
Waiting == {u \in Carries[pending] : staging[u] # None}
PickUnit ==
  /\ boot = "moving" /\ unit = None
  /\ \E u \in Waiting : unit' = u
  /\ UNCHANGED <<disk, boot, api, used, hist>>

\* What is in its place goes to the pre-restore folder, the ledger's -wal
\* after the ledger ...
DisplaceUnit_overwrites ==
  /\ boot = "moving" /\ unit # None
  /\ place[unit] # None
  /\ place' = [place EXCEPT ![unit] = None]
  /\ UNCHANGED <<wal, aside, boot, unit>> /\ Quiet
DisplaceUnit ==
  /\ boot = "moving" /\ unit # None
  /\ place[unit] # None
  /\ place' = [place EXCEPT ![unit] = None]
  /\ aside' = aside \cup {<<unit, place[unit]>>}
  /\ UNCHANGED <<wal, boot, unit>> /\ Quiet
HasWal_never == FALSE
HasWal == unit = Ledger /\ wal # None
DisplaceWal ==
  /\ boot = "moving" /\ unit # None
  /\ place[unit] = None /\ HasWal
  /\ wal' = None
  /\ aside' = aside \cup {<<"wal", wal>>}
  /\ UNCHANGED <<place, boot, unit>> /\ Quiet

\* ... and the staged copy is renamed in.
MoveIn ==
  /\ boot = "moving" /\ unit # None
  /\ place[unit] = None /\ ~HasWal
  /\ place' = [place EXCEPT ![unit] = staging[unit]]
  /\ staging' = [staging EXCEPT ![unit] = None]
  /\ unit' = None
  /\ UNCHANGED <<wal, aside, pending, said, boot, api, used, hist>>

\* Any of these moves may fail, and so may merging the credentials.
Fault ==
  /\ boot = "moving" /\ (unit # None \/ Waiting = {})
  /\ used.faults < MaxFaults
  /\ used' = [used EXCEPT !.faults = @ + 1]
  /\ hist' = [hist EXCEPT !.botched =
                @ \cup {c \in {wal} : c # None /\ place[Ledger] = None}]
  /\ unit' = None
  /\ Boots("failing")
  /\ UNCHANGED <<disk, api>>

\* Credentials are merged and the report is written; then the record goes,
\* then the staging.  A report that cannot be written leaves the record and no
\* failure, and the engine starts.
Report ==
  /\ boot = "moving" /\ unit = None /\ Waiting = {}
  /\ report' = pending
  /\ Boots("reported")
  /\ UNCHANGED <<moving, staging, pending, failed, unit, api, used, hist>>
ReportFails ==
  /\ boot = "moving" /\ unit = None /\ Waiting = {}
  /\ used.faults < MaxFaults
  /\ used' = [used EXCEPT !.faults = @ + 1]
  /\ Boots("open")
  /\ UNCHANGED <<disk, unit, api, hist>>
Finish ==
  /\ boot = "reported"
  /\ pending' = None
  /\ Boots("finished")
  /\ UNCHANGED <<moving, staging, said, unit, api, used, hist>>
FinishStaged ==
  /\ boot = "finished"
  /\ staging' = NoStaging
  /\ Boots("open")
  /\ UNCHANGED <<moving, pending, said, unit, api, used, hist>>

\* "Never retried at the next boot": restore-failed.json, then the record.  That
\* the file cannot be written is ignored.
Fail_silent ==
  /\ boot = "failing"
  /\ Boots("failed")
  /\ UNCHANGED <<disk, unit, api, used, hist>>
Fail ==
  /\ boot = "failing"
  /\ failed' = TRUE
  /\ Boots("failed")
  /\ UNCHANGED <<moving, staging, pending, report, unit, api, used, hist>>
FailUnsaid ==
  /\ boot = "failing"
  /\ used.faults < MaxFaults
  /\ used' = [used EXCEPT !.faults = @ + 1]
  /\ hist' = [hist EXCEPT !.unsaid = TRUE]
  /\ Boots("failed")
  /\ UNCHANGED <<disk, unit, api>>
FailFinish ==
  /\ boot = "failed"
  /\ pending' = None
  /\ Boots("open")
  /\ UNCHANGED <<moving, staging, said, unit, api, used, hist>>

\* The engine opens the ledger, making one when there is none, and runs.
Open ==
  /\ boot = "open"
  /\ place' = [place EXCEPT ![Ledger] = IF @ = None THEN Fresh ELSE @]
  /\ wal' = place'[Ledger]
  /\ Boots("up")
  /\ hist' = [hist EXCEPT !.had =
                @ \cup {<<u, place'[u]>> : u \in {v \in Units : place'[v] # None}} \cup {<<"wal", wal'>>}]
  /\ UNCHANGED <<aside, staging, pending, said, unit, api, used>>

\* The process ends: what it was doing stops where it stands.
Ends ==
  /\ Boots("down")
  /\ unit' = None /\ stager' = Idle /\ discard' = FALSE /\ leaving' = FALSE
  /\ hist' = [hist EXCEPT !.torn = @ \/ (stager.pc = "clearing" /\ pending # None /\ ~Staged(pending))]
  /\ UNCHANGED disk
Restart == Up /\ leaving /\ Ends /\ UNCHANGED used
Crash ==
  /\ boot # "down"
  /\ used.crashes < MaxCrashes
  /\ used' = [used EXCEPT !.crashes = @ + 1]
  /\ Ends

-----------------------------------------------------------------------------
Staging ==
  \/ \E u \in Units : ClearStaged(u) \/ Extract(u)
  \/ ClearRecord \/ ExtractEnds \/ Verify \/ Record \/ Refuse

Booting ==
  \/ Start \/ Check \/ PickUnit \/ DisplaceUnit \/ DisplaceWal \/ MoveIn
  \/ Report \/ Finish \/ FinishStaged \/ Fail \/ FailFinish \/ Open

Next ==
  \/ \E a \in Archives : Upload(a)
  \/ Staging
  \/ Discard \/ DiscardStaged \/ Apply
  \/ Booting \/ Fault \/ ReportFails \/ FailUnsaid
  \/ Restart \/ Crash

Spec == Init /\ [][Next]_vars

\* The supervisor starts the process again whenever it ends, and a boot runs
\* on by itself.
Fairness == WF_vars(Booting) /\ WF_vars(Restart)
FairSpec == Spec /\ Fairness

-----------------------------------------------------------------------------
(* Properties *)

\* The types of the instance's files, the staged copies and the records
\* (helpers/migration.rs).
TypeOK ==
  /\ place \in [Units -> Contents \cup {None}] /\ wal \in Contents \cup {None}
  /\ aside \subseteq Files
  /\ staging \in [Units -> Archives \cup {None}]
  /\ pending \in Archives \cup {None} /\ report \in Archives \cup {None} /\ failed \in BOOLEAN
  /\ boot \in {"up", "down", "checking", "moving", "reported", "finished", "failing", "failed", "open"}
  /\ unit \in Units \cup {None}
  /\ stager \in [pc : {"idle", "clearing", "extracting", "verifying", "recording", "refused"},
                 archive : Archives \cup {None}]
  /\ discard \in BOOLEAN /\ leaving \in BOOLEAN
  /\ used \in [crashes : 0 .. MaxCrashes, faults : 0 .. MaxFaults]
  /\ hist \in Histories

\* A ledger is never opened beside the -wal of another, which SQLite would replay
\* (apply_pending_restore, main), however often the restore was interrupted.  The
\* one exception: a restore that failed between the two moves starts the engine
\* with no ledger and that ledger's -wal still in its place.
NeverMixes ==
  boot = "open" => \/ wal \in {None, place[Ledger]}
                   \/ place[Ledger] = None /\ wal \in hist.botched

\* "Everything replaced, including a database's `-wal` and `-shm`, moves into
\* `logs/migration/pre-restore-<time>/`" (apply_pending_restore): every file the
\* engine ran with is in its place or in such a folder at every moment, over crashes
\* and over staging again.  The one exception breaks those words: the -wal of a
\* ledger whose restore failed between the two moves (KeepsEveryWal).
NothingLost ==
  \A f \in hist.had :
    \/ f \in aside
    \/ f[1] = "wal" /\ f[2] \in {wal} \cup hist.botched
    \/ f[1] \in Units /\ place[f[1]] = f[2]

\* What is reported as restored is in place, all of it: no unit of another
\* content is left among those of the archive (apply_pending_restore), over any
\* number of interrupted runs.  The one exception is a record whose staged copies
\* were removed under it by a staging or a discard cut short (torn; GoneWasMovedIn).
ReportedIsRestored ==
  boot = "reported" /\ ~hist.torn => \A u \in Carries[report] : place[u] = report

\* Liveness: the boot that finds a record comes to its end, over any number of
\* crashes, with the record concluded, by a report or by a failure the operator is
\* shown, or standing for the next boot (apply_pending_restore).  The one
\* exception: a failure that could not be written (unsaid).
Concludes ==
  \A a \in Archives :
    boot = "checking" /\ pending = a
      ~> boot = "open" /\ (report = a \/ failed \/ pending = a \/ hist.unsaid)

\* The words quoted at NothingLost without its exception: refuted by a move that
\* fails between the ledger and its -wal.
KeepsEveryWal ==
  \A f \in hist.had : f[1] = "wal" => f \in aside \/ wal = f[2]

\* "A restore that failed part-way is for an operator to look at", and one that
\* succeeded has its report: no boot leaves the record without either.  Refuted by
\* a report that cannot be written.
ConcludedAtOnce == boot = "open" => pending = None

\* The words of apply_pending_restore: "A unit whose staged copy is gone but
\* whose target exists was moved in by an earlier run of this same restore".
GoneWasMovedIn ==
  boot = "checking" =>
    \A u \in Carries[pending] : staging[u] = None /\ place[u] # None => place[u] = pending
=============================================================================
