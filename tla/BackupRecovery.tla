--------------------------- MODULE BackupRecovery ---------------------------
(***************************************************************************)
(* What becomes of a role's backups once they are on disk: their copy off  *)
(* the host (offbox_backup_sync.py) and the rehearsal of a restore         *)
(* (standalone_backup.py), beside the creates and collections of           *)
(* StandaloneBackup.                                                       *)
(*                                                                         *)
(* The copy takes no role lock.  It reads a list of names, computes or     *)
(* reads one checksum after another, lets rsync read the directory again   *)
(* and transfer what it finds, and asks the other host to check the list.  *)
(* The rehearsal plans outside the lock and restores under it, into a      *)
(* database of its own in the role's instance.                             *)
(*                                                                         *)
(* Abstracted: a copied file is what it was here (rsync and the move of a  *)
(* dump replace whole files); one role's directory stands for each target  *)
(* of a sync, which are copied one after another whatever becomes of the   *)
(* others.                                                                 *)
(***************************************************************************)
EXTENDS StandaloneBackup

CONSTANTS
    Rehearsers,    \* ktdctl processes that rehearse a restore
    MaxSyncs,      \* bound: syncs that begin
    MaxRuns        \* bound: rehearsals that get as far as a scratch name

ASSUME RehearsersAssumption == Rehearsers \cap (Procs \cup {None}) = {}
ASSUME RecoveryBounds == MaxSyncs \in Nat /\ MaxRuns \in Nat

VARIABLES
    copier,        \* the sync: its step, the names it still handles, its checksum list
    offsite,       \* the files on the other host, and the instance in each manifest
    report,        \* .offbox-sync-status.json
    rehearsal,     \* of each rehearsal: its step and what it remembers
    scratch,       \* the scratch databases, of whatever rehearsal
    sessions,      \* the scratch databases a pg_restore is connected to
    filled,        \* the scratch databases a pg_restore has filled to its end
    copies,        \* the dump copies in the containers, by rehearsal
    syncs, runs

copying == <<copier, offsite, report, syncs>>
rehearsing == <<rehearsal, scratch, sessions, filled, copies, runs>>
recoveryVars == <<vars, copying, rehearsing>>

Runs == 1 .. MaxRuns
Names == [stamp : Stamps, kind : {"dumps", "shas", "manifests"}]
On(files, f) == f.stamp \in files[f.kind]

-----------------------------------------------------------------------------
(* sync_backups_offbox, one target.                                          *)

NoSync == [pc |-> "idle", names |-> {}, lines |-> {}, lost |-> FALSE, verified |-> FALSE,
           since |-> [s \in Sources |-> 0]]

\* The newest listed backup of each instance that is whole.
NewestWhole ==
    [s \in Sources |-> IF From(s) \cap Whole(local) = {} THEN 0
                       ELSE CHOOSE t \in From(s) \cap Whole(local) :
                              \A u \in From(s) \cap Whole(local) : u <= t]

\* sorted(): by stamp, and of a stamp the dump, the checksum, the manifest.
Rank == [dumps |-> 1, shas |-> 2, manifests |-> 3]
Foremost(names) ==
    {f \in names : \A g \in names :
        f.stamp < g.stamp \/ (f.stamp = g.stamp /\ Rank[f.kind] <= Rank[g.kind])}

Sync(step) == copier' = [copier EXCEPT !.pc = step]

\* The names of the directory at one moment; checksum files are no lines of their own.
SyncBegins ==
    /\ copier.pc = "idle" /\ syncs < MaxSyncs
    /\ syncs' = syncs + 1
    /\ copier' = [NoSync EXCEPT !.pc = "looking", !.since = NewestWhole,
                                !.names = {f \in Names : On(local, f) /\ f.kind # "shas"}]
    /\ UNCHANGED <<vars, offsite, report, rehearsing>>

\* A name whose file is gone by now is passed over.
LookAtName ==
    /\ copier.pc = "looking"
    /\ \E f \in Foremost(copier.names) :
          IF On(local, f) THEN Sync("reading")
          ELSE copier' = [copier EXCEPT !.names = @ \ {f}]
    /\ UNCHANGED <<vars, offsite, report, syncs, rehearsing>>

\* A dump's line is its checksum file's, if it has one; any other file is read through.
ReadChecksum ==
    /\ copier.pc = "reading"
    /\ \E f \in Foremost(copier.names) :
          /\ \/ On(local, f)
             \/ f.kind = "dumps" /\ f.stamp \in local.shas
          /\ copier' = [copier EXCEPT !.pc = "looking", !.names = @ \ {f}, !.lines = @ \cup {f}]
    /\ UNCHANGED <<vars, offsite, report, syncs, rehearsing>>

\* rsync reads the directory again; a sync without a line has nothing to do.
RsyncLists ==
    /\ copier.pc = "looking" /\ copier.names = {} /\ copier.lines # {}
    /\ copier' = [copier EXCEPT !.pc = "sending", !.names = {f \in Names : On(local, f)}]
    /\ UNCHANGED <<vars, offsite, report, syncs, rehearsing>>

\* Mutant: a file that vanished while rsync was at work does not count.
RsyncSends_VanishedIsFine ==
    /\ copier.pc = "sending"
    /\ \E f \in Foremost(copier.names) :
          /\ offsite' = IF ~On(local, f) THEN offsite
                        ELSE [offsite EXCEPT ![f.kind] = @ \cup {f.stamp},
                                !.madeFrom[f.stamp] = IF f.kind = "manifests"
                                                      THEN madeFrom[f.stamp] ELSE @]
          /\ copier' = [copier EXCEPT !.names = @ \ {f}]
    /\ UNCHANGED <<vars, report, syncs, rehearsing>>

\* One file after another, without --delete; one that is gone makes the exit code.
RsyncSends ==
    /\ copier.pc = "sending"
    /\ \E f \in Foremost(copier.names) :
          /\ offsite' = IF ~On(local, f) THEN offsite
                        ELSE [offsite EXCEPT ![f.kind] = @ \cup {f.stamp},
                                !.madeFrom[f.stamp] = IF f.kind = "manifests"
                                                      THEN madeFrom[f.stamp] ELSE @]
          /\ copier' = [copier EXCEPT !.names = @ \ {f}, !.lost = @ \/ ~On(local, f)]
    /\ UNCHANGED <<vars, report, syncs, rehearsing>>

\* sha256sum -c of the list, on the other host.
VerifyRemote ==
    /\ copier.pc = "sending" /\ copier.names = {} /\ ~copier.lost
    /\ copier' = [copier EXCEPT !.pc = "done",
                                !.verified = \A f \in copier.lines : On(offsite, f)]
    /\ UNCHANGED <<vars, offsite, report, syncs, rehearsing>>

\* A read, a transfer or a connection that fails ends this target, and only this one.
SyncFails ==
    /\ copier.pc \in {"looking", "reading", "sending"}
    /\ Sync("done")
    /\ UNCHANGED <<vars, offsite, report, syncs, rehearsing>>

\* The status is written last; a write that fails leaves the one before.
WriteSyncStatus ==
    /\ copier.pc = "done"
    /\ report' \in {report, [verified |-> copier.verified, since |-> copier.since]}
    /\ copier' = NoSync
    /\ UNCHANGED <<vars, offsite, syncs, rehearsing>>

KillCopier ==
    /\ copier.pc # "idle" /\ kills < MaxKills
    /\ kills' = kills + 1 /\ copier' = NoSync
    /\ UNCHANGED <<disk, source, lock, proc, container, runner, moves, offsite, report, syncs,
                   rehearsing>>

CopyStep ==
    \/ SyncBegins \/ LookAtName \/ ReadChecksum \/ RsyncLists \/ RsyncSends \/ VerifyRemote
    \/ SyncFails \/ WriteSyncStatus \/ KillCopier

-----------------------------------------------------------------------------
(* rehearse_standalone_restore.                                              *)

Resting == {"idle", "verified", "unverified", "raised"}
NoRehearsal == [pc |-> "idle", run |-> 0, stamp |-> 0, src |-> None,
                created |-> FALSE, restored |-> FALSE, blocked |-> FALSE, error |-> FALSE]

Onto(r, step) == rehearsal' = [rehearsal EXCEPT ![r].pc = step]

\* Any backup may be named, the newest is the default.  A plan with a blocking finding
\* (another instance's backup, a dump that is missing or is not what its manifest says,
\* an instance that cannot be asked) is not attempted.
PlanRestore(r) ==
    /\ rehearsal[r].pc \in Resting /\ runs < MaxRuns
    /\ \E t \in local.manifests :
          IF madeFrom[t] = source /\ t \in local.dumps
          THEN /\ runs' = runs + 1
               /\ rehearsal' = [rehearsal EXCEPT ![r] =
                    [NoRehearsal EXCEPT !.pc = "planned", !.run = runs + 1, !.stamp = t,
                                        !.src = source]]
          ELSE Onto(r, "unverified") /\ UNCHANGED runs
    /\ UNCHANGED <<vars, copying, scratch, sessions, filled, copies>>

Stale(s) == {d \in scratch : d.src = s /\ d.aged /\ d.run \notin sessions}

\* dropdb without --force of every scratch database of the instance that is old enough.
\* One with a session stays, and so does one whose dropdb fails.
Sweep(s) == \E dropped \in SUBSET Stale(s) : scratch' = scratch \ dropped

\* A listing or a dropdb that fails is passed over; one that hangs ends the rehearsal.
SweepStale(r) ==
    /\ rehearsal[r].pc = "planned"
    /\ Sweep(rehearsal[r].src)
    /\ \E step \in {"swept", "raised"} : Onto(r, step)
    /\ UNCHANGED <<vars, copying, sessions, filled, copies, runs>>

\* Mutant: the rehearsal does not mind who holds the lock.
LockToRehearse_Unlocked(r) ==
    /\ rehearsal[r].pc = "swept"
    /\ Onto(r, "locked")
    /\ UNCHANGED <<vars, copying, scratch, sessions, filled, copies, runs>>

\* The role lock, which a create or a gc may hold.
LockToRehearse(r) ==
    /\ rehearsal[r].pc = "swept"
    /\ IF lock = None THEN lock' = r /\ Onto(r, "locked")
                      ELSE Onto(r, "raised") /\ UNCHANGED lock
    /\ UNCHANGED <<disk, source, proc, container, runner, bounds, copying, scratch, sessions,
                   filled, copies, runs>>

Release(r) == lock' = IF lock = r THEN None ELSE lock

\* Nothing has been made yet.
TooLittleSpace(r) ==
    /\ rehearsal[r].pc = "locked"
    /\ Release(r) /\ Onto(r, "raised")
    /\ UNCHANGED <<disk, source, proc, container, runner, bounds, copying, scratch, sessions,
                   filled, copies, runs>>

\* A step of the try block raises; the clean-up follows.
Raised(r) == rehearsal' = [rehearsal EXCEPT ![r].pc = "drop", ![r].error = TRUE]

\* The planned dump into the container, and its owner.
CopyIn(r) ==
    /\ rehearsal[r].pc = "locked"
    /\ \/ rehearsal[r].stamp \in local.dumps /\ Onto(r, "copied")
          /\ copies' = copies \cup {rehearsal[r].run}
       \/ copies' \in {copies, copies \cup {rehearsal[r].run}} /\ Raised(r)
    /\ UNCHANGED <<vars, copying, scratch, sessions, filled, runs>>

\* createdb; one that reports a failure may have made the database all the same.
CreateScratch(r) ==
    LET mine == [run |-> rehearsal[r].run, src |-> rehearsal[r].src, aged |-> FALSE] IN
    /\ rehearsal[r].pc = "copied"
    /\ \/ scratch' = scratch \cup {mine}
          /\ rehearsal' = [rehearsal EXCEPT ![r].pc = "created", ![r].created = TRUE]
       \/ scratch' \in {scratch, scratch \cup {mine}} /\ Raised(r)
    /\ UNCHANGED <<vars, copying, sessions, filled, copies, runs>>

Made(r) == \E d \in scratch : d.run = rehearsal[r].run

\* pg_restore in the container, which connects if its database is still there.
BeginRestore(r) ==
    /\ rehearsal[r].pc = "created"
    /\ IF Made(r) THEN sessions' = sessions \cup {rehearsal[r].run} /\ Onto(r, "restoring")
       ELSE /\ UNCHANGED sessions
            /\ rehearsal' = [rehearsal EXCEPT ![r].pc = "drop", ![r].blocked = TRUE]
    /\ UNCHANGED <<vars, copying, scratch, filled, copies, runs>>

\* A pg_restore ends, at its end or before it; its client, if it still waits, reads the
\* exit code.  With --exit-on-error 0 means the whole dump.
RestoreEnds(n) ==
    /\ n \in sessions /\ sessions' = sessions \ {n}
    /\ \E whole \in BOOLEAN :
          /\ filled' = IF whole THEN filled \cup {n} ELSE filled
          /\ rehearsal' = [r \in Rehearsers |->
               IF rehearsal[r].run # n \/ rehearsal[r].pc # "restoring" THEN rehearsal[r]
               ELSE IF whole
                    THEN [rehearsal[r] EXCEPT !.pc = "check", !.restored = TRUE]
                    ELSE [rehearsal[r] EXCEPT !.pc = "drop", !.blocked = TRUE]]
    /\ UNCHANGED <<vars, copying, scratch, copies, runs>>

\* The client gives up first, or the connection to it is lost.
RestoreTimesOut(r) ==
    /\ rehearsal[r].pc = "restoring" /\ Raised(r)
    /\ UNCHANGED <<vars, copying, scratch, sessions, filled, copies, runs>>

\* The size must be read; a size or a head that is not the manifest's blocks.
CheckRestored(r) ==
    /\ rehearsal[r].pc = "check"
    /\ \/ Made(r) /\ \E wrong \in BOOLEAN :
             rehearsal' = [rehearsal EXCEPT ![r].pc = "drop", ![r].blocked = wrong]
       \/ Raised(r)
    /\ UNCHANGED <<vars, copying, scratch, sessions, filled, copies, runs>>

-----------------------------------------------------------------------------
(* _cleanup_current_rehearsal: each step is tried whatever the last one did. *)

Gone(n) == n \notin sessions /\ \A d \in scratch : d.run # n

\* Mutant: a failed dropdb is only logged.
DropScratch_Logged(r) ==
    LET mine == {d \in scratch : d.run = rehearsal[r].run} IN
    /\ rehearsal[r].pc = "drop"
    /\ Onto(r, "remove")
    /\ \/ scratch' = scratch \ mine /\ sessions' = sessions \ {rehearsal[r].run}
       \/ UNCHANGED <<scratch, sessions>>
    /\ UNCHANGED <<vars, copying, filled, copies, runs>>

\* dropdb --force of a database whose createdb is known to have succeeded.
DropScratch(r) ==
    LET mine == {d \in scratch : d.run = rehearsal[r].run} IN
    /\ rehearsal[r].pc = "drop"
    /\ IF ~rehearsal[r].created
       THEN /\ rehearsal' = [rehearsal EXCEPT ![r].pc = "remove", ![r].blocked = TRUE]
            /\ UNCHANGED <<scratch, sessions>>
       ELSE /\ \/ scratch' = scratch \ mine /\ sessions' = sessions \ {rehearsal[r].run}
                  /\ Onto(r, "readback")
               \/ /\ rehearsal' = [rehearsal EXCEPT ![r].pc = "readback", ![r].blocked = TRUE]
                  /\ UNCHANGED <<scratch, sessions>>
    /\ UNCHANGED <<vars, copying, filled, copies, runs>>

\* pg_database and pg_stat_activity show neither the database nor a backend of it.
ReadBack(r) ==
    /\ rehearsal[r].pc = "readback"
    /\ \/ rehearsal' = [rehearsal EXCEPT ![r].pc = "remove",
                                         ![r].blocked = @ \/ ~Gone(rehearsal[r].run)]
       \/ rehearsal' = [rehearsal EXCEPT ![r].pc = "remove", ![r].blocked = TRUE]
    /\ UNCHANGED <<vars, copying, scratch, sessions, filled, copies, runs>>

RemoveCopy(r) ==
    /\ rehearsal[r].pc = "remove"
    /\ \/ copies' = copies \ {rehearsal[r].run} /\ Onto(r, "unlock")
       \/ UNCHANGED copies
          /\ rehearsal' = [rehearsal EXCEPT ![r].pc = "unlock", ![r].blocked = TRUE]
    /\ UNCHANGED <<vars, copying, scratch, sessions, filled, runs>>

\* RehearsalOutcome.verified, or the first error with what the clean-up found.
EndRehearsal(r) ==
    /\ rehearsal[r].pc = "unlock"
    /\ Release(r)
    /\ rehearsal' = [rehearsal EXCEPT ![r] =
          [NoRehearsal EXCEPT !.pc =
             IF rehearsal[r].error THEN "raised"
             ELSE IF rehearsal[r].restored /\ ~rehearsal[r].blocked THEN "verified" ELSE "unverified"]]
    /\ UNCHANGED <<disk, source, proc, container, runner, bounds, copying, scratch, sessions,
                   filled, copies, runs>>

\* A kill runs no clean-up; the kernel drops the lock, the container keeps the rest.
KillRehearser(r) ==
    /\ rehearsal[r].pc \notin Resting /\ kills < MaxKills
    /\ kills' = kills + 1 /\ Release(r)
    /\ rehearsal' = [rehearsal EXCEPT ![r] = NoRehearsal]
    /\ UNCHANGED <<disk, source, proc, container, runner, moves, copying, scratch, sessions,
                   filled, copies, runs>>

RehearsalStep(r) ==
    \/ PlanRestore(r) \/ SweepStale(r) \/ LockToRehearse(r) \/ TooLittleSpace(r) \/ CopyIn(r)
    \/ CreateScratch(r) \/ BeginRestore(r) \/ RestoreTimesOut(r) \/ CheckRestored(r)
    \/ DropScratch(r) \/ ReadBack(r) \/ RemoveCopy(r) \/ EndRehearsal(r) \/ KillRehearser(r)

\* Six hours after the rehearsal took its name: the copy and the restore may each take four.
Age(d) ==
    /\ d \in scratch /\ ~d.aged
    /\ scratch' = (scratch \ {d}) \cup {[d EXCEPT !.aged = TRUE]}
    /\ UNCHANGED <<vars, copying, rehearsal, sessions, filled, copies, runs>>

\* A rehearsal of another role in the same instance, under a lock of its own.
OtherRoleSweeps(s) ==
    /\ Stale(s) # {} /\ Sweep(s)
    /\ UNCHANGED <<vars, copying, rehearsal, sessions, filled, copies, runs>>

-----------------------------------------------------------------------------
RecoveryInit ==
    /\ Init
    /\ copier = NoSync /\ syncs = 0
    /\ offsite = [dumps |-> {}, shas |-> {}, manifests |-> {},
                  madeFrom |-> [t \in Stamps |-> None]]
    /\ report = [verified |-> FALSE, since |-> [s \in Sources |-> 0]]
    /\ rehearsal = [r \in Rehearsers |-> NoRehearsal]
    /\ scratch = {} /\ sessions = {} /\ filled = {} /\ copies = {} /\ runs = 0

RecoveryNext ==
    \/ Next /\ UNCHANGED <<copying, rehearsing>>
    \/ CopyStep
    \/ \E r \in Rehearsers : RehearsalStep(r)
    \/ \E n \in sessions : RestoreEnds(n)
    \/ \E d \in scratch : Age(d)
    \/ \E s \in Sources : OtherRoleSweeps(s)

RecoverySpec == RecoveryInit /\ [][RecoveryNext]_recoveryVars

-----------------------------------------------------------------------------
(* Properties.                                                               *)

\* What the other host holds restores: since a sync that was reported as verified, it
\* has, of each instance, a whole backup no older than the newest one listed when that
\* sync began, whatever creates and collections crossed the list and the transfer.
VerifiedCopyRecovers ==
    report.verified =>
        \A s \in Sources : report.since[s] > 0 =>
            \E t \in Whole(offsite) : t >= report.since[s] /\ offsite.madeFrom[t] = s

\* A rehearsal that reports its backup as verified has restored it to the end into its
\* own database, the backup is still there to restore, and neither the database nor a
\* session nor the copy of the dump is left in the container.
VerifiedRehearsalIsTrue ==
    [][ \A r \in Rehearsers :
          rehearsal[r].pc # "verified" /\ rehearsal'[r].pc = "verified" =>
             /\ rehearsal[r].run \in filled /\ Gone(rehearsal[r].run)
             /\ rehearsal[r].run \notin copies
             /\ rehearsal[r].stamp \in local.dumps
             /\ madeFrom[rehearsal[r].stamp] = rehearsal[r].src
      ]_recoveryVars

=============================================================================
