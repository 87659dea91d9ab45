----------------------------- MODULE StoreOpen -----------------------------
(***************************************************************************)
(* Releases of the server that follow one another on one database file:    *)
(* store.Open (the lock, the journal mode, the migrations) and the boot of  *)
(* cmd/server on top of it (the source registry, the retired sources), with *)
(* a crash at any step, rollbacks to an older release, and two processes    *)
(* that overlap in a deploy.  live holds the stored active events; a        *)
(* migration is its number.                                                 *)
(***************************************************************************)
EXTENDS Feed

CONSTANTS Release,      \* name -> [schema, journal, sources, reporters, retired]
          KindMigration,\* the migration that adds sources.kind
          NoProcess,    \* nobody holds the lock
          MaxLaunches   \* bound on the processes started

\* No release declares a source that it retires (retiredSourceIDs, cmd/server/main.go).
ASSUME ReleaseAssumption ==
    \A r \in DOMAIN Release :
        /\ Release[r].schema \in Nat
        /\ Release[r].retired \cap (Release[r].sources \cup Release[r].reporters) = {}
ASSUME NoProcessAssumption == NoProcess \notin DOMAIN Release
ASSUME LaunchesAssumption == MaxLaunches \in Nat

\* journalModeSynchronous: the modes that are accepted.
JournalModes == {"WAL", "DELETE", "TRUNCATE", "PERSIST"}

Off == [at |-> "off", failed |-> FALSE]

\* A new file, on a file system where WAL works or does not.
OpenInit ==
    /\ \E wal \in BOOLEAN :
         world = [lock |-> NoProcess, walWorks |-> wal, launches |-> 0,
                  db |-> [applied |-> {}, recorded |-> {}, journal |-> "DELETE", rows |-> <<>>],
                  proc |-> [r \in DOMAIN Release |-> Off]]
    /\ live = {}
    /\ result = NeverPolled

At(r) == world.proc[r].at

Step(r, at, w) ==
    /\ world' = [w EXCEPT !.proc[r].at = at]
    /\ UNCHANGED <<part, result>>

\* main, prepareGrid: the configuration is read and checked, no database opened.
Launch(r) ==
    /\ At(r) = "off" /\ world.launches < MaxLaunches
    /\ Step(r, "prepared", [world EXCEPT !.launches = @ + 1])
    /\ UNCHANGED live

\* WithJournalMode, Open: an unknown mode is refused before anything is touched.
AcceptsJournal(r) == Release[r].journal \in JournalModes

\* acquireDBLock: the flock, when nobody holds it.
TakeLock(r) ==
    /\ At(r) = "prepared" /\ AcceptsJournal(r) /\ world.lock = NoProcess
    /\ Step(r, "locked", [world EXCEPT !.lock = r])
    /\ UNCHANGED live

\* The mode is refused, the wait for the lock times out, or its context ends.
GiveUp(r) ==
    /\ At(r) = "prepared"
    /\ AcceptsJournal(r) => world.lock # NoProcess
    /\ Step(r, "off", world)
    /\ UNCHANGED live

\* Closing the database and the lock file, or the death of the process.
Released(r) == [world EXCEPT !.lock = IF @ = r THEN NoProcess ELSE @, !.proc[r].failed = FALSE]

\* PRAGMA journal_mode: SQLite keeps the old mode where WAL cannot be had.
AppliedJournal(r) ==
    IF Release[r].journal = "WAL" /\ ~world.walWorks THEN world.db.journal ELSE Release[r].journal

\* readSettings: the mode is read back; any other than the one asked for is an error.
ReadBack(r) ==
    /\ At(r) = "locked"
    /\ LET applied == AppliedJournal(r)
           w == [world EXCEPT !.db.journal = applied]
       IN IF applied = Release[r].journal
          THEN Step(r, "migrating", w)
          ELSE Step(r, "off", [w EXCEPT !.lock = NoProcess])
    /\ UNCHANGED live

\* migrate: the versions above MAX(version).
Current(db) == IF db.recorded = {} THEN 0 ELSE CHOOSE v \in db.recorded : \A u \in db.recorded : u <= v
Pending(r, db) == {v \in 1 .. Release[r].schema : v > Current(db)}

\* A mutant: the migration and its record are two transactions.
TwoTransactions(db, v) ==
    {db, [db EXCEPT !.applied = @ \cup {v}], [db EXCEPT !.applied = @ \cup {v}, !.recorded = @ \cup {v}]}

\* One migration and its record are one transaction: what can be on disk after it.
MigrationTx(db, v) ==
    {db, [db EXCEPT !.applied = @ \cup {v}, !.recorded = @ \cup {v}]}

\* A migration that is applied already fails (a table or a column that exists).
Applies(db, v) == v \notin db.applied

MigrateNext(r) ==
    LET pending == Pending(r, world.db)
        v == CHOOSE u \in pending : \A x \in pending : u <= x
    IN /\ At(r) = "migrating" /\ pending # {} /\ Applies(world.db, v)
       /\ \E d \in MigrationTx(world.db, v) :
            LET committed == v \in d.recorded
            IN Step(r, IF committed THEN "migrating" ELSE "off",
                    IF committed THEN [world EXCEPT !.db = d] ELSE [Released(r) EXCEPT !.db = d])
       /\ UNCHANGED live

Migrated(r) ==
    /\ At(r) = "migrating" /\ Pending(r, world.db) = {}
    /\ Step(r, "opened", world)
    /\ UNCHANGED live

HasColumn(r) == Release[r].schema >= KindMigration
Kind(r, s) == IF s \in Release[r].reporters THEN "REPORTER" ELSE "FEED"

\* gridSourceSeeds: one row per configured source and per push reporter.
GridSourceSeeds(r) == Release[r].sources \cup Release[r].reporters

\* The row SeedSources writes: the configured fields are the release's, the
\* health is kept; a release that does not know the column leaves the kind.
SeededRow(r, s) ==
    LET old == s \in DOMAIN world.db.rows
    IN [kind |-> IF HasColumn(r) THEN Kind(r, s) ELSE IF old THEN world.db.rows[s].kind ELSE "FEED",
        health |-> IF old THEN world.db.rows[s].health ELSE "never"]

\* SeedSources: one transaction.
SeedSources(r) ==
    /\ At(r) = "opened"
    /\ Step(r, "seeded",
            [world EXCEPT !.db.rows = [s \in DOMAIN @ \cup GridSourceSeeds(r) |->
                                         IF s \in GridSourceSeeds(r) THEN SeededRow(r, s) ELSE @[s]]])
    /\ UNCHANGED live

WithoutRow(rows, s) == [t \in DOMAIN rows \ {s} |-> rows[t]]

\* retireOrphanedSources skips the row after a failed transition.
MayDelete(s, ended) == ended

\* retireOrphanedSources, one source: its events are ended in one transaction,
\* then its row is deleted in another; each may fail, and neither stops the boot.
Retire(r) ==
    /\ At(r) = "seeded"
    /\ \E s \in Release[r].retired \cap (DOMAIN world.db.rows \cup {e.source : e \in live}) :
         \E ends, deletes \in BOOLEAN :
            LET mine == PriorForSource(s)
                ended == mine = {} \/ ends
                gone == MayDelete(s, ended) /\ deletes
            IN /\ live' = IF ended THEN live \ mine ELSE live
               /\ Step(r, "seeded",
                       [world EXCEPT !.db.rows = IF gone THEN WithoutRow(@, s) ELSE @,
                                     !.proc[r].failed = @ \/ ~ended])

\* The rest of Activate: places, statistics, pollers, the listener.  The loop
\* over the retired sources is done: what it could end is ended.
Serve(r) ==
    /\ At(r) = "seeded"
    /\ world.proc[r].failed \/ \A s \in Release[r].retired : PriorForSource(s) = {}
    /\ Step(r, "serving", world)
    /\ UNCHANGED live

\* A tick of a poller: its source's events come and go, its health is recorded.
PollTick(r, s) ==
    /\ At(r) = "serving" /\ s \in Release[r].sources
    /\ \E ok \in BOOLEAN : \E es \in SUBSET {[id |-> s, source |-> s]} :
         /\ live' = IF ok THEN (live \ PriorForSource(s)) \cup es ELSE live
         /\ Step(r, "serving",
                 [world EXCEPT !.db.rows = IF s \in DOMAIN @ THEN [@ EXCEPT ![s].health = IF ok THEN "OK" ELSE "failed"]
                                           ELSE @])

\* A crash, a failed step of the activation, a stop: the database is closed.
Stopped(r) ==
    /\ At(r) \notin {"off", "prepared"}
    /\ Step(r, "off", Released(r))
    /\ UNCHANGED live

OpenNext ==
    \E r \in DOMAIN Release :
        \/ Launch(r) \/ TakeLock(r) \/ GiveUp(r) \/ ReadBack(r) \/ MigrateNext(r) \/ Migrated(r)
        \/ SeedSources(r) \/ Retire(r) \/ Serve(r) \/ Stopped(r)
        \/ \E s \in Release[r].sources : PollTick(r, s)

OpenSpec == part = "open" /\ OpenInit /\ [][OpenNext]_feedVars

(***************************************************************************)
(* Properties                                                              *)
(***************************************************************************)

\* Whatever crashes, fails or is rolled back, the file never gets stuck between
\* two schemas: a release that has opened it finds every table and column it
\* knows, and the migrations a release has still to run are not there yet
\* (migrate, store.go: each would fail, and the boot with it, for ever).
SchemaIsWhole ==
    part = "open" =>
        \A r \in DOMAIN Release :
            /\ Pending(r, world.db) \cap world.db.applied = {}
            /\ At(r) \in {"opened", "seeded", "serving"} => 1 .. Release[r].schema \subseteq world.db.applied

\* An active event never loses the registry row of its source: a poller or the
\* next boot can still end it (retireOrphanedSources, cmd/server/main.go: a
\* failure keeps the row).
RowOutlivesEvents ==
    part = "open" => \A e \in live : e.source \in DOMAIN world.db.rows

\* A serving release that knows the column reports each of its sources for what
\* it is, also after a rollback wrote the rows without it (migrationV11).
KindsAreTold ==
    part = "open" =>
        \A r \in DOMAIN Release : At(r) = "serving" /\ HasColumn(r) =>
            \A s \in GridSourceSeeds(r) : world.db.rows[s].kind = Kind(r, s)
============================================================================
