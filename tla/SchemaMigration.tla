--------------------------- MODULE SchemaMigration ---------------------------
(***************************************************************************)
(* The start of the database: connect.go and sqlite_migration.go of        *)
(* internal/database.  A file whose tables are not those of this version   *)
(* is backed up, its rows are copied to a new database, and the new files  *)
(* are moved over the old ones; the next start repairs a replacement that  *)
(* was cut short.                                                          *)
(*                                                                         *)
(* A database is two files here, the main one and the log of what is not   *)
(* yet in it (-wal; -shm goes with it and holds no rows).  SQLite writes   *)
(* the log into the main file when the last connection is closed, and      *)
(* reads both when it opens them; a connection that cannot be made leaves  *)
(* the log where it is.  A row belongs to a table, whose form is current,  *)
(* legacy, missing or broken.                                              *)
(***************************************************************************)
EXTENDS Integers, FiniteSets, Sequences

CONSTANTS
  Rows,           \* rows of the database
  TableOf,        \* each row's table
  BackupNames,    \* path.backup.<timestamp>, one after the other: a sequence
  MaxStarts,      \* bound: starts of the program
  MaxFailures      \* bound: calls that fail, and crashes

ASSUME MigrationAssumption ==
  /\ BackupNames \in Seq(STRING) /\ MaxStarts \in 0..Len(BackupNames) /\ MaxFailures \in Nat
  /\ \A n \in DOMAIN BackupNames : BackupNames[n] \notin {"db", "replacing", "migrating"}
  /\ TableOf \in [Rows -> {"users", "lsts", "user_entities", "entity_removal_journal"}]

VARIABLES
  disk,      \* each place and file: what is there
  forms,     \* the tables of the original
  start,     \* pc of the start: the call of Connect, and what it is at
  backup,    \* the place of this start's backup
  suffix,    \* the file that moveSQLiteFiles is at
  starts,    \* history: starts
  failures,   \* history: calls that failed, and crashes
  parted     \* history: a start ended with the original back in its place and its log not

migrationPast == <<starts, failures, parted>>
migrationVars == <<disk, forms, start, backup, suffix, migrationPast>>

Tables   == {"users", "lsts", "user_entities", "entity_removal_journal"}
Required == Tables \ {"entity_removal_journal"}      \* requiredSchema
Renamed  == {"lsts"}                                 \* tables with a column that was renamed
FileKinds == {"main", "wal"}
Backups  == DOMAIN BackupNames
DbPlaces   == {"db", "replacing", "migrating"} \cup {BackupNames[n] : n \in Backups}
NoFile   == [of |-> "none", rows |-> {}]
TornCopy     == [of |-> "old", rows |-> {}]                \* a copy that was begun
Forms    == {"current", "legacy", "missing", "broken"}

There(p, s) == disk[p][s] # NoFile

\* Where a move takes its files from, and to.
Moves == [recover |-> <<"replacing", "db">>, aside |-> <<"db", "replacing">>,
          place   |-> <<"migrating", "db">>, undo  |-> <<"replacing", "db">>]
MoveFrom == Moves[start][1]
MoveTo   == Moves[start][2]

\* An installation that has a database, whose log may hold the rows of an earlier crash; or none,
\* and perhaps a migration target that was left alone.
MigrationInit ==
  /\ \/ \E logged \in SUBSET Rows :
          /\ forms \in {f \in [Tables -> Forms] : \A r \in Rows : f[TableOf[r]] # "missing"}
          /\ disk = [p \in DbPlaces |->
                    IF p = "db" THEN [main |-> [of |-> "old", rows |-> Rows \ logged],
                                      wal  |-> IF logged = {} THEN NoFile ELSE [of |-> "old", rows |-> logged]]
                    ELSE [s \in FileKinds |-> NoFile]]
     \/ \E stranded \in BOOLEAN :
          /\ forms = [t \in Tables |-> "missing"]
          /\ disk = [p \in DbPlaces |-> [s \in FileKinds |->
                    IF stranded /\ p = "migrating" /\ s = "main" THEN [of |-> "new", rows |-> {}] ELSE NoFile]]
  /\ start = "off" /\ backup = "db" /\ suffix = "main"
  /\ starts = 0 /\ failures = 0 /\ parted = FALSE

Failure == failures < MaxFailures /\ failures' = failures + 1

GoTo(at) == start' = at /\ suffix' = "main"

\* What a connection to the files of place p finds, and what is there when it is closed.
Opened(p) == [of   |-> IF There(p, "main") THEN disk[p]["main"].of ELSE "blank",
              rows |-> IF There(p, "main") THEN disk[p]["main"].rows \cup disk[p]["wal"].rows ELSE {}]
Closed(content) == [main |-> content, wal |-> NoFile]
NoFiles == [s \in FileKinds |-> NoFile]

\* A start that ended: the original is back in its place and its log is not.
Apart(d) == d["db"]["main"].of = "old" /\ d["replacing"]["wal"].of = "old"

\* validateDatabase.
Valid(of) == of # "old" \/ \A t \in Required : forms[t] = "current"

\* The copiers of the tables: users must be there, and may lack is_accessible; lists and previous
\* names may have the column's old name; the others are read as they are.  A missing table is empty.
CopiesUsers   == forms["users"] \in {"current", "legacy"}
CopiesRenamed == \A t \in Renamed : forms[t] # "broken"
CopiesPlain   == \A t \in Tables \ (Renamed \cup {"users"}) : forms[t] \in {"current", "missing"}

CopyAllData == CopiesUsers /\ CopiesRenamed /\ CopiesPlain

\* An error of migrateExistingDatabase after the backup: the backup is removed, the start fails.
Fails(d) == disk' = [d EXCEPT ![backup] = NoFiles] /\ GoTo("off")

-----------------------------------------------------------------------------
(* Connect.                                                                *)

\* (mistake: a start looks for the database alone)
RecoverNothing ==
  /\ start = "off" /\ starts < MaxStarts /\ starts' = starts + 1 /\ GoTo("validate")
  /\ UNCHANGED <<disk, forms, backup, failures, parted>>

\* recoverInterruptedSQLiteReplacement: nothing to do, the original is moved back, or a migration
\* target is all there is and the start is refused.
RecoverInterrupted ==
  /\ start = "off" /\ starts < MaxStarts /\ starts' = starts + 1
  /\ GoTo(IF There("db", "main") THEN "validate"
        ELSE IF There("replacing", "main") THEN "recover"
        ELSE IF There("migrating", "main") THEN "off" ELSE "validate")
  /\ UNCHANGED <<disk, forms, backup, failures, parted>>

\* The migration target is removed when the original is back.
RecoveredTarget ==
  /\ start = "recovered" /\ disk' = [disk EXCEPT !["migrating"] = NoFiles] /\ GoTo("validate")
  /\ UNCHANGED <<forms, backup, migrationPast>>

\* migrateExistingDatabase validates what is there; a database it cannot open is taken for an old one.
MigrateExistingDatabase ==
  /\ start = "validate"
  /\ IF ~There("db", "main") THEN GoTo("open") /\ UNCHANGED <<disk, failures>>
     ELSE \/ /\ disk' = [disk EXCEPT !["db"] = Closed(Opened("db"))]
             /\ GoTo(IF Valid(Opened("db").of) THEN "open" ELSE "backup") /\ UNCHANGED failures
          \/ Failure /\ GoTo("backup") /\ UNCHANGED disk
  /\ UNCHANGED <<forms, backup, starts, parted>>

\* backupSQLiteFiles: one file after the other, under the name of the second it is; the copy of an
\* earlier backup of that second is overwritten.  What was copied stays when a copy fails.
BackupSQLiteFiles ==
  /\ start = "backup"
  /\ \E n \in Backups :
       /\ \A m \in Backups : disk[BackupNames[m]] # NoFiles => m <= n
       /\ backup' = BackupNames[n]
       /\ \/ /\ disk' = [disk EXCEPT ![BackupNames[n]] =
                           [main |-> disk["db"]["main"],
                            wal  |-> IF There("db", "wal") THEN disk["db"]["wal"] ELSE @["wal"]]]
             /\ GoTo("target") /\ UNCHANGED failures
          \/ /\ Failure
             /\ \E part \in {disk[backup']["main"], TornCopy, disk["db"]["main"]} : disk' = [disk EXCEPT ![backup']["main"] = part]
             /\ GoTo("off")
  /\ UNCHANGED <<forms, starts, parted>>

\* The backup is opened, what an earlier start left of the target is removed, and its tables are
\* created.
CreateTarget ==
  /\ start = "target"
  /\ \/ /\ disk' = [disk EXCEPT !["migrating"] = Closed([of |-> "new", rows |-> {}])]
        /\ GoTo("copy") /\ UNCHANGED failures
     \/ Failure /\ \E d \in {disk, [disk EXCEPT !["migrating"] = NoFiles]} : Fails(d)
  /\ UNCHANGED <<forms, backup, starts, parted>>

\* copyAllData: everything in one transaction, which is in the target's log until it is closed.
\* Afterwards every table has as many rows as the original's.
CopyData ==
  /\ start = "copy"
  /\ IF CopyAllData
     THEN \/ /\ disk' = [disk EXCEPT !["migrating"]["wal"] = [of |-> "new", rows |-> Opened(backup).rows]]
             /\ GoTo("close") /\ UNCHANGED failures
          \/ Failure /\ Fails([disk EXCEPT !["migrating"] = NoFiles])
     ELSE Fails([disk EXCEPT !["migrating"] = NoFiles]) /\ UNCHANGED failures
  /\ UNCHANGED <<forms, backup, starts, parted>>

CloseTarget ==
  /\ start = "close"
  /\ \/ disk' = [disk EXCEPT !["migrating"] = Closed(Opened("migrating"))] /\ GoTo("clear") /\ UNCHANGED failures
     \/ Failure /\ Fails([disk EXCEPT !["migrating"] = NoFiles])
  /\ UNCHANGED <<forms, backup, starts, parted>>

\* removeSQLiteFiles of what is held aside, before a replacement and after it; one file at a time.
RemoveHolding ==
  /\ start \in {"clear", "replaced"}
  /\ disk' = [disk EXCEPT !["replacing"][suffix] = NoFile]
  /\ IF suffix = "main" THEN suffix' = "wal" /\ UNCHANGED start
     ELSE GoTo(IF start = "clear" THEN "aside" ELSE "open")
  /\ UNCHANGED <<forms, backup, migrationPast>>

-----------------------------------------------------------------------------
(* moveSQLiteFiles: the main file, then the log if there is one.           *)

MovedFile(d, s, from, to) == [d EXCEPT ![from][s] = NoFile, ![to][s] = d[from][s]]

\* A replacement that failed: the error is returned, and the backup removed.
Unreplaced(d) ==
  disk' = [d EXCEPT ![backup] = IF start = "recover" THEN @ ELSE NoFiles] /\ GoTo("off") /\ parted' = (parted \/ Apart(d))

\* What follows a move that was done.
AfterMove(d) ==
  IF start = "undo" THEN Unreplaced(d)
  ELSE disk' = d /\ GoTo([recover |-> "recovered", aside |-> "place", place |-> "replaced"][start]) /\ UNCHANGED parted

\* replaceSQLiteFiles: when the target cannot be moved into place, the original is moved back.
MoveFailed(d) == IF start = "place" THEN disk' = d /\ GoTo("undo") /\ UNCHANGED parted ELSE Unreplaced(d)

\* The next file: there is none, it is moved, or it cannot be, and the one before is moved back if
\* that can be done.
MoveSQLiteFiles ==
  /\ start \in DOMAIN Moves
  /\ \/ /\ suffix = "main" /\ There(MoveFrom, "main") /\ disk' = MovedFile(disk, "main", MoveFrom, MoveTo)
        /\ suffix' = "wal" /\ UNCHANGED <<start, failures, parted>>
     \/ /\ suffix = "wal" /\ UNCHANGED failures
        /\ AfterMove(IF There(MoveFrom, "wal") THEN MovedFile(disk, "wal", MoveFrom, MoveTo) ELSE disk)
     \/ /\ There(MoveFrom, suffix) /\ Failure
        /\ \E back \in {disk} \cup IF suffix = "wal" THEN {MovedFile(disk, "main", MoveTo, MoveFrom)} ELSE {} : MoveFailed(back)
  /\ UNCHANGED <<forms, backup, starts>>

-----------------------------------------------------------------------------
(* The end of Connect, of the program, and crashes.                        *)

\* Connect opens the database, or creates it, and completes its tables.
Open ==
  /\ start = "open"
  /\ \/ disk' = [disk EXCEPT !["db"] = Closed(Opened("db"))] /\ GoTo("ready") /\ UNCHANGED failures
     \/ Failure /\ GoTo("off") /\ UNCHANGED disk
  /\ UNCHANGED <<forms, backup, starts, parted>>

\* The program ends, and is started again.
StopProgram == start = "ready" /\ GoTo("off") /\ UNCHANGED <<disk, forms, backup, migrationPast>>

\* A crash: nothing more is done, and nothing deferred.  (BackupSQLiteFiles has what it leaves of a
\* copy.)
CrashStart ==
  /\ start \notin {"off", "ready"} /\ Failure /\ GoTo("off")
  /\ disk' = disk /\ parted' = (parted \/ Apart(disk))
  /\ UNCHANGED <<forms, backup, starts>>

MigrationNext ==
  \/ RecoverInterrupted \/ RecoveredTarget \/ MigrateExistingDatabase \/ BackupSQLiteFiles \/ CreateTarget
  \/ CopyData \/ CloseTarget \/ RemoveHolding \/ MoveSQLiteFiles \/ Open \/ StopProgram \/ CrashStart

MigrationSpec == MigrationInit /\ [][MigrationNext]_migrationVars

-----------------------------------------------------------------------------
(* Properties.                                                             *)

\* The types of the variables.
MigrationTypeOK ==
  /\ disk \in [DbPlaces -> [FileKinds -> [of : {"none", "old", "new", "blank"}, rows : SUBSET Rows]]]
  /\ forms \in [Tables -> Forms] /\ backup \in DbPlaces /\ suffix \in FileKinds
  /\ start \in {"off", "recovered", "validate", "backup", "target", "copy", "close", "clear", "replaced", "open", "ready"}
                \cup DOMAIN Moves
  /\ starts \in 0..MaxStarts /\ failures \in 0..MaxFailures /\ parted \in BOOLEAN

Original == IF \A t \in Tables : forms[t] = "missing" THEN {} ELSE Rows

\* Whatever fails and wherever a start crashes, no row of the database is lost: what the program
\* runs with has all of them, no log is read into another database than the one that wrote it, and
\* until then some place has all of them, or the database and what is held aside do together.
\* Except when the original itself was moved back in part, which no later start repairs.
DatabaseKept ==
  parted \/
    /\ start = "ready" => disk["db"]["main"].rows = Original
    /\ start \in {"validate", "open"} /\ There("db", "main") /\ There("db", "wal") =>
         disk["db"]["main"].of = disk["db"]["wal"].of
    /\ \/ \E p \in DbPlaces : Opened(p).rows = Original
       \/ Original \subseteq UNION {disk[p][s].rows : p \in {"db", "replacing"}, s \in FileKinds}

=============================================================================
