----------------------------- MODULE SQLiteFiles -----------------------------
(***************************************************************************)
(* The files of the SQLite store and the commands that back them up and    *)
(* restore them (cmd/proxyharbor/ops.go; internal/storage/sqlite.go and    *)
(* migrations.go for the opening and the schema).                          *)
(*                                                                         *)
(* The database keeps the rollback journal of SQLite, for the DSN sets no  *)
(* journal_mode: a transaction copies what it overwrites to a file beside  *)
(* the database, and whoever opens a database beside which such a file was *)
(* left plays it back.  The commands look for -wal and -shm files, which   *)
(* this mode never makes, and for no other.                                *)
(*                                                                         *)
(* The content of a file is what each of its pages holds: the number of    *)
(* the transaction that wrote it, 0 in an empty database, Hole where       *)
(* nothing has been written.                                               *)
(***************************************************************************)
EXTENDS Integers

CONSTANTS
    Page,
    MaxWrite,   \* bound: so many transactions begin
    Kills,      \* bound: so often a process is killed
    Checks,     \* what the operator looks at before a restore: see CheckNames
    Hole, NoFile

CheckNames == {"journal",     \* no -journal file lies beside the target
               "metadata"}    \* the backup has a metadata file

ASSUME FilesAssumption ==
    /\ Page # {} /\ MaxWrite \in Nat /\ Kills \in Nat
    /\ Checks \subseteq CheckNames
    /\ Hole \notin Nat /\ NoFile \notin [Page -> Nat \union {Hole}]

VARIABLES
    database,   \* the file the server uses
    journal,    \* the file beside it
    engine,     \* what the server does with it
    writes,     \* transactions begun
    backup,     \* the file of the backup
    metadata,   \* the content whose checksum lies beside the backup
    temporary,  \* the file .restore-*.db
    command,    \* what the command of the operator does
    kills,
    (* History: the last transaction that counts, and that of the backup. *)
    truth, saved

serverVars == <<engine, writes>>
backupVars == <<backup, metadata, saved>>
filesVars == <<database, journal, serverVars, backupVars, temporary, command, kills, truth>>

File == [Page -> 0 .. MaxWrite \union {Hole}]

FilesTypeOK ==
    /\ database \in File /\ {journal, backup, metadata, temporary} \subseteq File \union {NoFile}
    /\ engine \in {"down", "up", "writing"}
    /\ writes \in 0 .. MaxWrite /\ kills \in 0 .. Kills
    /\ command \in {"none", "snapshot", "checksum", "copying", "copied"}
    /\ truth \in 0 .. MaxWrite /\ saved \in 0 .. MaxWrite

Whole(n) == [p \in Page |-> n]

Holes == [p \in Page |-> Hole]

FilesInit ==
    /\ database = Whole(0) /\ journal = NoFile
    /\ engine = "down" /\ writes = 0
    /\ backup = NoFile /\ metadata = NoFile /\ temporary = NoFile
    /\ command = "none" /\ kills = 0
    /\ truth = 0 /\ saved = 0

-----------------------------------------------------------------------------
(* The server                                                              *)

Restoring == command \in {"copying", "copied"}

(* SQLite: a journal that was left behind is played back. *)
PlayBack ==
    /\ database' = IF journal = NoFile THEN database ELSE journal
    /\ journal' = NoFile

(* NewSQLiteStore.  A database without a schema is given one, by the first *)
(* transaction.  The operator starts nothing while a restore runs.         *)
Open ==
    /\ engine = "down" /\ ~Restoring
    /\ PlayBack
    /\ engine' = "up"
    /\ UNCHANGED <<writes, backupVars, temporary, command, kills, truth>>

(* A migration or any other transaction begins: its journal is written.    *)
BeginWrite ==
    /\ engine = "up" /\ writes < MaxWrite
    /\ writes' = writes + 1
    /\ journal' = database
    /\ engine' = "writing"
    /\ UNCHANGED <<database, backupVars, temporary, command, kills, truth>>

(* A backup that reads the database keeps the writer from its pages. *)
WritePage ==
    /\ engine = "writing" /\ command # "snapshot"
    /\ \E p \in Page : database' = [database EXCEPT ![p] = writes]
    /\ UNCHANGED <<journal, serverVars, backupVars, temporary, command, kills, truth>>

Commit ==
    /\ engine = "writing" /\ database = Whole(writes)
    /\ journal' = NoFile /\ truth' = writes
    /\ engine' = "up"
    /\ UNCHANGED <<database, writes, backupVars, temporary, command, kills>>

Rollback ==
    /\ engine = "writing"
    /\ PlayBack
    /\ engine' = "up"
    /\ UNCHANGED <<writes, backupVars, temporary, command, kills, truth>>

Close ==
    /\ engine = "up"
    /\ engine' = "down"
    /\ UNCHANGED <<database, journal, writes, backupVars, temporary, command, kills, truth>>

KillServer ==
    /\ engine # "down" /\ kills < Kills
    /\ kills' = kills + 1 /\ engine' = "down"
    /\ UNCHANGED <<database, journal, writes, backupVars, temporary, command, truth>>

-----------------------------------------------------------------------------
(* backup                                                                  *)

(* VACUUM INTO begins.  It opens the database as the server does, and       *)
(* reads while no page is being overwritten.  A backup that exists is not  *)
(* replaced.                                                               *)
StartBackup ==
    /\ command = "none" /\ backup = NoFile
    /\ IF engine = "down" THEN PlayBack
       ELSE journal \in {NoFile, database} /\ UNCHANGED <<database, journal>>
    /\ backup' = Holes /\ saved' = truth
    /\ command' = "snapshot"
    /\ UNCHANGED <<serverVars, metadata, temporary, kills, truth>>

EndSnapshot ==
    /\ command = "snapshot"
    /\ backup' = database
    /\ command' = "checksum"
    /\ UNCHANGED <<database, journal, serverVars, metadata, saved, temporary, kills, truth>>

WriteMetadata ==
    /\ command = "checksum"
    /\ metadata' = backup
    /\ command' = "none"
    /\ UNCHANGED <<database, journal, serverVars, backup, saved, temporary, kills, truth>>

-----------------------------------------------------------------------------
(* restore                                                                 *)

(* What the operator has looked at, see Checks; that the server is down    *)
(* is what --force stands for.                                             *)
Cleared ==
    /\ engine = "down"
    /\ "journal" \in Checks => journal = NoFile
    /\ "metadata" \in Checks => metadata # NoFile

(* Seeded fault: the target itself is truncated and written. *)
StartRestoreInPlace ==
    /\ command = "none" /\ backup # NoFile /\ Cleared
    /\ database' = Holes /\ temporary' = NoFile
    /\ command' = "copying"
    /\ UNCHANGED <<journal, serverVars, backupVars, kills, truth>>

StartRestore ==
    /\ command = "none" /\ backup # NoFile /\ Cleared
    /\ temporary' = Holes
    /\ command' = "copying"
    /\ UNCHANGED <<database, journal, serverVars, backupVars, kills, truth>>

(* copySQLiteFile: the copy is synced before it gets its name. *)
Copy ==
    /\ command = "copying"
    /\ temporary' = backup
    /\ command' = "copied"
    /\ UNCHANGED <<database, journal, serverVars, backupVars, kills, truth>>

Rename ==
    /\ command = "copied"
    /\ database' = temporary /\ temporary' = NoFile
    /\ truth' = saved
    /\ command' = "none"
    /\ UNCHANGED <<journal, serverVars, backupVars, kills>>

(* An error: the temporary file is removed. *)
RestoreFails ==
    /\ Restoring
    /\ temporary' = NoFile /\ command' = "none"
    /\ UNCHANGED <<database, journal, serverVars, backupVars, kills, truth>>

(* --doctor opens the restored database: it plays a journal back, too. *)
Doctor ==
    /\ command = "none" /\ engine = "down"
    /\ PlayBack
    /\ UNCHANGED <<serverVars, backupVars, temporary, command, kills, truth>>

(* The command is killed; what it has written stays. *)
KillCommand ==
    /\ command # "none" /\ kills < Kills
    /\ kills' = kills + 1 /\ command' = "none"
    /\ UNCHANGED <<database, journal, serverVars, backupVars, temporary, truth>>

(* The operator throws a backup away to make another. *)
DropBackup ==
    /\ command = "none" /\ backup # NoFile
    /\ backup' = NoFile /\ metadata' = NoFile /\ saved' = 0
    /\ UNCHANGED <<database, journal, serverVars, temporary, command, kills, truth>>

FilesNext ==
    \/ Open \/ BeginWrite \/ WritePage \/ Commit \/ Rollback \/ Close \/ KillServer
    \/ StartBackup \/ EndSnapshot \/ WriteMetadata
    \/ StartRestore \/ Copy \/ Rename \/ RestoreFails \/ Doctor
    \/ KillCommand \/ DropBackup

FilesSpec == FilesInit /\ [][FilesNext]_filesVars

-----------------------------------------------------------------------------
(* Properties                                                              *)

(* A server between two transactions finds the last state that counts,     *)
(* whole: what was committed last or what the backup that was restored     *)
(* had saved, whatever was killed in the middle of what.                   *)
DatabaseIsWhole == engine = "up" => database = Whole(truth)
=============================================================================
