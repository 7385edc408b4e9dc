--------------------------- MODULE OperationsProofs ---------------------------
(*****************************************************************************)
(* Proofs about the parts of a running deployment: the maintenance lock      *)
(* (ClusterLock), the file of the SQLite store (SQLiteFiles), the life of    *)
(* the process (Process), and the events and usage it reports (Ledger).      *)
(*****************************************************************************)
EXTENDS Process, ClusterLock, SQLiteFiles, Ledger, TLAPS

-----------------------------------------------------------------------------
(*****************************************************************************)
(* The maintenance lock, for any instances, skews and lease.                 *)
(*                                                                           *)
(* What an instance was granted is ordered: of two grants that are not       *)
(* forgotten one ended before the other was stamped.  That the holder of     *)
(* the row renews with a stamp that is not older than the one it wrote       *)
(* keeps the order, and that nobody stamps ahead of its own clock turns it   *)
(* into OneLeader.                                                           *)
(*****************************************************************************)

(* The time is kept in stamp, or what was written in granted. *)
Granted(i) == phase[i] \in {"written", "leading", "deleting"}

LockTypes ==
    /\ holder \in Member \union {Nobody}
    /\ until \in Int /\ until >= -Floor
    /\ phase \in [Member -> Phase]
    /\ stamp \in [Member -> Int] /\ granted \in [Member -> Int]
    /\ \A i \in Member : stamp[i] >= -Floor /\ granted[i] >= -Floor

(* Nobody is ahead of its own clock. *)
OwnClock ==
    /\ \A i \in Member : phase[i] = "stamped" => stamp[i] <= Skew[i]
    /\ \A i \in Member : Granted(i) => granted[i] - LeaderTTL <= Skew[i]
    /\ holder # Nobody => until - LeaderTTL <= Skew[holder]

(* The holder does not renew into the past. *)
RenewsForward ==
    \A i \in Member : phase[i] = "stamped" /\ holder = i => stamp[i] >= until - LeaderTTL

LongAgo(i) == granted[i] = -Floor

(* The row is what the instance wrote, or was written after that ended. *)
RowIsLatest ==
    \A i \in Member :
        Granted(i) => \/ holder = i /\ until = granted[i]
                      \/ holder # Nobody /\ granted[i] < until - LeaderTTL
                      \/ LongAgo(i)

Before(i, j) == granted[i] < granted[j] - LeaderTTL

GrantsAreOrdered ==
    \A i, j \in Member :
        i # j /\ Granted(i) /\ Granted(j) =>
            Before(i, j) \/ Before(j, i) \/ LongAgo(i) \/ LongAgo(j)

NobodyGranted == holder = Nobody => \A i \in Member : ~Granted(i)

LockInv ==
    /\ LockTypes /\ OwnClock /\ RenewsForward
    /\ RowIsLatest /\ GrantsAreOrdered /\ NobodyGranted

LEMMA LockInvInit == ClusterInit => LockInv
BY ClusterAssumption
   DEF ClusterInit, LockInv, LockTypes, OwnClock, RenewsForward, RowIsLatest,
       GrantsAreOrdered, NobodyGranted, Granted, Phase

(* Of the lock, i only forgets, or goes on to a phase that asks no more.   *)
LEMMA MovesOn ==
    ASSUME LockInv, NEW i \in Member, UNCHANGED <<holder, until>>,
           \A j \in Member \ {i} : phase'[j] = phase[j] /\ stamp'[j] = stamp[j]
                                   /\ granted'[j] = granted[j],
           phase' \in [Member -> Phase], stamp' \in [Member -> Int],
           granted' \in [Member -> Int],
           stamp'[i] >= -Floor, granted'[i] >= -Floor,
           Granted(i)' => Granted(i) /\ granted'[i] = granted[i],
           phase'[i] = "stamped" => stamp'[i] = Skew[i]
    PROVE  LockInv'
<1> USE ClusterAssumption DEF LockInv
<1>1. LockTypes'
  BY DEF LockTypes
<1>2. OwnClock'
  BY DEF OwnClock, LockTypes, Granted
<1>3. RenewsForward'
  BY DEF RenewsForward, OwnClock, LockTypes
<1>4. RowIsLatest'
  BY DEF RowIsLatest, Granted, LongAgo
<1>5. GrantsAreOrdered'
  BY DEF GrantsAreOrdered, Granted, Before, LongAgo
<1>6. NobodyGranted'
  BY DEF NobodyGranted, Granted
<1> QED
  BY <1>1, <1>2, <1>3, <1>4, <1>5, <1>6

(* What the row is when i writes it. *)
LEMMA Writes ==
    ASSUME LockInv, NEW i \in Member, phase[i] = "stamped", Available(i),
           holder' = i, until' = stamp[i] + LeaderTTL
    PROVE  \A j \in Member \ {i} :
               Granted(j) => granted[j] < until' - LeaderTTL \/ LongAgo(j)
<1> SUFFICES ASSUME NEW j \in Member \ {i}, Granted(j), ~LongAgo(j)
             PROVE  granted[j] < stamp[i]
  BY ClusterAssumption DEF LockInv, LockTypes
<1>1. holder # Nobody
  BY DEF LockInv, NobodyGranted
<1>2. CASE holder = i
  BY <1>2, ClusterAssumption DEF LockInv, LockTypes, RenewsForward, RowIsLatest
<1>3. CASE until < stamp[i]
  BY <1>3, ClusterAssumption DEF LockInv, LockTypes, RowIsLatest
<1> QED
  BY <1>1, <1>2, <1>3 DEF Available

(* The row is written, and i remembers what it wrote or gives up. *)
LEMMA WriteKeeps ==
    ASSUME LockInv, NEW i \in Member, phase[i] = "stamped", Available(i),
           holder' = i, until' = stamp[i] + LeaderTTL,
           \A j \in Member \ {i} : phase'[j] = phase[j] /\ stamp'[j] = stamp[j]
                                   /\ granted'[j] = granted[j],
           phase' \in [Member -> Phase], stamp' \in [Member -> Int],
           granted' \in [Member -> Int],
           stamp'[i] >= -Floor, granted'[i] >= -Floor,
           phase'[i] # "stamped",
           Granted(i)' => granted'[i] = until'
    PROVE  LockInv'
<1> USE ClusterAssumption DEF LockInv
<1>0. \A j \in Member \ {i} : Granted(j) => granted[j] < until' - LeaderTTL \/ LongAgo(j)
  BY Writes
<1>1. LockTypes'
  BY DEF LockTypes
<1>2. OwnClock'
  BY DEF OwnClock, LockTypes, Granted
<1>3. RenewsForward'
  BY DEF RenewsForward, LockTypes
<1>4. RowIsLatest'
  BY <1>0 DEF RowIsLatest, Granted, LongAgo
<1>5. GrantsAreOrdered'
  BY <1>0 DEF GrantsAreOrdered, Granted, Before, LongAgo, LockTypes
<1>6. NobodyGranted'
  BY DEF NobodyGranted, Granted
<1> QED
  BY <1>1, <1>2, <1>3, <1>4, <1>5, <1>6

-----------------------------------------------------------------------------
(* Time passes: what is compared stays as far apart, or is long ago.       *)
LEMMA TickKeeps == LockInv /\ ClusterTick => LockInv'
<1> SUFFICES ASSUME LockInv, ClusterTick PROVE LockInv'
  OBVIOUS
<1> USE ClusterAssumption DEF LockInv
<1>1. UNCHANGED <<holder, phase>> /\ until' = Sooner(until)
  BY DEF ClusterTick
<1>2. ASSUME NEW i \in Member
      PROVE  /\ stamp'[i] = IF phase[i] \in {"stamped", "written", "deleting"}
                            THEN stamp[i] - 1 ELSE stamp[i]
             /\ stamp'[i] \in Int /\ stamp'[i] >= -Floor
             /\ granted'[i] = IF Granted(i) THEN Sooner(granted[i]) ELSE granted[i]
             /\ granted'[i] \in Int /\ granted'[i] >= -Floor
  BY DEF ClusterTick, Sooner, LockTypes, Granted
<1>3. LockTypes'
  BY <1>1, <1>2 DEF LockTypes, ClusterTick, Sooner
<1>4. OwnClock'
  <2>1. \A i \in Member : phase'[i] = "stamped" => stamp'[i] <= Skew[i]
    BY <1>1, <1>2 DEF OwnClock, LockTypes
  <2>2. \A i \in Member : Granted(i)' => granted'[i] - LeaderTTL <= Skew[i]
    BY <1>1, <1>2 DEF OwnClock, LockTypes, Granted, Sooner
  <2>3. holder' # Nobody => until' - LeaderTTL <= Skew[holder']
    BY <1>1 DEF OwnClock, LockTypes, Sooner
  <2> QED
    BY <2>1, <2>2, <2>3 DEF OwnClock
<1>5. RenewsForward'
  BY <1>1, <1>2 DEF RenewsForward, LockTypes, Sooner
<1>6. RowIsLatest'
  <2> SUFFICES ASSUME NEW i \in Member, Granted(i)
               PROVE  \/ holder = i /\ until' = granted'[i]
                      \/ holder # Nobody /\ granted'[i] < until' - LeaderTTL
                      \/ granted'[i] = -Floor
    BY <1>1 DEF RowIsLatest, Granted, LongAgo
  <2>1. granted'[i] = Sooner(granted[i])
    BY <1>2
  <2> QED
    BY <1>1, <2>1 DEF RowIsLatest, LockTypes, LongAgo, Sooner
<1>7. GrantsAreOrdered'
  <2> SUFFICES ASSUME NEW i \in Member, NEW j \in Member, i # j, Granted(i), Granted(j)
               PROVE  \/ granted'[i] < granted'[j] - LeaderTTL
                      \/ granted'[j] < granted'[i] - LeaderTTL
                      \/ granted'[i] = -Floor \/ granted'[j] = -Floor
    BY <1>1 DEF GrantsAreOrdered, Granted, Before, LongAgo
  <2>1. granted'[i] = Sooner(granted[i]) /\ granted'[j] = Sooner(granted[j])
    BY <1>2
  <2> QED
    BY <2>1 DEF GrantsAreOrdered, LockTypes, Before, LongAgo, Sooner
<1>8. NobodyGranted'
  BY <1>1 DEF NobodyGranted, Granted
<1> QED
  BY <1>3, <1>4, <1>5, <1>6, <1>7, <1>8

LEMMA LockInvStep == LockInv /\ [ClusterNext]_clusterVars => LockInv'
<1> SUFFICES ASSUME LockInv, [ClusterNext]_clusterVars PROVE LockInv'
  OBVIOUS
<1> USE ClusterAssumption
<1> USE DEF Proceed, Return
<1>1. ASSUME NEW i \in Member, Stamp(i) PROVE LockInv'
  BY <1>1, MovesOn DEF Stamp, LockInv, LockTypes, Granted, Phase
<1>2. ASSUME NEW i \in Member, Upsert(i) PROVE LockInv'
  <2>1. CASE Available(i)
    BY <1>2, <2>1, WriteKeeps DEF Upsert, LockInv, LockTypes, Granted, Phase
  <2>2. CASE ~Available(i)
    BY <1>2, <2>2, MovesOn DEF Upsert, LockInv, LockTypes, Granted, Phase
  <2> QED
    BY <2>1, <2>2
<1>3. ASSUME NEW i \in Member, UpsertFails(i) PROVE LockInv'
  <2>1. CASE Available(i) /\ holder' = i /\ until' = stamp[i] + LeaderTTL
    BY <1>3, <2>1, WriteKeeps DEF UpsertFails, LockInv, LockTypes, Granted, Phase
  <2>2. CASE UNCHANGED <<holder, until>>
    BY <1>3, <2>2, MovesOn DEF UpsertFails, LockInv, LockTypes, Granted, Phase
  <2> QED
    BY <1>3, <2>1, <2>2 DEF UpsertFails
<1>4. ASSUME NEW i \in Member, ReadBack(i) PROVE LockInv'
  BY <1>4, MovesOn DEF ReadBack, LockInv, LockTypes, Granted, Phase
<1>5. ASSUME NEW i \in Member, StampBatch(i) PROVE LockInv'
  BY <1>5, MovesOn DEF StampBatch, LockInv, LockTypes, Granted, Phase
<1>6. ASSUME NEW i \in Member, DeleteBatch(i) \/ GiveUp(i) PROVE LockInv'
  BY <1>6, MovesOn DEF DeleteBatch, GiveUp, LockInv, LockTypes, Granted, Phase
<1>7. ASSUME NEW i \in Member, Crash(i) PROVE LockInv'
  BY <1>7, MovesOn DEF Crash, LockInv, LockTypes, Granted, Phase
<1>8. ASSUME NEW i \in Member, Restart(i) PROVE LockInv'
  BY <1>8, MovesOn DEF Restart, LockInv, LockTypes, Granted, Phase
<1>9. CASE (\E l \in Lease : Insert(l)) \/ UNCHANGED clusterVars
  BY <1>9 DEF Insert, clusterVars, lockVars, LockInv, LockTypes, OwnClock, RenewsForward,
              RowIsLatest, GrantsAreOrdered, NobodyGranted, Granted, Before, LongAgo
<1> QED
  BY <1>1, <1>2, <1>3, <1>4, <1>5, <1>6, <1>7, <1>8, <1>9, TickKeeps
     DEF ClusterNext, Maintain

(* The lock is ordered in every behaviour: of two grants one ended before  *)
(* the other was stamped (TryAcquireLock).                                 *)
THEOREM LockIsOrdered == ClusterSpec => []LockInv
BY LockInvInit, LockInvStep, PTL DEF ClusterSpec

(* The variables of the lock have their types. *)
THEOREM LockHasTypes == ClusterSpec => []ClusterTypeOK
<1>1. LockInv => ClusterTypeOK
  BY DEF LockInv, LockTypes, ClusterTypeOK
<1> QED
  BY <1>1, LockIsOrdered, PTL

(* Of two instances that delete, one has outlasted its lease by the clock  *)
(* of the other (maintain), for any number of instances and any skews.     *)
THEOREM AtMostOneLeader == ClusterSpec => []OneLeader
<1>1. LockInv => OneLeader
  <2> SUFFICES ASSUME LockInv, NEW i \in Member, NEW j \in Member, i # j,
                      Leads(i), Leads(j)
               PROVE  granted[i] < Skew[j] \/ granted[j] < Skew[i]
    BY DEF OneLeader
  <2>1. Granted(i) /\ Granted(j)
    BY DEF Leads, Granted
  <2> QED
    BY <2>1, ClusterAssumption
       DEF LockInv, LockTypes, GrantsAreOrdered, OwnClock, Before, LongAgo
<1> QED
  BY <1>1, LockIsOrdered, PTL

-----------------------------------------------------------------------------
(*****************************************************************************)
(* The file of the SQLite store, for any number of pages, transactions and   *)
(* kills, when the operator looks for a journal beside the target and for    *)
(* the metadata of the backup (the violation run leaves the first out).      *)
(*****************************************************************************)

Counters == writes \in Nat /\ truth \in Nat /\ saved \in Nat

(* A journal holds what counts; where there is none the database does. *)
JournalHoldsTruth ==
    /\ journal \in {NoFile, Whole(truth)}
    /\ journal = NoFile => engine # "writing" /\ database = Whole(truth)
    /\ engine = "up" => journal = NoFile

(* While a backup reads, pages are not overwritten. *)
SnapshotIsStill ==
    command = "snapshot" =>
        /\ database = Whole(saved) /\ journal \in {NoFile, database}
        /\ metadata = NoFile /\ backup # NoFile

(* A backup with metadata is complete. *)
MetadataMeansWhole ==
    /\ backup = NoFile => metadata = NoFile
    /\ metadata # NoFile \/ command = "checksum" => backup = Whole(saved)

(* A restore has the target to itself and copies a complete backup. *)
RestoreIsAlone ==
    /\ Restoring => engine = "down" /\ journal = NoFile /\ metadata # NoFile
    /\ command = "copied" => temporary = Whole(saved)

FilesInv ==
    /\ Counters /\ JournalHoldsTruth /\ SnapshotIsStill
    /\ MetadataMeansWhole /\ RestoreIsAlone

(* A whole file is a file, and so is one that has only been created. *)
LEMMA WholeIsAFile == (\A n \in Nat : Whole(n) # NoFile) /\ Holes # NoFile
BY FilesAssumption DEF Whole, Holes

LEMMA FilesInvInit == FilesInit => FilesInv
BY WholeIsAFile
   DEF FilesInit, FilesInv, Counters, JournalHoldsTruth, SnapshotIsStill,
       MetadataMeansWhole, RestoreIsAlone, Restoring

(* What the server and the processes that open its database do. *)
ServerNext ==
    \/ Open \/ BeginWrite \/ WritePage \/ Commit \/ Rollback \/ Close
    \/ KillServer \/ Doctor

LEMMA ServerKeeps == FilesInv /\ ServerNext => FilesInv'
<1> SUFFICES ASSUME FilesInv, ServerNext PROVE FilesInv'
  OBVIOUS
<1> USE DEF FilesInv
<1>1. UNCHANGED <<backup, metadata, saved, temporary, command>>
  BY DEF ServerNext, Open, BeginWrite, WritePage, Commit, Rollback, Close, KillServer,
         Doctor, backupVars, serverVars
<1>2. Counters'
  BY <1>1 DEF ServerNext, Open, BeginWrite, WritePage, Commit, Rollback, Close, KillServer,
              Doctor, backupVars, serverVars, Counters
<1>3. JournalHoldsTruth'
  <2>1. CASE Open \/ Rollback \/ Doctor
    BY <2>1, FilesAssumption, WholeIsAFile
       DEF Open, Rollback, Doctor, PlayBack, JournalHoldsTruth, serverVars
  <2>2. CASE BeginWrite
    BY <2>2, WholeIsAFile DEF BeginWrite, JournalHoldsTruth, Counters
  <2>3. CASE WritePage
    BY <2>3 DEF WritePage, JournalHoldsTruth, serverVars
  <2>4. CASE Commit
    BY <2>4 DEF Commit, JournalHoldsTruth
  <2>5. CASE Close \/ KillServer
    BY <2>5 DEF Close, KillServer, JournalHoldsTruth
  <2> QED
    BY <2>1, <2>2, <2>3, <2>4, <2>5 DEF ServerNext
<1>4. SnapshotIsStill'
  BY <1>1 DEF ServerNext, Open, BeginWrite, WritePage, Commit, Rollback, Close, KillServer,
              Doctor, PlayBack, SnapshotIsStill
<1>5. MetadataMeansWhole'
  BY <1>1 DEF MetadataMeansWhole
<1>6. RestoreIsAlone'
  BY <1>1 DEF ServerNext, Open, BeginWrite, WritePage, Commit, Rollback, Close, KillServer,
              Doctor, PlayBack, RestoreIsAlone, Restoring, serverVars
<1> QED
  BY <1>2, <1>3, <1>4, <1>5, <1>6

(* What the commands do. *)
CommandNext ==
    \/ StartBackup \/ EndSnapshot \/ WriteMetadata
    \/ StartRestore \/ Copy \/ Rename \/ RestoreFails \/ KillCommand \/ DropBackup

LEMMA CommandKeeps ==
    ASSUME FilesInv, CommandNext, Checks = CheckNames
    PROVE  FilesInv'
<1> USE DEF FilesInv, Counters, JournalHoldsTruth, SnapshotIsStill, MetadataMeansWhole,
            RestoreIsAlone, Restoring, backupVars, serverVars
<1>1. CASE StartBackup
  BY <1>1, WholeIsAFile DEF StartBackup, PlayBack
<1>2. CASE EndSnapshot
  BY <1>2, WholeIsAFile DEF EndSnapshot
<1>3. CASE WriteMetadata
  BY <1>3, WholeIsAFile DEF WriteMetadata
<1>4. CASE StartRestore
  BY <1>4 DEF StartRestore, Cleared, CheckNames
<1>5. CASE Copy
  BY <1>5 DEF Copy
<1>6. CASE Rename
  BY <1>6 DEF Rename
<1>7. CASE RestoreFails \/ KillCommand \/ DropBackup
  BY <1>7 DEF RestoreFails, KillCommand, DropBackup
<1> QED
  BY <1>1, <1>2, <1>3, <1>4, <1>5, <1>6, <1>7 DEF CommandNext

LEMMA FilesInvStep ==
    ASSUME FilesInv, [FilesNext]_filesVars, Checks = CheckNames
    PROVE  FilesInv'
<1>1. CASE UNCHANGED filesVars
  BY <1>1 DEF filesVars, serverVars, backupVars, FilesInv, Counters, JournalHoldsTruth,
              SnapshotIsStill, MetadataMeansWhole, RestoreIsAlone, Restoring
<1> QED
  BY <1>1, ServerKeeps, CommandKeeps DEF FilesNext, ServerNext, CommandNext

(* A server that is up finds the last state that counts, whatever was      *)
(* killed in the middle of what (ops.go: sqliteBackup, offlineSQLiteRestore).       *)
THEOREM WholeDatabase == Checks = CheckNames /\ FilesSpec => []DatabaseIsWhole
<1>1. FilesInv => DatabaseIsWhole
  BY DEF FilesInv, JournalHoldsTruth, DatabaseIsWhole
<1>2. Checks = CheckNames /\ FilesInv /\ [FilesNext]_filesVars => FilesInv'
  BY FilesInvStep
<1>3. ASSUME Checks = CheckNames PROVE FilesSpec => []DatabaseIsWhole
  <2>1. FilesInv /\ [FilesNext]_filesVars => FilesInv'
    BY <1>2, <1>3
  <2> QED
    BY <1>1, <2>1, FilesInvInit, PTL DEF FilesSpec
<1> QED
  BY <1>3

-----------------------------------------------------------------------------
(*****************************************************************************)
(* The life of the process, for any requests, tasks, stages and budget:      *)
(* what the reported result means, that a drain is longer than a load        *)
(* balancer needs, and that the phases fit into the configured time.         *)
(*****************************************************************************)

-----------------------------------------------------------------------------
(* The result                                                              *)

AfterHTTP == {"tunnels", "background", "health", "exited"}

ResultTypes ==
    /\ main \in Phases \union {"starting", "serving", "exited"}
    /\ listener \in {"none", "open", "failed", "closed"}
    /\ conn \in [Request -> Running \union {"none", "done", "aborted", "refused", "cut"}]
    /\ task \in [Task -> {"off", "running", "stopped", "cut"}]

(* Only CONNECT dials, and only what the gateway does is aborted; nothing  *)
(* is cut before the end.                                                  *)
Connections ==
    /\ \A r \in Request :
          /\ conn[r] \in (Running \ Handled) \union {"dialing"} => r \in Connect
          /\ conn[r] \in {"forwarding", "copying", "aborted"} => r \in Gateway
    /\ main # "exited" => /\ \A r \in Request : conn[r] # "cut"
                          /\ \A b \in Task : task[b] # "cut"

(* The result and the listener follow the phase. *)
Follows ==
    /\ main \in {"starting", "serving"} => result = "none"
    /\ main \in Phases => result \in {"graceful", "error"}
    /\ main = "starting" => listener = "none"
    /\ main \in AfterHTTP \union {"http"} => listener # "open"

(* As long as the result is good, what a phase has waited for has ended.   *)
GracefulSoFar ==
    result = "graceful" =>
        /\ main \in AfterHTTP => Tracked = {} /\ listener # "failed"
        /\ main \in AfterHTTP \ {"tunnels"} => Counted = {}
        /\ main \in {"health", "exited"} => \A b \in Task : task[b] # "running"
        /\ main = "exited" => /\ \A r \in Request : conn[r] # "cut"
                              /\ \A b \in Task : task[b] # "cut"

LossIsKnown == result \in {"none", "graceful"} => loss \subseteq {"store", "canceled"}

ResultInv == ResultTypes /\ Connections /\ Follows /\ GracefulSoFar /\ LossIsKnown

LEMMA ResultInvInit == ProcessInit => ResultInv
BY DEF ProcessInit, ResultInv, ResultTypes, Connections, Follows, GracefulSoFar,
       LossIsKnown, Phases, AfterHTTP, Running, Handled

(* The main goroutine. *)
LEMMA MainKeepsResult == ResultInv /\ MainStep => ResultInv'
<1> SUFFICES ASSUME ResultInv, MainStep PROVE ResultInv'
  OBVIOUS
<1> USE DEF ResultInv, ResultTypes, Connections, Follows, GracefulSoFar, LossIsKnown,
            Phases, AfterHTTP, Enter, Worse, recorderVars, Running, Handled
<1>1. CASE StageDone
  BY <1>1 DEF StageDone
<1>2. CASE StageFails
  BY <1>2 DEF StageFails, Exit
<1>3. CASE StartDraining
  BY <1>3 DEF StartDraining
<1>4. CASE CloseListener
  BY <1>4 DEF CloseListener
<1>5. CASE HTTPDone
  BY <1>5 DEF HTTPDone, Tracked
<1>6. CASE HTTPTimeout
  BY <1>6 DEF HTTPTimeout
<1>7. CASE WaitForGatewayTunnels
  BY <1>7 DEF WaitForGatewayTunnels, Tracked, Counted
<1>8. CASE WaitForBackground
  BY <1>8 DEF WaitForBackground, Tracked, Counted
<1>9. CASE CloseRecorder
  <2>1. ResultTypes' /\ Connections' /\ Follows'
    BY <1>9 DEF CloseRecorder, Exit
  <2>2. GracefulSoFar'
    BY <1>9 DEF CloseRecorder, Exit, Tracked, Counted
  <2>3. LossIsKnown'
    BY <1>9 DEF CloseRecorder, Exit, Lost
  <2> QED
    BY <2>1, <2>2, <2>3
<1> QED
  BY <1>1, <1>2, <1>3, <1>4, <1>5, <1>6, <1>7, <1>8, <1>9 DEF MainStep

(* An outcome is recorded for a request that had not ended: once the       *)
(* recorder is closed, the result is no longer good.                       *)
LEMMA RecordKeepsLoss ==
    ASSUME ResultInv, NEW r \in Request, conn[r] \in Running \ {"tunnel"},
           Record(r), UNCHANGED <<main, result>>
    PROVE  LossIsKnown'
<1>1. main = "health" => result # "graceful"
  BY DEF ResultInv, GracefulSoFar, Connections, Tracked, Counted, AfterHTTP, Running, Handled
<1> QED
  BY <1>1 DEF Record, Lost, ResultInv, LossIsKnown, Follows, Phases

(* What a request may do. *)
RequestNext(r) ==
    \/ Send(r) \/ Answered(r) \/ GoToProxy(r) \/ ForwardFails(r) \/ Forwarded(r)
    \/ Copied(r) \/ DialFails(r) \/ Hijack(r) \/ TunnelCloses(r) \/ TunnelEnds(r)

(* Where a request may go from where it is. *)
After(r) ==
    CASE conn[r] = "handling" -> {"done", "forwarding", "dialing"}
      [] conn[r] = "forwarding" -> {"done", "aborted", "copying"}
      [] conn[r] = "copying" -> {"done", "aborted"}
      [] conn[r] = "dialing" -> {"done", "aborted", "tunnel", "aborting"}
      [] conn[r] = "tunnel" -> {"ending", "aborting"}
      [] conn[r] \in {"ending", "aborting"} -> {"done", "aborted"}
      [] OTHER -> {"handling", "refused"}

(* A request goes on to what comes next, and is recorded, if at all, while *)
(* it is still under way.                                                  *)
LEMMA RequestGoesOn ==
    ASSUME ResultInv, NEW r \in Request, RequestNext(r)
    PROVE  /\ UNCHANGED <<main, result, listener, task>>
           /\ \E to \in After(r) :
                 /\ Put(r, to)
                 /\ to = "handling" => conn[r] = "none" /\ listener = "open"
                 /\ to = "dialing" => r \in Connect
                 /\ to = "forwarding" => r \in Gateway
           /\ \/ UNCHANGED recorderVars
              \/ conn[r] \in Running \ {"tunnel"} /\ Record(r)
<1> USE DEF othersVars, mainVars, After, Running, Handled
<1>1. CASE Send(r)
  BY <1>1 DEF Send
<1>2. CASE Answered(r) \/ GoToProxy(r)
  BY <1>2 DEF Answered, GoToProxy
<1>3. CASE ForwardFails(r) \/ Forwarded(r) \/ Copied(r)
  BY <1>3 DEF ForwardFails, Forwarded, Copied, Ends
<1>4. CASE DialFails(r) \/ Hijack(r)
  BY <1>4 DEF DialFails, Hijack, Ends
<1>5. CASE TunnelCloses(r) \/ TunnelEnds(r)
  BY <1>5 DEF TunnelCloses, TunnelEnds
<1> QED
  BY <1>1, <1>2, <1>3, <1>4, <1>5 DEF RequestNext

(* A request goes on from where it was. *)
LEMMA RequestKeepsResult ==
    ASSUME ResultInv, NEW r \in Request, RequestNext(r)
    PROVE  ResultInv'
<1> USE DEF ResultInv
<1>1. UNCHANGED <<main, result, listener, task>>
  BY RequestGoesOn
<1>2. PICK to \in After(r) :
          /\ Put(r, to)
          /\ to = "handling" => conn[r] = "none" /\ listener = "open"
          /\ to = "dialing" => r \in Connect
          /\ to = "forwarding" => r \in Gateway
  BY RequestGoesOn
<1>3. /\ to \in Running \union {"done", "aborted", "refused"}
      /\ to \in Handled => conn[r] \in Handled \/ to = "handling"
      /\ to \in {"tunnel", "ending", "aborting"} => conn[r] \in {"dialing", "tunnel"}
      /\ to = "copying" => conn[r] = "forwarding"
      /\ to = "aborted" => conn[r] \in Running \ {"handling", "tunnel"}
  BY DEF After, Running, Handled
<1>4. ResultTypes'
  BY <1>1, <1>2, <1>3 DEF ResultTypes, Put
<1>5. Connections' /\ Follows'
  <2>1. to \in (Running \ Handled) \union {"dialing"} => r \in Connect
    BY <1>2, <1>3 DEF Connections, Running, Handled
  <2>2. to \in {"forwarding", "copying", "aborted"} => r \in Gateway
    BY <1>2, <1>3 DEF Connections, Running, Handled, Gateway
  <2>3. \A q \in Request : conn'[q] = IF q = r THEN to ELSE conn[q]
    BY <1>2 DEF ResultTypes, Put
  <2>4. Connections'
    BY <1>1, <1>3, <2>1, <2>2, <2>3 DEF Connections, Running, Handled
  <2> QED
    BY <1>1, <2>4 DEF Follows
<1>6. GracefulSoFar'
  <2>1. CASE result = "graceful" /\ main \in AfterHTTP
    <3>1. Tracked' \subseteq Tracked
      BY <1>1, <1>2, <1>3, <2>1
         DEF Tracked, Put, ResultTypes, Follows, GracefulSoFar
    <3>2. main # "tunnels" => Counted' \subseteq Counted
      BY <1>1, <1>2, <1>3, <2>1
         DEF Tracked, Counted, Put, ResultTypes, GracefulSoFar, Connections, Running, Handled
    <3> QED
      BY <1>1, <1>2, <1>3, <2>1, <3>1, <3>2 DEF GracefulSoFar, Put, ResultTypes, Running, Handled
  <2>2. CASE ~(result = "graceful" /\ main \in AfterHTTP)
    BY <1>1, <2>2 DEF GracefulSoFar, AfterHTTP
  <2> QED
    BY <2>1, <2>2
<1>7. LossIsKnown'
  <2>1. CASE conn[r] \in Running \ {"tunnel"} /\ Record(r)
    BY <1>1, <2>1, RecordKeepsLoss
  <2>2. CASE UNCHANGED recorderVars
    BY <1>1, <2>2 DEF LossIsKnown, recorderVars
  <2> QED
    BY <2>1, <2>2, RequestGoesOn
<1> QED
  BY <1>4, <1>5, <1>6, <1>7

LEMMA ResultInvStep == ResultInv /\ [ProcessNext]_processVars => ResultInv'
<1> SUFFICES ASSUME ResultInv, [ProcessNext]_processVars PROVE ResultInv'
  OBVIOUS
<1>1. CASE MainStep
  BY <1>1, MainKeepsResult
<1>2. CASE Serving
  <2>1. ASSUME NEW b \in Task, TaskStops(b) PROVE ResultInv'
    BY <2>1 DEF TaskStops, othersVars, mainVars, recorderVars, ResultInv, ResultTypes,
                Connections, Follows, GracefulSoFar, LossIsKnown, Tracked, Counted
  <2>2. CASE Flush \/ FlushEnds
    BY <2>2 DEF Flush, FlushEnds, Lost, othersVars, mainVars, ResultInv, ResultTypes,
                Connections, Follows, GracefulSoFar, LossIsKnown, Tracked, Counted
  <2> QED
    BY <1>2, <2>1, <2>2, RequestKeepsResult DEF Serving, RequestNext
<1>3. CASE SecondSignal
  BY <1>3 DEF SecondSignal, Exit, recorderVars, ResultInv, ResultTypes, Connections,
              Follows, GracefulSoFar, LossIsKnown, Phases, AfterHTTP, Running, Handled
<1>4. CASE Signal \/ ListenerFails \/ Probe \/ ProcessTick
  BY <1>4 DEF Signal, ListenerFails, Probe, ProcessTick, mainVars, recorderVars, ResultInv,
              ResultTypes, Connections, Follows, GracefulSoFar, LossIsKnown, Tracked, Counted,
              AfterHTTP
<1>5. CASE UNCHANGED processVars
  BY <1>5 DEF processVars, mainVars, recorderVars, ResultInv, ResultTypes, Connections,
              Follows, GracefulSoFar, LossIsKnown, Tracked, Counted
<1> QED
  BY <1>1, <1>2, <1>3, <1>4, <1>5 DEF ProcessNext

(* When a shutdown reports "graceful", whatever it had under way has ended *)
(* before the process did: the API requests by their answer, forwards,     *)
(* dials and tunnels by themselves or because the shutdown aborted them,   *)
(* the tasks too, and the recorder had all the outcomes in time (main.go:  *)
(* run, shutdown; gateway.go: gatewayRequestContext; recorder.go: Close).  *)
THEOREM GracefulIsTrue == ProcessSpec => []ResultTellsTheTruth
<1>1. ResultInv => ResultTellsTheTruth
  BY DEF ResultInv, ResultTypes, Connections, Follows, GracefulSoFar, LossIsKnown,
         ResultTellsTheTruth, AfterHTTP, Tracked, Counted, Running, Handled
<1> QED
  BY <1>1, ResultInvInit, ResultInvStep, PTL DEF ProcessSpec

-----------------------------------------------------------------------------
(* The budget                                                              *)

(* splitShutdownBudget gives away the whole of the time, and no more. *)
LEMMA BudgetAddsUp ==
    /\ DrainDelay \in Nat /\ \A k \in 1 .. 4 : Budget(k) \in Nat
    /\ DrainDelay + Budget(1) + Budget(2) + Budget(3) + Budget(4) = Total
<1>1. DrainDelay \in Nat /\ DrainDelay <= Total
  BY ProcessAssumption DEF DrainDelay
<1> DEFINE rest == Total - DrainDelay
<1>2. rest \in Nat
  BY <1>1, ProcessAssumption
<1>3. \A n \in Nat : n \div 4 \in Nat /\ n % 4 \in 0 .. 3
  OBVIOUS
<1>4. \A n \in Nat : n = 4 * (n \div 4) + (n % 4)
  OBVIOUS
<1>5. \A k \in 1 .. 4 : Budget(k) = rest \div 4 + (IF k <= rest % 4 THEN 1 ELSE 0)
  BY DEF Budget
<1>6. PICK q \in Nat : q = rest \div 4
  BY <1>2, <1>3
<1>7. PICK r \in 0 .. 3 : r = rest % 4
  BY <1>2, <1>3
<1>8. rest = 4 * q + r
  BY <1>2, <1>4, <1>6, <1>7
<1>9. \A k \in 1 .. 4 : Budget(k) = q + (IF k <= r THEN 1 ELSE 0)
  BY <1>5, <1>6, <1>7
<1>10. Budget(1) + Budget(2) + Budget(3) + Budget(4) = 4 * q + r
  BY <1>9
<1>11. \A k \in 1 .. 4 : Budget(k) \in Nat
  BY <1>9
<1>12. Budget(1) \in Nat /\ Budget(2) \in Nat /\ Budget(3) \in Nat /\ Budget(4) \in Nat
  BY <1>11
<1> QED
  BY <1>1, <1>8, <1>10, <1>11, <1>12, ProcessAssumption

(* No phase lasts beyond what has been given away up to it. *)
WithinBudget ==
    /\ elapsed \in Nat /\ deadline \in Nat
    /\ main \in {"starting", "serving"} => elapsed = 0
    /\ main \in Phases => elapsed <= deadline
    /\ main = "draining" => deadline = DrainDelay
    /\ main = "http" => deadline <= DrainDelay + Budget(1)
    /\ main = "tunnels" => deadline <= DrainDelay + Budget(1) + Budget(2)
    /\ main = "background" => deadline <= DrainDelay + Budget(1) + Budget(2) + Budget(3)
    /\ main = "health" => deadline <= Total
    /\ elapsed <= Total

LEMMA WithinBudgetInit == ProcessInit => WithinBudget
BY ProcessAssumption DEF ProcessInit, WithinBudget, Phases

LEMMA WithinBudgetStep ==
    ResultInv /\ WithinBudget /\ [ProcessNext]_processVars => WithinBudget'
<1> SUFFICES ASSUME ResultInv, WithinBudget, [ProcessNext]_processVars PROVE WithinBudget'
  OBVIOUS
<1> USE BudgetAddsUp, ProcessAssumption DEF WithinBudget, Phases
<1>0. PICK b1 \in Nat, b2 \in Nat, b3 \in Nat, b4 \in Nat :
          /\ b1 = Budget(1) /\ b2 = Budget(2) /\ b3 = Budget(3) /\ b4 = Budget(4)
          /\ DrainDelay + b1 + b2 + b3 + b4 = Total
  OBVIOUS
<1>1. CASE StageDone \/ StageFails \/ SecondSignal
  BY <1>1 DEF StageDone, StageFails, SecondSignal, Exit
<1>2. CASE StartDraining \/ CloseListener
  BY <1>2 DEF StartDraining, CloseListener, Enter
<1>3. CASE HTTPDone \/ HTTPTimeout
  <2>1. main = "http" /\ main' = "tunnels" /\ elapsed' = elapsed /\ deadline' = elapsed + b2
    BY <1>0, <1>3 DEF HTTPDone, HTTPTimeout, Enter
  <2> QED
    BY <1>0, <2>1
<1>4. CASE WaitForGatewayTunnels \/ WaitForBackground
  <2>1. /\ elapsed' = elapsed
        /\ \/ main = "tunnels" /\ main' = "background" /\ deadline' = elapsed + b3
           \/ main = "background" /\ main' = "health" /\ deadline' = elapsed + b4
    BY <1>0, <1>4 DEF WaitForGatewayTunnels, WaitForBackground, Enter
  <2> QED
    BY <1>0, <2>1
<1>5. CASE CloseRecorder
  BY <1>5 DEF CloseRecorder, Exit
<1>6. CASE ProcessTick
  BY <1>6 DEF ProcessTick
<1>7. CASE UNCHANGED mainVars
  BY <1>7 DEF mainVars
<1>8. Serving \/ Signal \/ ListenerFails \/ Probe \/ UNCHANGED processVars
         => UNCHANGED mainVars
  BY DEF Serving, Send, Answered, GoToProxy, ForwardFails, Forwarded, Copied, DialFails,
         Hijack, TunnelCloses, TunnelEnds, TaskStops, Flush, FlushEnds, Signal, ListenerFails,
         Probe, processVars, othersVars
<1> QED
  BY <1>1, <1>2, <1>3, <1>4, <1>5, <1>6, <1>7, <1>8 DEF ProcessNext, MainStep

(* A shutdown never takes longer than ShutdownTimeout (main.go:           *)
(* splitShutdownBudget); that it ends is left to the runs.                 *)
THEOREM ShutdownFitsBudget == ProcessSpec => [](elapsed <= Total)
<1>1. ResultInv /\ WithinBudget /\ [ProcessNext]_processVars
         => ResultInv' /\ WithinBudget'
  BY ResultInvStep, WithinBudgetStep
<1>2. WithinBudget => elapsed <= Total
  BY DEF WithinBudget
<1> QED
  BY <1>1, <1>2, ResultInvInit, WithinBudgetInit, PTL DEF ProcessSpec

-----------------------------------------------------------------------------
(* The drain                                                               *)

(* While the process drains, a load balancer that still sends has not      *)
(* asked since the drain began.                                            *)
Probed ==
    /\ probeAge \in 0 .. ProbeEvery
    /\ main = "draining" /\ routed => elapsed <= probeAge

(* The balancer sends to an open listener, or does not know yet. *)
Balanced ==
    /\ routed => listener # "none"
    /\ listener \in {"none", "open"} => \A r \in Request : conn[r] # "refused"
    /\ ProbeEvery < DrainDelay /\ listener = "closed" /\ result # "killed"
          => ~routed /\ \A r \in Request : conn[r] # "refused"

DrainInv == Probed /\ Balanced

LEMMA DrainInvInit == ProcessInit => DrainInv
BY ProcessAssumption DEF ProcessInit, DrainInv, Probed, Balanced

LEMMA DrainInvStep ==
    ASSUME ResultInv, WithinBudget, DrainInv, [ProcessNext]_processVars
    PROVE  DrainInv'
<1> USE ProcessAssumption DEF DrainInv, Phases
<1>1. CASE MainStep
  <2>0. probeAge' \in 0 .. ProbeEvery /\ UNCHANGED routed
    BY <1>1 DEF MainStep, Probed
  <2>1. CASE StageDone \/ StageFails
    BY <2>0, <2>1 DEF StageDone, StageFails, Exit, Probed, Balanced, ResultInv, ResultTypes,
                      Follows
  <2>2. CASE StartDraining
    BY <2>0, <2>2 DEF StartDraining, Enter, Probed, Balanced, WithinBudget, ResultInv, Follows
  <2>3. CASE CloseListener
    <3>1. elapsed = DrainDelay /\ main' = "http"
      BY <2>3 DEF CloseListener, Enter, WithinBudget
    <3>2. ProbeEvery < DrainDelay => ~routed
      BY <2>3, <3>1, BudgetAddsUp DEF CloseListener, Probed
    <3> QED
      BY <2>0, <2>3, <3>1, <3>2 DEF CloseListener, Probed, Balanced, ResultInv, ResultTypes
  <2>4. CASE HTTPDone \/ HTTPTimeout \/ WaitForGatewayTunnels \/ WaitForBackground
    BY <2>0, <2>4 DEF HTTPDone, HTTPTimeout, WaitForGatewayTunnels, WaitForBackground,
                      Enter, Worse, Probed, Balanced, ResultInv, Follows
  <2>5. CASE CloseRecorder
    BY <2>0, <2>5 DEF CloseRecorder, Exit, Worse, Probed, Balanced, ResultInv, ResultTypes,
                      Follows, AfterHTTP
  <2> QED
    BY <1>1, <2>1, <2>2, <2>3, <2>4, <2>5 DEF MainStep
<1>2. CASE Serving
  <2>1. UNCHANGED <<main, result, elapsed, listener, routed, probeAge>>
    BY <1>2 DEF Serving, Send, Answered, GoToProxy, ForwardFails, Forwarded, Copied,
                DialFails, Hijack, TunnelCloses, TunnelEnds, TaskStops, Flush, FlushEnds,
                othersVars, mainVars, balancerVars
  <2>2. \A r \in Request :
            conn'[r] = "refused" => conn[r] = "refused" \/ (routed /\ listener # "open")
    <3>1. ASSUME NEW r \in Request, RequestNext(r)
          PROVE  \E to : /\ Put(r, to)
                         /\ to = "refused" => routed /\ listener # "open"
      BY <3>1 DEF RequestNext, Send, Answered, GoToProxy, ForwardFails, Forwarded, Copied,
                  Ends, DialFails, Hijack, TunnelCloses, TunnelEnds
    <3>2. CASE UNCHANGED conn
      BY <3>2
    <3>3. (\E b \in Task : TaskStops(b)) \/ Flush \/ FlushEnds => UNCHANGED conn
      BY DEF TaskStops, Flush, FlushEnds
    <3> QED
      BY <1>2, <3>1, <3>2, <3>3 DEF Serving, RequestNext, Put, ResultInv, ResultTypes
  <2> QED
    BY <2>1, <2>2 DEF Probed, Balanced
<1>3. CASE SecondSignal
  BY <1>3 DEF SecondSignal, Exit, balancerVars, Probed, Balanced, ResultInv, ResultTypes
<1>4. CASE ListenerFails \/ Signal
  BY <1>4 DEF ListenerFails, Signal, mainVars, balancerVars, Probed, Balanced
<1>5. CASE Probe
  <2>1. UNCHANGED <<main, result, elapsed, listener, conn>> /\ probeAge' = 0
    BY <1>5 DEF Probe, mainVars
  <2>2. routed' => main = "serving" /\ listener = "open"
    BY <1>5, Zenon DEF Probe, Ready
  <2> QED
    BY <2>1, <2>2 DEF Probed, Balanced
<1>6. CASE ProcessTick
  BY <1>6 DEF ProcessTick, Probed, Balanced, WithinBudget
<1>7. CASE UNCHANGED processVars
  BY <1>7 DEF processVars, mainVars, balancerVars, Probed, Balanced
<1> QED
  BY <1>1, <1>2, <1>3, <1>4, <1>5, <1>6, <1>7 DEF ProcessNext

(* A load balancer that probes more often than a drain lasts sends nothing  *)
(* to a listener that the shutdown has closed (main.go: run; server.go:     *)
(* evaluateReadiness), for any budget and any interval.                    *)
THEOREM DrainRefusesNothing == ProcessSpec => []NoRequestRefused
<1> DEFINE Inv == ResultInv /\ WithinBudget /\ DrainInv
<1>1. ProcessInit => Inv
  BY ResultInvInit, WithinBudgetInit, DrainInvInit
<1>2. Inv /\ [ProcessNext]_processVars => Inv'
  BY ResultInvStep, WithinBudgetStep, DrainInvStep
<1>3. Inv => NoRequestRefused
  BY DEF DrainInv, Balanced, NoRequestRefused
<1> QED
  BY <1>1, <1>2, <1>3, PTL DEF ProcessSpec

-----------------------------------------------------------------------------
(***************************************************************************)
(* The ledger of events, for any calls, events, connections and stores.    *)
(***************************************************************************)

(* A transaction has a call, and works through its events. *)
JobTypes ==
    \A w \in Worker : UnderWay(w) =>
        /\ job[w] = [call |-> job[w].call, left |-> job[w].left, staged |-> job[w].staged]
        /\ job[w].call \in Call /\ job[w].left \in Seq(Event)

LedgerTypes ==
    /\ store \in Stores
    /\ events = [t \in Tables |-> events[t]] /\ taken = [t \in Tables |-> taken[t]]
    /\ DOMAIN job = Worker /\ DOMAIN answer = Call
    /\ JobTypes

Remaining(w) == {job[w].left[n] : n \in 1 .. Len(job[w].left)}

(* What is no longer left has no ID, or is staged, or is there. *)
NothingSkipped ==
    \A w \in Worker : UnderWay(w) =>
        /\ Remaining(w) \subseteq Listed(job[w].call)
        /\ \A e \in Named(job[w].call) :
              \/ e \in Remaining(w) \/ PrimaryKey(e) \in DOMAIN job[w].staged
              \/ Written(job[w].call, e)
        /\ \A k \in DOMAIN job[w].staged : job[w].staged[k] \in Named(job[w].call)

(* What is staged is in nobody's way. *)
StagedIsNew ==
    \A w \in Worker : UnderWay(w) =>
        /\ DOMAIN job[w].staged \intersect DOMAIN events[Table[job[w].call]] = {}
        /\ \A v \in Worker \ {w} :
              UnderWay(v) /\ Table[job[v].call] = Table[job[w].call]
                  => DOMAIN job[w].staged \intersect DOMAIN job[v].staged = {}

LedgerInv == LedgerTypes /\ NothingSkipped /\ StagedIsNew /\ WholeBatches

-----------------------------------------------------------------------------
LEMMA LedgerInvInit == LedgerInit => LedgerInv
<1> SUFFICES ASSUME LedgerInit PROVE LedgerInv
  OBVIOUS
<1>1. \A w \in Worker : ~UnderWay(w)
  BY DEF LedgerInit, UnderWay
<1>2. LedgerTypes
  BY <1>1 DEF LedgerInit, LedgerTypes, JobTypes
<1>3. WholeBatches
  BY LedgerAssumption DEF LedgerInit, WholeBatches
<1> QED
  BY <1>1, <1>2, <1>3 DEF LedgerInv, NothingSkipped, StagedIsNew

(* What is in a table or was taken from it counts for ever. *)
LEMMA WrittenStays ==
    ASSUME LedgerInv, [LedgerNext]_ledgerVars, NEW c \in Call, NEW e, Written(c, e)
    PROVE  Written(c, e)'
<1> USE LedgerAssumption DEF LedgerInv, LedgerTypes
<1>1. Table[c] \in Tables /\ UNCHANGED store /\ PrimaryKey(e)' = PrimaryKey(e)
  <2>1. UNCHANGED store
    BY DEF LedgerNext, MySQLAppend, SQLiteAppend, BeginAppend, InsertEvent, CommitAppend,
           AppendFails, Refuse, MemoryAppend, StartRetention, DeleteOld, CommitRetention,
           RetentionFails, ledgerVars
  <2> QED
    BY <2>1 DEF PrimaryKey
<1>2. CASE UNCHANGED <<events, taken>>
  BY <1>1, <1>2 DEF Written
<1>3. ASSUME NEW w \in Worker, CommitAppend(w) PROVE Written(c, e)'
  BY <1>1, <1>3 DEF CommitAppend, Written, Over
<1>4. ASSUME NEW d \in Call, MemoryAppend(d) PROVE Written(c, e)'
  BY <1>1, <1>4 DEF MemoryAppend, Written, Over
<1>5. CASE CommitRetention
  BY <1>1, <1>5 DEF CommitRetention, Written, Restrict
<1> QED
  BY <1>2, <1>3, <1>4, <1>5
     DEF LedgerNext, MySQLAppend, SQLiteAppend, BeginAppend, InsertEvent, AppendFails, Refuse,
         StartRetention, DeleteOld, RetentionFails, ledgerVars

LEMMA OverAt ==
    ASSUME NEW f, NEW g, NEW k \in DOMAIN f PROVE Over(f, g)[k] = f[k]
BY DEF Over

LEMMA HeadAndTail ==
    ASSUME NEW s \in Seq(Event), s # << >>
    PROVE  /\ Tail(s) \in Seq(Event)
           /\ {s[n] : n \in 1 .. Len(s)}
                 = {Head(s)} \union {Tail(s)[n] : n \in 1 .. Len(Tail(s))}
<1>1. /\ Tail(s) \in Seq(Event) /\ Len(Tail(s)) = Len(s) - 1 /\ Len(s) \in Nat /\ Len(s) > 0
      /\ Head(s) = s[1] /\ \A n \in 1 .. Len(s) - 1 : Tail(s)[n] = s[n + 1]
  OBVIOUS
<1>2. ASSUME NEW n \in 1 .. Len(s), n # 1
      PROVE  \E m \in 1 .. Len(Tail(s)) : Tail(s)[m] = s[n]
  <2>1. n - 1 \in 1 .. Len(Tail(s)) /\ Tail(s)[n - 1] = s[n]
    BY <1>1, <1>2
  <2> QED
    BY <2>1
<1> QED
  BY <1>1, <1>2

LEMMA HeardOf ==
    ASSUME LedgerInv, NEW c \in Call, NEW what, Hear(c, what)
    PROVE  /\ DOMAIN answer' = Call
           /\ \A d \in Call : answer'[d] = "accepted" =>
                 answer[d] = "accepted" \/ (d = c /\ what = "accepted")
BY DEF LedgerInv, LedgerTypes, Hear

(* What the reporters and the rows say stays true when no row is new. *)
LEMMA StaysWhole ==
    ASSUME LedgerInv, [LedgerNext]_ledgerVars,
           \A c \in Call : answer'[c] = "accepted" => answer[c] = "accepted" \/ Swallows(c),
           \A t \in Tables : \A k \in DOMAIN events'[t] :
               k \in DOMAIN events[t] /\ events'[t][k] = events[t][k]
    PROVE  WholeBatches'
<1> USE LedgerAssumption
<1>1. UNCHANGED store
  BY DEF LedgerNext, MySQLAppend, SQLiteAppend, BeginAppend, InsertEvent, CommitAppend,
         AppendFails, Refuse, MemoryAppend, StartRetention, DeleteOld, CommitRetention,
         RetentionFails, ledgerVars
<1>2. \A c \in Call : Named(c)' = Named(c) /\ (Swallows(c)' <=> Swallows(c)) /\ Table[c] \in Tables
  BY <1>1 DEF Named, Listed, Swallows
<1>3. ASSUME NEW c \in Call,
             \/ answer'[c] = "accepted" /\ ~Swallows(c)
             \/ \E k \in DOMAIN events'[Table[c]] : events'[Table[c]][k] \in Named(c),
             NEW e \in Named(c)
      PROVE  Written(c, e)'
  <2>1. \/ answer[c] = "accepted" /\ ~Swallows(c)
        \/ \E k \in DOMAIN events[Table[c]] : events[Table[c]][k] \in Named(c)
    BY <1>2, <1>3
  <2>2. Written(c, e)
    BY <2>1 DEF LedgerInv, WholeBatches
  <2> QED
    BY <2>2, WrittenStays
<1> QED
  BY <1>2, <1>3, Zenon DEF WholeBatches

-----------------------------------------------------------------------------
(* A step of a transaction                                                 *)

LEMMA BeginKeepsInv ==
    ASSUME LedgerInv, NEW w \in Worker, NEW c \in Call, BeginAppend(w, c), [LedgerNext]_ledgerVars
    PROVE  LedgerInv'
<1> USE LedgerAssumption DEF LedgerInv, LedgerTypes
<1> DEFINE new == [call |-> c, left |-> Events[c], staged |-> << >>]
<1>1. /\ UNCHANGED <<store, events, taken>> /\ ~UnderWay(w)
      /\ job' = [job EXCEPT ![w] = new]
  BY DEF BeginAppend
<1>2. /\ DOMAIN answer' = Call
      /\ \A d \in Call : answer'[d] = "accepted" => answer[d] = "accepted"
  BY HeardOf DEF BeginAppend
<1>3. WholeBatches'
  BY <1>1, <1>2, StaysWhole
<1>4. /\ job'[w] = new /\ DOMAIN job' = Worker
      /\ \A v \in Worker \ {w} : job'[v] = job[v] /\ UnderWay(v)' = UnderWay(v)
  BY <1>1 DEF UnderWay
<1>5. DOMAIN new.staged = {} /\ new.left \in Seq(Event)
  OBVIOUS
<1>6. LedgerTypes'
  BY <1>1, <1>2, <1>4 DEF JobTypes, UnderWay
<1>7. \A d \in Call : \A e : PrimaryKey(e)' = PrimaryKey(e) /\ Named(d)' = Named(d)
                                 /\ Listed(d)' = Listed(d) /\ Written(d, e)' = Written(d, e)
  BY <1>1 DEF PrimaryKey, Named, Listed, Written
<1>8. NothingSkipped'
  <2>1. Remaining(w)' = Listed(c)
    BY <1>4 DEF Remaining, Listed
  <2>2. \A v \in Worker \ {w} : Remaining(v)' = Remaining(v)
    BY <1>4 DEF Remaining
  <2>3. Named(c) \subseteq Listed(c)
    BY DEF Named
  <2>4. job'[w].call = c
    BY <1>4
  <2>5. ASSUME NEW v \in Worker, UnderWay(v)'
        PROVE  /\ Remaining(v)' \subseteq Listed(job'[v].call)
               /\ \A e \in Named(job'[v].call) :
                     \/ e \in Remaining(v)' \/ PrimaryKey(e) \in DOMAIN job'[v].staged
                     \/ Written(job'[v].call, e)
               /\ \A k \in DOMAIN job'[v].staged : job'[v].staged[k] \in Named(job'[v].call)
    <3>1. CASE v = w
      BY <1>4, <1>5, <2>1, <2>3, <2>4, <3>1
    <3>2. CASE v # w
      <4>1. /\ job'[v] = job[v] /\ UnderWay(v) /\ Remaining(v)' = Remaining(v)
        BY <1>4, <2>2, <2>5, <3>2
      <4>2. /\ Remaining(v) \subseteq Listed(job[v].call)
            /\ \A e \in Named(job[v].call) :
                  \/ e \in Remaining(v) \/ PrimaryKey(e) \in DOMAIN job[v].staged
                  \/ Written(job[v].call, e)
            /\ \A k \in DOMAIN job[v].staged : job[v].staged[k] \in Named(job[v].call)
        BY <4>1 DEF NothingSkipped
      <4> QED
        BY <4>1, <4>2, Zenon
    <3> QED
      BY <3>1, <3>2
  <2>6. \A v \in Worker : UnderWay(v)' => job'[v].call \in Call
    BY <1>6 DEF JobTypes
  <2> QED
    BY <1>7, <2>5, <2>6 DEF NothingSkipped
<1>9. StagedIsNew'
  BY <1>1, <1>4, <1>5 DEF StagedIsNew
<1> QED
  BY <1>3, <1>6, <1>8, <1>9

LEMMA InsertKeepsInv ==
    ASSUME LedgerInv, NEW w \in Worker, InsertEvent(w), [LedgerNext]_ledgerVars
    PROVE  LedgerInv'
<1> USE LedgerAssumption DEF LedgerInv, LedgerTypes
<1> DEFINE c == job[w].call
           e == Head(job[w].left)
           t == Table[job[w].call]
           held == DOMAIN job[w].staged \union DOMAIN events[t]
           passed == EventID[e] = NoID \/ PrimaryKey(e) \in held
           new == [call |-> c, left |-> Tail(job[w].left),
                   staged |-> IF passed THEN job[w].staged ELSE Over(job[w].staged, RowOf(e))]
<1>1. /\ UNCHANGED <<store, events, answer, taken>> /\ UnderWay(w) /\ job[w].left # << >>
      /\ ~Blocked(w, PrimaryKey(e))
  BY DEF InsertEvent
<1>2. /\ c \in Call /\ job[w].left \in Seq(Event) /\ t \in Tables
      /\ job[w] = [call |-> c, left |-> job[w].left, staged |-> job[w].staged]
  BY <1>1 DEF JobTypes
<1>3. job' = [job EXCEPT ![w] = new]
  BY DEF InsertEvent
<1>4. /\ job'[w] = new /\ DOMAIN job' = Worker
      /\ \A v \in Worker \ {w} : job'[v] = job[v] /\ UnderWay(v)' = UnderWay(v)
  BY <1>3 DEF UnderWay
<1>5. /\ Tail(job[w].left) \in Seq(Event)
      /\ Remaining(w) = {e} \union Remaining(w)'
  <2>1. job'[w].left = Tail(job[w].left)
    BY <1>4
  <2> DEFINE l == job[w].left
  <2>2. l \in Seq(Event) /\ l # << >> /\ e = Head(l) /\ job'[w].left = Tail(l)
    BY <1>1, <1>2, <2>1
  <2>3. Remaining(w) = {l[n] : n \in 1 .. Len(l)}
    BY DEF Remaining
  <2>4. Remaining(w)' = {Tail(l)[n] : n \in 1 .. Len(Tail(l))}
    BY <2>2 DEF Remaining
  <2>5. Tail(l) \in Seq(Event)
    BY <2>2
  <2>6. Remaining(w) = {e} \union Remaining(w)'
    <3> HIDE DEF l, e
    <3> QED
      BY <2>2, <2>3, <2>4, HeadAndTail
  <2> QED
    BY <2>5, <2>6
<1>6. WholeBatches'
  BY <1>1, StaysWhole
<1>7. LedgerTypes'
  <2>1. /\ new = [call |-> new.call, left |-> new.left, staged |-> new.staged]
        /\ new.call \in Call /\ new.left \in Seq(Event)
    BY <1>2, <1>5
  <2> HIDE DEF new
  <2> QED
    BY <1>1, <1>4, <2>1 DEF JobTypes
<1>8. \A d \in Call : \A f : PrimaryKey(f)' = PrimaryKey(f) /\ Named(d)' = Named(d)
                         /\ Listed(d)' = Listed(d) /\ Written(d, f)' = Written(d, f)
  BY <1>1 DEF PrimaryKey, Named, Listed, Written
<1>9. /\ DOMAIN new.staged = DOMAIN job[w].staged \union (IF passed THEN {} ELSE {PrimaryKey(e)})
      /\ \A k \in DOMAIN new.staged :
            new.staged[k] = IF k \in DOMAIN job[w].staged THEN job[w].staged[k] ELSE e
  BY DEF Over, RowOf
<1>10. e \in Listed(c) /\ (EventID[e] # NoID => e \in Named(c))
  BY <1>1, <1>5 DEF NothingSkipped, Named
<1>11. NothingSkipped'
  <2>1. ASSUME NEW v \in Worker, UnderWay(v)'
        PROVE  /\ Remaining(v)' \subseteq Listed(job'[v].call)
               /\ \A f \in Named(job'[v].call) :
                     \/ f \in Remaining(v)' \/ PrimaryKey(f) \in DOMAIN job'[v].staged
                     \/ Written(job'[v].call, f)
               /\ \A k \in DOMAIN job'[v].staged : job'[v].staged[k] \in Named(job'[v].call)
    <3>1. CASE v = w
      <4>1. job'[v].call = c /\ job'[v].staged = new.staged
        BY <1>4, <3>1
      <4>2. Remaining(v)' \subseteq Listed(c)
        BY <1>1, <1>5, <3>1 DEF NothingSkipped
      <4>3. \A k \in DOMAIN new.staged : new.staged[k] \in Named(c)
        BY <1>1, <1>9, <1>10 DEF NothingSkipped
      <4>4. ASSUME NEW f \in Named(c)
            PROVE  \/ f \in Remaining(v)' \/ PrimaryKey(f) \in DOMAIN new.staged
                   \/ Written(c, f)
        <5>1. \/ f = e \/ f \in Remaining(w)' \/ PrimaryKey(f) \in DOMAIN job[w].staged
              \/ Written(c, f)
          BY <1>1, <1>5 DEF NothingSkipped
        <5>2. CASE f = e
          <6>1. EventID[e] # NoID
            BY <5>2 DEF Named
          <6> QED
            BY <1>9, <5>2, <6>1 DEF Written
        <5> QED
          BY <1>9, <3>1, <5>1, <5>2
      <4> QED
        BY <4>1, <4>2, <4>3, <4>4
    <3>2. CASE v # w
      <4>1. Remaining(v)' = Remaining(v)
        BY <1>4, <3>2 DEF Remaining
      <4> QED
        BY <1>4, <2>1, <3>2, <4>1 DEF NothingSkipped
    <3> QED
      BY <3>1, <3>2
  <2>2. \A v \in Worker : UnderWay(v)' => job'[v].call \in Call
    BY <1>7 DEF JobTypes
  <2> QED
    BY <1>8, <2>1, <2>2 DEF NothingSkipped
<1>12. StagedIsNew'
  <2>1. DOMAIN new.staged \intersect DOMAIN events[t] = {}
    BY <1>1, <1>9 DEF StagedIsNew
  <2>2. ASSUME NEW v \in Worker \ {w}, UnderWay(v), Table[job[v].call] = t
        PROVE  DOMAIN new.staged \intersect DOMAIN job[v].staged = {}
    <3>1. PrimaryKey(e) \notin DOMAIN job[v].staged
      BY <1>1, <2>2 DEF Blocked
    <3>2. DOMAIN job[w].staged \intersect DOMAIN job[v].staged = {}
      BY <1>1, <2>2 DEF StagedIsNew
    <3> HIDE DEF new, e, passed
    <3> QED
      BY <1>9, <3>1, <3>2
  <2>3. new.call = c /\ job'[w].call = c /\ job'[w].staged = new.staged
    BY <1>4
  <2>4. Table[job'[w].call] = t /\ UNCHANGED events
    BY <1>1, <2>3
  <2> HIDE DEF new, c, t
  <2>5. ASSUME NEW v \in Worker, UnderWay(v)', NEW u \in Worker \ {v}, UnderWay(u)',
               Table[job'[u].call] = Table[job'[v].call]
        PROVE  DOMAIN job'[v].staged \intersect DOMAIN job'[u].staged = {}
    <3>1. CASE v # w /\ u # w
      BY <1>4, <2>5, <3>1 DEF StagedIsNew
    <3>2. CASE v = w
      BY <1>4, <2>2, <2>3, <2>4, <2>5, <3>2
    <3>3. CASE u = w
      BY <1>4, <2>2, <2>3, <2>4, <2>5, <3>3
    <3> QED
      BY <3>1, <3>2, <3>3
  <2>6. ASSUME NEW v \in Worker, UnderWay(v)'
        PROVE  DOMAIN job'[v].staged \intersect DOMAIN events'[Table[job'[v].call]] = {}
    BY <1>4, <2>1, <2>3, <2>4, <2>6 DEF StagedIsNew
  <2> QED
    BY <2>5, <2>6 DEF StagedIsNew
<1> QED
  BY <1>6, <1>7, <1>11, <1>12

(* The transaction of w ends; the others go on as they were. *)
LEMMA EndKeepsOthers ==
    ASSUME LedgerInv, [LedgerNext]_ledgerVars, NEW w \in Worker, UnderWay(w),
           job' = [job EXCEPT ![w] = NoJob], UNCHANGED <<store, taken>>,
           \/ UNCHANGED events
           \/ /\ job[w].left = << >>
              /\ events' = [events EXCEPT ![Table[job[w].call]] = Over(job[w].staged, @)]
    PROVE  JobTypes' /\ NothingSkipped' /\ StagedIsNew'
<1> USE LedgerAssumption DEF LedgerInv, LedgerTypes
<1>1. /\ ~UnderWay(w)' /\ DOMAIN job' = Worker
      /\ \A v \in Worker \ {w} : job'[v] = job[v] /\ UnderWay(v)' = UnderWay(v)
                                 /\ Remaining(v)' = Remaining(v)
  BY DEF UnderWay, Remaining
<1>2. JobTypes'
  BY <1>1 DEF JobTypes
<1>3. \A d \in Call : \A e : PrimaryKey(e)' = PrimaryKey(e) /\ Named(d)' = Named(d)
                         /\ Listed(d)' = Listed(d)
  BY DEF PrimaryKey, Named, Listed
<1>4. NothingSkipped'
  <2>1. \A v \in Worker \ {w} : UnderWay(v) => job[v].call \in Call
    BY DEF JobTypes
  <2>2. \A v \in Worker \ {w} : UnderWay(v) =>
            \A e : Written(job[v].call, e) => Written(job[v].call, e)'
    BY <2>1, WrittenStays
  <2>3. ASSUME NEW v \in Worker, UnderWay(v)'
        PROVE  /\ job'[v].call \in Call
               /\ Remaining(v)' \subseteq Listed(job'[v].call)
               /\ \A e \in Named(job'[v].call) :
                     \/ e \in Remaining(v)' \/ PrimaryKey(e) \in DOMAIN job'[v].staged
                     \/ Written(job[v].call, e)'
               /\ \A k \in DOMAIN job'[v].staged : job'[v].staged[k] \in Named(job'[v].call)
    <3>1. v # w /\ UnderWay(v)
      BY <1>1, <2>3
    <3>2. job'[v] = job[v] /\ Remaining(v)' = Remaining(v)
      BY <1>1, <3>1
    <3>3. /\ Remaining(v) \subseteq Listed(job[v].call)
          /\ \A e \in Named(job[v].call) :
                \/ e \in Remaining(v) \/ PrimaryKey(e) \in DOMAIN job[v].staged
                \/ Written(job[v].call, e)
          /\ \A k \in DOMAIN job[v].staged : job[v].staged[k] \in Named(job[v].call)
      BY <3>1 DEF NothingSkipped
    <3>4. \A e : Written(job[v].call, e) => Written(job[v].call, e)'
      BY <2>2, <3>1
    <3> QED
      BY <2>1, <3>1, <3>2, <3>3, <3>4
  <2> QED
    BY <1>3, <2>3 DEF NothingSkipped
<1>5. StagedIsNew'
  <2>1. ASSUME NEW v \in Worker \ {w}, UnderWay(v)
        PROVE  DOMAIN job[v].staged \intersect DOMAIN events'[Table[job[v].call]] = {}
    <3>1. DOMAIN events' = Tables /\ Table[job[v].call] \in Tables
      BY <2>1 DEF JobTypes
    <3>2. DOMAIN job[v].staged \intersect DOMAIN events[Table[job[v].call]] = {}
      BY <2>1 DEF StagedIsNew
    <3>3. Table[job[v].call] = Table[job[w].call]
              => DOMAIN job[v].staged \intersect DOMAIN job[w].staged = {}
      BY <2>1 DEF StagedIsNew
    <3> QED
      BY <3>1, <3>2, <3>3 DEF Over
  <2> QED
    BY <1>1, <2>1 DEF StagedIsNew
<1> QED
  BY <1>2, <1>4, <1>5

(* All of a batch comes at once: its events are of no other call. *)
LEMMA BatchKeepsWhole ==
    ASSUME LedgerInv, [LedgerNext]_ledgerVars, NEW c \in Call, NEW written,
           events' = [events EXCEPT ![Table[c]] = Over(written, @)],
           UNCHANGED <<store, taken>>,
           \A d \in Call : answer'[d] = "accepted" => answer[d] = "accepted" \/ d = c,
           \A k \in DOMAIN written : written[k] \in Named(c),
           \A e \in Named(c) : PrimaryKey(e) \in DOMAIN written \/ Written(c, e)
    PROVE  WholeBatches'
<1> USE LedgerAssumption DEF LedgerInv, LedgerTypes
<1>1. \A d \in Call : Named(d)' = Named(d) /\ (Swallows(d)' <=> Swallows(d)) /\ Table[d] \in Tables
  BY DEF Named, Listed, Swallows
<1>2. \A e : PrimaryKey(e)' = PrimaryKey(e)
  BY DEF PrimaryKey
<1>3. \A e \in Named(c) : Written(c, e)'
  BY <1>1, <1>2, WrittenStays DEF Written, Over
<1>4. \A d \in Call, e \in Named(c) : e \in Named(d) => d = c
  BY DEF Named, Listed
<1>5. ASSUME NEW d \in Call, d # c,
             \/ answer'[d] = "accepted" /\ ~Swallows(d)
             \/ \E k \in DOMAIN events'[Table[d]] : events'[Table[d]][k] \in Named(d),
             NEW e \in Named(d)
      PROVE  Written(d, e)'
  <2>1. \/ answer[d] = "accepted" /\ ~Swallows(d)
        \/ \E k \in DOMAIN events[Table[d]] : events[Table[d]][k] \in Named(d)
    <3>1. CASE answer'[d] = "accepted" /\ ~Swallows(d)
      BY <1>5, <3>1
    <3>2. ASSUME NEW k \in DOMAIN events'[Table[d]], events'[Table[d]][k] \in Named(d)
          PROVE  k \in DOMAIN events[Table[d]] /\ events[Table[d]][k] \in Named(d)
      <4>1. CASE Table[d] # Table[c]
        BY <1>1, <3>2, <4>1
      <4>2. CASE Table[d] = Table[c]
        <5>1. events'[Table[d]] = Over(written, events[Table[d]])
          BY <1>1, <4>2
        <5>2. ASSUME k \in DOMAIN written PROVE FALSE
          <6>1. events'[Table[d]][k] = written[k]
            BY <5>1, <5>2, OverAt
          <6>2. written[k] \in Named(c)
            BY <5>2
          <6> QED
            BY <1>4, <1>5, <3>2, <6>1, <6>2
        <5> QED
          BY <3>2, <5>1, <5>2 DEF Over
      <4> QED
        BY <4>1, <4>2
    <3> QED
      BY <1>5, <3>1, <3>2
  <2>2. Written(d, e)
    BY <2>1 DEF WholeBatches
  <2> QED
    BY <2>2, WrittenStays
<1> QED
  BY <1>1, <1>3, <1>5, Zenon DEF WholeBatches

LEMMA CommitKeepsInv ==
    ASSUME LedgerInv, NEW w \in Worker, CommitAppend(w), [LedgerNext]_ledgerVars
    PROVE  LedgerInv'
<1> USE LedgerAssumption DEF LedgerInv, LedgerTypes
<1> DEFINE c == job[w].call
<1>1. /\ UNCHANGED <<store, taken>> /\ UnderWay(w) /\ job[w].left = << >>
      /\ events' = [events EXCEPT ![Table[c]] = Over(job[w].staged, @)]
      /\ job' = [job EXCEPT ![w] = NoJob]
      /\ Hear(c, "accepted") \/ Hear(c, "failed")
  BY DEF CommitAppend
<1>2. c \in Call
  BY <1>1 DEF JobTypes
<1>3. /\ DOMAIN answer' = Call
      /\ \A d \in Call : answer'[d] = "accepted" => answer[d] = "accepted" \/ d = c
  BY <1>1, <1>2, HeardOf
<1>4. Remaining(w) = {}
  BY <1>1 DEF Remaining
<1>5. /\ \A k \in DOMAIN job[w].staged : job[w].staged[k] \in Named(c)
      /\ \A e \in Named(c) : PrimaryKey(e) \in DOMAIN job[w].staged \/ Written(c, e)
  BY <1>1, <1>4 DEF NothingSkipped
<1>6. WholeBatches'
  <2> HIDE DEF c
  <2> QED
    BY <1>1, <1>2, <1>3, <1>5, BatchKeepsWhole
<1>7. JobTypes' /\ NothingSkipped' /\ StagedIsNew'
  BY <1>1, EndKeepsOthers
<1> QED
  BY <1>1, <1>3, <1>6, <1>7

LEMMA FailureKeepsInv ==
    ASSUME LedgerInv, NEW w \in Worker, AppendFails(w), [LedgerNext]_ledgerVars
    PROVE  LedgerInv'
<1> USE LedgerAssumption DEF LedgerInv, LedgerTypes
<1>1. /\ UNCHANGED <<store, events, taken>> /\ UnderWay(w)
      /\ job' = [job EXCEPT ![w] = NoJob] /\ job[w].call \in Call
  BY DEF AppendFails, JobTypes
<1>2. /\ DOMAIN answer' = Call
      /\ \A d \in Call : answer'[d] = "accepted" => answer[d] = "accepted" \/ Swallows(d)
  BY <1>1, HeardOf DEF AppendFails
<1>3. WholeBatches'
  BY <1>1, <1>2, StaysWhole
<1>4. JobTypes' /\ NothingSkipped' /\ StagedIsNew'
  BY <1>1, EndKeepsOthers
<1> QED
  BY <1>1, <1>2, <1>3, <1>4

-----------------------------------------------------------------------------
(* Steps of no transaction                                                 *)

(* Nothing new is in the tables, and the transactions do not move. *)
LEMMA JobsStay ==
    ASSUME LedgerInv, [LedgerNext]_ledgerVars, UNCHANGED <<store, job>>,
           events' = [t \in Tables |-> events'[t]], taken' = [t \in Tables |-> taken'[t]],
           \A w \in Worker, t \in Tables :
               UnderWay(w) => DOMAIN events'[t] \subseteq DOMAIN events[t],
           DOMAIN answer' = Call
    PROVE  LedgerTypes' /\ NothingSkipped' /\ StagedIsNew'
<1> USE LedgerAssumption DEF LedgerInv, LedgerTypes
<1>1. LedgerTypes'
  BY DEF JobTypes, UnderWay
<1>2. \A d \in Call : \A e : PrimaryKey(e)' = PrimaryKey(e) /\ Named(d)' = Named(d)
                         /\ Listed(d)' = Listed(d)
  BY DEF PrimaryKey, Named, Listed
<1>3. \A w \in Worker : UnderWay(w)' = UnderWay(w) /\ Remaining(w)' = Remaining(w)
  BY DEF UnderWay, Remaining
<1>4. \A w \in Worker : UnderWay(w) => job[w].call \in Call /\ Table[job[w].call] \in Tables
  BY DEF JobTypes
<1>5. \A w \in Worker : UnderWay(w) => \A e : Written(job[w].call, e) => Written(job[w].call, e)'
  BY <1>4, WrittenStays
<1>6. NothingSkipped'
  <2>1. ASSUME NEW v \in Worker, UnderWay(v)'
        PROVE  /\ job'[v].call \in Call
               /\ Remaining(v)' \subseteq Listed(job'[v].call)
               /\ \A e \in Named(job'[v].call) :
                     \/ e \in Remaining(v)' \/ PrimaryKey(e) \in DOMAIN job'[v].staged
                     \/ Written(job[v].call, e)'
               /\ \A k \in DOMAIN job'[v].staged : job'[v].staged[k] \in Named(job'[v].call)
    <3>1. UnderWay(v) /\ job'[v] = job[v] /\ Remaining(v)' = Remaining(v)
      BY <1>3, <2>1
    <3>2. /\ Remaining(v) \subseteq Listed(job[v].call)
          /\ \A e \in Named(job[v].call) :
                \/ e \in Remaining(v) \/ PrimaryKey(e) \in DOMAIN job[v].staged
                \/ Written(job[v].call, e)
          /\ \A k \in DOMAIN job[v].staged : job[v].staged[k] \in Named(job[v].call)
      BY <3>1 DEF NothingSkipped
    <3>3. \A e : Written(job[v].call, e) => Written(job[v].call, e)'
      BY <1>5, <3>1
    <3> QED
      BY <1>4, <3>1, <3>2, <3>3
  <2> QED
    BY <1>2, <2>1 DEF NothingSkipped
<1>7. StagedIsNew'
  BY <1>3, <1>4 DEF StagedIsNew
<1> QED
  BY <1>1, <1>6, <1>7

(* The memory store has no transactions. *)
NoJobs == store = "memory" => \A w \in Worker : ~UnderWay(w)

LEMMA NoJobsStep == ASSUME LedgerInv, NoJobs, [LedgerNext]_ledgerVars PROVE NoJobs'
BY DEF LedgerInv, LedgerTypes, NoJobs, LedgerNext, MySQLAppend, SQLiteAppend, BeginAppend,
       InsertEvent, CommitAppend, AppendFails, Refuse, MemoryAppend, StartRetention, DeleteOld,
       CommitRetention, RetentionFails, ledgerVars, UnderWay

LEMMA MemoryKeepsInv ==
    ASSUME LedgerInv, NoJobs, NEW c \in Call, MemoryAppend(c), [LedgerNext]_ledgerVars
    PROVE  LedgerInv'
<1> USE LedgerAssumption DEF LedgerInv, LedgerTypes
<1>1. PICK latest \in [{PrimaryKey(e) : e \in Named(c)} -> Named(c)] :
          events' = [events EXCEPT ![Table[c]] = Over(latest, @)]
  BY DEF MemoryAppend
<1>2. UNCHANGED <<store, job, taken>> /\ \A w \in Worker : ~UnderWay(w)
  BY DEF MemoryAppend, NoJobs
<1>3. /\ DOMAIN answer' = Call
      /\ \A d \in Call : answer'[d] = "accepted" => answer[d] = "accepted" \/ d = c
  BY HeardOf DEF MemoryAppend
<1>4. WholeBatches'
  <2>1. /\ \A k \in DOMAIN latest : latest[k] \in Named(c)
        /\ \A e \in Named(c) : PrimaryKey(e) \in DOMAIN latest
    OBVIOUS
  <2> QED
    BY <1>1, <1>2, <1>3, <2>1, BatchKeepsWhole
<1>5. events' = [t \in Tables |-> events'[t]] /\ taken' = [t \in Tables |-> taken'[t]]
  BY <1>1, <1>2
<1> QED
  BY <1>2, <1>3, <1>4, <1>5, JobsStay

LEMMA RetentionKeepsInv ==
    ASSUME LedgerInv, CommitRetention, [LedgerNext]_ledgerVars
    PROVE  LedgerInv'
<1> USE LedgerAssumption DEF LedgerInv, LedgerTypes
<1>1. /\ UNCHANGED <<store, job, answer>>
      /\ \A t \in Tables : \A k \in DOMAIN events'[t] :
            k \in DOMAIN events[t] /\ events'[t][k] = events[t][k]
  BY DEF CommitRetention, Restrict
<1>2. events' = [t \in Tables |-> events'[t]] /\ taken' = [t \in Tables |-> taken'[t]]
  BY DEF CommitRetention
<1>3. WholeBatches'
  BY <1>1, StaysWhole
<1> QED
  BY <1>1, <1>2, <1>3, JobsStay

LEMMA LedgerInvStep ==
    LedgerInv /\ NoJobs /\ [LedgerNext]_ledgerVars => LedgerInv' /\ NoJobs'
<1> SUFFICES ASSUME LedgerInv, NoJobs, [LedgerNext]_ledgerVars PROVE LedgerInv'
  BY NoJobsStep
<1>1. ASSUME UNCHANGED <<store, events, job, taken>>, DOMAIN answer' = Call,
             \A c \in Call : answer'[c] = "accepted" => answer[c] = "accepted"
      PROVE  LedgerInv'
  <2>1. WholeBatches'
    BY <1>1, StaysWhole
  <2>2. LedgerTypes' /\ NothingSkipped' /\ StagedIsNew'
    BY <1>1, JobsStay DEF LedgerInv, LedgerTypes
  <2> QED
    BY <2>1, <2>2 DEF LedgerInv
<1>2. ASSUME NEW c \in Call, Refuse(c) PROVE LedgerInv'
  BY <1>1, <1>2, HeardOf DEF Refuse
<1>3. CASE StartRetention \/ DeleteOld \/ RetentionFails \/ UNCHANGED ledgerVars
  BY <1>1, <1>3 DEF StartRetention, DeleteOld, RetentionFails, ledgerVars, LedgerInv, LedgerTypes
<1>4. ASSUME NEW w \in Worker, MySQLAppend(w) \/ SQLiteAppend(w) PROVE LedgerInv'
  BY <1>4, BeginKeepsInv, InsertKeepsInv, CommitKeepsInv, FailureKeepsInv
     DEF MySQLAppend, SQLiteAppend
<1> QED
  BY <1>2, <1>3, <1>4, MemoryKeepsInv, RetentionKeepsInv DEF LedgerNext

LEMMA LedgerInvAlways == LedgerSpec => [](LedgerInv /\ NoJobs)
<1>1. LedgerInit => NoJobs
  BY DEF LedgerInit, NoJobs, UnderWay
<1> QED
  BY <1>1, LedgerInvInit, LedgerInvStep, PTL DEF LedgerSpec

(* A batch of events is written whole or not at all, whatever the store and *)
(* however its attempts fail, are repeated and overlap (sqlite.go, mysql.go, *)
(* memory.go: AppendUsageEvents, AppendAuditEvents).                       *)
THEOREM BatchesAreWhole == LedgerSpec => []WholeBatches
<1>1. LedgerInv => WholeBatches
  BY DEF LedgerInv
<1> QED
  BY <1>1, LedgerInvAlways, PTL

(* The tables keep what an event said first until the retention takes it   *)
(* (ops.go: runSQLiteRetention).                                           *)
THEOREM RowsStayAsTheyAre == LedgerSpec => RowsAreFinal
<1> DEFINE Final == store # "memory" =>
               \A t \in Tables : \A k \in DOMAIN events[t] :
                   IF k \in DOMAIN events'[t] THEN events'[t][k] = events[t][k]
                   ELSE events[t][k] \in Old
<1>1. LedgerInv /\ [LedgerNext]_ledgerVars => [Final]_ledgerVars
  <2> SUFFICES ASSUME LedgerInv, LedgerNext PROVE Final
    BY DEF ledgerVars
  <2> USE DEF LedgerInv, LedgerTypes
  <2>1. ASSUME NEW w \in Worker, CommitAppend(w) PROVE Final
    BY <2>1 DEF CommitAppend, StagedIsNew, Over
  <2>2. CASE CommitRetention
    BY <2>2 DEF CommitRetention, Restrict, OldKeys
  <2>3. CASE UNCHANGED events
    BY <2>3
  <2> QED
    BY <2>1, <2>2, <2>3
       DEF LedgerNext, MySQLAppend, SQLiteAppend, BeginAppend, InsertEvent, AppendFails, Refuse,
           MemoryAppend, StartRetention, DeleteOld, RetentionFails
<1> QED
  BY <1>1, LedgerInvAlways, PTL DEF LedgerSpec, RowsAreFinal
=============================================================================
