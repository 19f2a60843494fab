---------------------------- MODULE MCBackground ----------------------------
(***************************************************************************)
(* The long jobs: BackupCoordinator, Migration, VaultMove, and the bulk    *)
(* operations of BulkOperation where the user starts one while a cancelled *)
(* one still unwinds.  They share neither state nor commands here, so one  *)
(* run checks each of them with the others at rest, whichever the initial  *)
(* state picks: interleaving them would add only combinations of states    *)
(* already seen.                                                           *)
(***************************************************************************)
EXTENDS MCBackupCoordinator

CONSTANTS
    NFolders, Size, Id, Folded, Transports, MaxRuns, MaxFaults, Env,   \* Migration's
    Home, Drives, Letters, Initially, MaxMoves, MaxMishaps,        \* VaultMove's
    Inbox, Second, Uid, Torn                                    \* BulkOperation's

VARIABLES
    job,                                                        \* which runs
    transport, runs, newest, file, copies, failed, unlisted, doubt, faults,
    files, dirs, marker, config, root, plugged, movers, arriving, received,
    excused, stray, tally,
    op, cancelled, starts, token, flagged, pendingFile, clearing, banner, view,
    removedBy, vault, selected, askedAt, flying, unsaved, cancels, crashes

migrationVars == <<transport, runs, newest, file, copies, failed, unlisted, doubt, faults>>

vaultVars == <<files, dirs, marker, config, root, plugged, movers, arriving,
               received, excused, stray, tally>>

bulkVars == <<op, cancelled, starts, token, flagged, pendingFile, clearing, banner, view,
              removedBy, vault, selected, askedAt, flying, unsaved, cancels, crashes>>

M == INSTANCE MigrationProofs
V == INSTANCE VaultMoveProofs
B == INSTANCE BulkOperationProofs WITH
        runs <- starts, Mailbox <- {Inbox, Second},
        Types <- {"archive", "archive_and_delete"},
        Env <- {"overlap", "cancel"},
        MaxRuns <- 2, MaxCancels <- 1, MaxCrashes <- 0

ASSUME JobsAssumption ==
    /\ M!MigrationAssumption /\ V!VaultAssumption
    /\ B!ConstantsAssumption /\ B!NoneAssumption

const_Size == <<2, 2>>

(* The two messages of the first folder share a Message-ID; of the second  *)
(* folder's, one is folded and one has none.                               *)
const_Id ==
    [m \in (1 .. 2) \X (1 .. 2) |->
        CASE m[1] = 1 -> "shared" [] m = <<2, 1>> -> "own" [] OTHER -> None]
const_Folded == {<<2, 1>>}

JobInit ==
    /\ Init /\ M!Init /\ V!Init /\ B!Init
    /\ \/ job = "migration"
       \/ /\ job \in {"backup", "vault", "bulk"}
          /\ transport = (CHOOSE t \in Transports : TRUE) /\ runs[1].token

BackupStep == job = "backup" /\ Next /\ UNCHANGED <<job, migrationVars, vaultVars, bulkVars>>

MigrationStep == job = "migration" /\ M!Next /\ UNCHANGED <<job, vars, vaultVars, bulkVars>>

(* The drives are alike, so nothing is lost where the first move, if not   *)
(* back home, is to the one chosen here.                                   *)
VaultStep ==
    /\ job = "vault" /\ V!Next
    /\ movers'[1].dst \in {Home, CHOOSE d \in Drives : TRUE}
    /\ UNCHANGED <<job, vars, migrationVars, bulkVars>>

(* Only a start() reads the mailbox on screen here, so it changes only     *)
(* between the two: once, after the first operation was cancelled.         *)
BulkStep ==
    /\ job = "bulk" /\ B!Next
    /\ view' # view => cancelled /\ view = Inbox
    /\ UNCHANGED <<job, vars, migrationVars, vaultVars>>

JobNext == BackupStep \/ MigrationStep \/ VaultStep \/ BulkStep

JobVars == <<job, vars, migrationVars, vaultVars, bulkVars>>

JobSpec ==
    /\ JobInit /\ [][JobNext]_JobVars
    /\ WF_vars(job = "backup" /\ System)
    /\ WF_migrationVars(job = "migration" /\ M!System)

(* The types of the jobs; of the bulk operations BulkSafety.cfg checks it. *)
JobsTypeOK == TypeOK /\ M!TypeOK /\ V!TypeOK

(* Migration's: what is called completed has been copied (migration.rs:    *)
(* 1295-1330).                                                             *)
CompletedIsCopied == M!CompletedIsCopied

(* Migration's: nothing is copied twice unseen (migration.rs:930-959).     *)
NothingTwice == M!NothingTwice

(* Migration's: a cancel lets one more message through (migration.rs:866). *)
CancelStops == M!CancelStops

(* VaultMove's: moves, crashes and drives that come and go lose no message *)
(* and the place in use has them all (vault.rs:167, 426, 428).             *)
VaultKeepsMail == V!VaultKeepsMail

(* BulkOperation's, where runs overlap: no message leaves the server that  *)
(* the user did not choose to delete (BulkOperationManager.js:37, 68).     *)
DeletedWasChosen == B!DeletedWasSelected

(* Migration's RunsEnd, where it is the migration that runs.               *)
RunsEnd == []<>(job = "migration" => M!AtRest)
=============================================================================
