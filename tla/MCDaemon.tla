------------------------------- MODULE MCDaemon -------------------------------
(***************************************************************************)
(* The two machines that stand between the app and the IMAP server: the    *)
(* connection pool (ImapPool) and the sync of a mailbox into the header    *)
(* cache (HeaderSync).  A sync sees of the pool only that it may get no    *)
(* session, which HeaderSync has (Fails); so one run checks each with the  *)
(* other at rest, whichever the initial state picks.                       *)
(***************************************************************************)
EXTENDS MCImapPool

CONSTANTS MaxUid, PageSize, MaxGap, Syncs, MaxChanges, MaxFaults    \* HeaderSync's

VARIABLES
    job,                                                            \* which runs
    condstore, server, cache, meta, sync, status, watch, filling, gaveUp, app,
    settled, lost, crowded, spent

syncVars == <<condstore, server, cache, meta, sync, status, watch, filling, gaveUp, app,
              settled, lost, crowded, spent>>

H == INSTANCE HeaderSync WITH Tasks <- Syncs, task <- sync

ASSUME SyncAssumption == H!HeaderAssumption

JobInit ==
    /\ Init /\ H!Init
    /\ \/ job = "sync"
       \/ job = "pool" /\ condstore

PoolStep == job = "pool" /\ Next /\ UNCHANGED <<job, syncVars>>

SyncStep == job = "sync" /\ H!Next /\ UNCHANGED <<job, vars>>

JobVars == <<job, vars, syncVars>>

JobSpec ==
    /\ JobInit /\ [][PoolStep \/ SyncStep]_JobVars
    /\ \A t \in Task : SF_vars(job = "pool" /\ Step(t))
    /\ \A t \in Syncs : WF_syncVars(job = "sync" /\ H!Serves(t))
    /\ WF_syncVars(job = "sync" /\ H!Activation)
    /\ WF_syncVars(job = "sync" /\ H!ReconcileComesDue)
    /\ WF_syncVars(job = "sync" /\ H!Opens)

(* The type of a sync's state. *)
SyncTypeOK == H!TypeOK

(* HeaderSync's: no change of flags falls between two syncs                *)
(* (sync_engine.rs:347, 475).                                              *)
FlagsNotLost == H!FlagsNotLost

(* HeaderSync's: what is on the server is not pruned (imap/mod.rs:938).    *)
NothingLivePruned == H!NothingLivePruned

(* HeaderSync's: the cache comes to hold the mailbox as it is, where it is *)
(* the sync that runs (sync_engine.rs:429-473).                            *)
CacheConverges ==
    <>[](\/ job = "pool" \/ crowded
         \/ H!NoGhost /\ H!FlagsRight /\ (gaveUp \/ H!OnServer \subseteq H!Cached))
=============================================================================
