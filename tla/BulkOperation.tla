---------------------------- MODULE BulkOperation ----------------------------
(***************************************************************************)
(* Bulk archive / delete of mail: the BulkOperationManager singleton of    *)
(* the web view, the Rust commands it awaits (archive_emails,              *)
(* verify_archived_emails, bulk_delete_emails, cancel_archive) and the     *)
(* crash-recovery file pending_operations.json.                            *)
(*                                                                         *)
(* Every start() is a RUN: an async function with its own locals (type,    *)
(* mailbox, uids) that is suspended at one await at a time (its pc) and    *)
(* shares with every other run the manager's two fields _operation (op)    *)
(* and _cancelled.  Between two awaits nothing else runs, so one action is *)
(* one stretch of code from an await to the next one.                      *)
(*                                                                         *)
(* Env names what the environment may do in a configuration: "crash",      *)
(* "cancel", "overlap" (the user starts an operation while a cancelled one *)
(* is still unwinding), "lateAnswer" (... while the banner of an           *)
(* unfinished one is still up), "persistFail", "reject" (a command answers *)
(* with an error), "fetchFail", "bandwidth", "writeFail", "deleteFail".    *)
(***************************************************************************)
EXTENDS Integers, FiniteSets

CONSTANTS
    Mailbox,        \* mailboxes of the account
    Inbox,          \* the mailbox a launch activates
    Uid,            \* UIDs; every mailbox numbers its messages from this set
    Types,          \* kinds of operation the user starts
    Env,            \* what the environment may do
    MaxRuns,        \* bound: start() calls, resumes included
    MaxCancels,     \* bound: presses of Cancel
    MaxCrashes,     \* bound: crashes
    None,           \* no operation / no file
    Torn            \* a pending_operations.json cut short by a crash

AllTypes == {"archive", "delete", "archive_and_delete", "delete_everywhere"}

ASSUME ConstantsAssumption ==
    /\ Inbox \in Mailbox
    /\ Types \subseteq AllTypes
    /\ MaxRuns \in Nat /\ MaxCancels \in Nat /\ MaxCrashes \in Nat
    /\ None # Torn

Msg == Mailbox \X Uid
RunId == 1 .. MaxRuns

VARIABLES
    op,             \* BulkOperationManager._operation
    cancelled,      \* BulkOperationManager._cancelled
    runs,           \* the start() calls
    token,          \* ArchiveCancelToken: the run and phase that installed it
    flagged,        \* tokens whose flag is set
    pendingFile,    \* pending_operations.json
    clearing,       \* cancel()'s clear_pending_operation is under way
    banner,         \* App's pendingOperation: what Resume would run
    view,           \* the mailbox on screen
    removedBy,      \* who removed a message from the server; 0: still there
    vault,          \* the .eml file of a message in the Maildir
    selected,       \* history: <<type, message>> the user chose
    askedAt,        \* history: the pc of a run when its Cancel was pressed
    flying,         \* history: its UIDs that were with the server by then
    unsaved,        \* history: runs whose first _persist was rejected
    cancels, crashes

manager == <<op, cancelled>>
commands == <<token, flagged>>
recovery == <<pendingFile, clearing, banner>>
mail == <<removedBy, vault>>
history == <<selected, askedAt, flying, unsaved>>
bounds == <<cancels, crashes>>
vars == <<manager, runs, commands, recovery, view, mail, history, bounds>>

(* Definitions marked "slip" are what the definition after them would be   *)
(* with a plausible mistake in the code; no action uses them.              *)
ActiveForgetsVerifying == {"archiving", "deleting"}          \* slip

Active == {"archiving", "verifying", "deleting"}
Status == Active \cup {"complete", "cancelled", "error"}
PC == {"unused", "persist", "token", "archiveSent", "archive", "verify",
       "persist2", "token2", "deleteSent", "delete", "purge", "clear", "done"}
Task == {"todo", "fetched", "storing", "stored", "failed", "skipped",
         "deleting", "deleted"}
FileState == {"none", "torn", "whole"}

File == [type : AllTypes, mbox : Mailbox, uids : SUBSET Uid]
Op == [type : AllTypes, mbox : Mailbox, uids : SUBSET Uid, status : Status,
       owner : RunId]
ASSUME NoneAssumption ==
    /\ None \notin Op /\ None \notin File /\ Torn \notin File

Token == (RunId \X {"archive", "delete"}) \cup {<<0, "boot">>}

Run == [pc : PC, type : AllTypes, mbox : Mailbox, uids : SUBSET Uid,
        snap : File, task : [Uid -> Task]]

TypeOK ==
    /\ op \in Op \cup {None}
    /\ cancelled \in BOOLEAN
    /\ runs \in [RunId -> Run]
    /\ token \in Token
    /\ flagged \subseteq Token
    /\ pendingFile \in File \cup {None, Torn}
    /\ clearing \in BOOLEAN
    /\ banner \in File \cup {None}
    /\ view \in Mailbox
    /\ removedBy \in [Msg -> 0 .. MaxRuns]
    /\ vault \in [Msg -> FileState]
    /\ selected \subseteq AllTypes \X Msg
    /\ askedAt \in [RunId -> PC]
    /\ flying \in [RunId -> SUBSET Uid]
    /\ unsaved \subseteq RunId
    /\ cancels \in 0 .. MaxCancels
    /\ crashes \in 0 .. MaxCrashes

IsRunning == op # None /\ op.status \in Active
Live(r) == runs[r].pc \notin {"unused", "done"}
OnServer(m) == removedBy[m] = 0

NoFile == [type |-> "archive", mbox |-> Inbox, uids |-> {}]
Todo == [u \in Uid |-> "todo"]

Init ==
    /\ op = None /\ cancelled = FALSE
    /\ runs = [r \in RunId |->
                 [pc |-> "unused", type |-> "archive", mbox |-> Inbox,
                  uids |-> {}, snap |-> NoFile, task |-> Todo]]
    /\ token = <<0, "boot">> /\ flagged = {}
    /\ pendingFile = None /\ clearing = FALSE /\ banner = None
    /\ view = Inbox
    /\ removedBy = [m \in Msg |-> 0]
    /\ vault = [m \in Msg |-> "none"]
    /\ selected = {} /\ askedAt = [r \in RunId |-> "unused"]
    /\ flying = [r \in RunId |-> {}] /\ unsaved = {}
    /\ cancels = 0 /\ crashes = 0

-----------------------------------------------------------------------------
(* start(), from its call to its first await.  A call made while isRunning *)
(* throws and changes nothing.                                             *)

FileOfView(o) == [type |-> o.type, mbox |-> view, uids |-> o.uids]   \* slip

FileOf(o) == [type |-> o.type, mbox |-> o.mbox, uids |-> o.uids]

Launch(r, type, mbox, uids) ==
    LET fresh == [type |-> type, mbox |-> mbox, uids |-> uids, owner |-> r,
                  status |-> IF type \in {"delete", "delete_everywhere"}
                             THEN "deleting" ELSE "archiving"]
    IN  /\ ~IsRunning
        /\ runs[r].pc = "unused"
        /\ \A q \in RunId : q < r => runs[q].pc # "unused"
        /\ "overlap" \in Env \/ \A q \in RunId : ~Live(q)
        /\ cancelled' = FALSE
        /\ op' = fresh
        /\ runs' = [runs EXCEPT ![r] = [pc |-> "persist", type |-> type,
                      mbox |-> mbox, uids |-> uids, snap |-> FileOf(fresh),
                      task |-> Todo]]

Start(r) ==
    \E type \in Types, uids \in SUBSET Uid \ {{}} :
        /\ banner = None \/ "lateAnswer" \in Env
        /\ Launch(r, type, view, uids)
        /\ selected' = selected \cup ({type} \X ({view} \X uids))
        /\ UNCHANGED <<commands, recovery, view, mail, askedAt, flying, unsaved, bounds>>

(* The Resume button: resume() filters totalUids by completedUids, which   *)
(* is always empty, and calls start() with the rest.                       *)
Resume(r) ==
    /\ banner # None
    /\ banner' = None
    /\ Launch(r, banner.type, banner.mbox, banner.uids)
    /\ UNCHANGED <<commands, pendingFile, clearing, view, mail, history, bounds>>

(* Resume while another operation runs: the banner goes, start() throws. *)
ResumeRefused ==
    /\ banner # None /\ IsRunning
    /\ banner' = None
    /\ UNCHANGED <<manager, runs, commands, pendingFile, clearing, view, mail, history, bounds>>

Discard ==
    /\ banner # None
    /\ banner' = None /\ pendingFile' = None
    /\ UNCHANGED <<manager, runs, commands, clearing, view, mail, history, bounds>>

-----------------------------------------------------------------------------
(* The rest of start().  Every write to this._operation hits the operation *)
(* that is current NOW, whichever run created it.                          *)

SetPC(r, pc) == runs' = [runs EXCEPT ![r].pc = pc]

(* A run that has returned keeps what the properties ask of it, no local. *)
Ended(run) == [run EXCEPT !.pc = IF @ = "unused" THEN @ ELSE "done",
                          !.snap = NoFile, !.task = Todo]
End(r) == runs' = [runs EXCEPT ![r] = Ended(@)]
SetStatus(s) == op' = IF op = None THEN None ELSE [op EXCEPT !.status = s]

Persisted(r) ==
    /\ runs[r].pc = "persist"
    /\ SetPC(r, "token")
    /\ pendingFile' = runs[r].snap
    /\ UNCHANGED <<manager, commands, clearing, banner, view, mail, history, bounds>>

(* The first _persist is awaited before the try block: its failure rejects *)
(* start() and leaves the status as it is.                                 *)
PersistFails(r) ==
    /\ "persistFail" \in Env
    /\ runs[r].pc = "persist"
    /\ End(r)
    /\ unsaved' = unsaved \cup {r}
    /\ UNCHANGED <<manager, commands, recovery, view, mail, selected, askedAt, flying, bounds>>

(* The event listener and ensureFreshToken are awaited; then the status is *)
(* written and the first command invoked.  purgeEverywhere reads account   *)
(* and mailbox from the store when it is called.                           *)
TokenFresh(r) ==
    /\ runs[r].pc = "token"
    /\ \/ /\ runs[r].type \in {"archive", "archive_and_delete"}
          /\ SetStatus("archiving") /\ SetPC(r, "archiveSent")
       \/ /\ runs[r].type = "delete"
          /\ SetStatus("deleting") /\ SetPC(r, "deleteSent")
       \/ /\ runs[r].type = "delete_everywhere"
          /\ runs' = [runs EXCEPT ![r].pc = "purge", ![r].mbox = view]
          /\ UNCHANGED op
    /\ UNCHANGED <<cancelled, commands, recovery, view, mail, history, bounds>>

FinishKeepsStatus(r) ==                                      \* slip
    SetPC(r, IF cancelled THEN "done" ELSE "clear") /\ UNCHANGED op

(* The end of the try block, reached from several awaits. *)
Finish(r) ==
    IF cancelled
    THEN End(r) /\ UNCHANGED op
    ELSE SetPC(r, "clear") /\ SetStatus("complete")

Cleared(r) ==
    /\ runs[r].pc = "clear"
    /\ End(r)
    /\ pendingFile' = None
    /\ UNCHANGED <<manager, commands, clearing, banner, view, mail, history, bounds>>

Untouched(r) == \A u \in runs[r].uids : runs[r].task[u] = "todo"

(* catch: an await of the try block is rejected.  The recovery file cannot *)
(* be written or removed; verify_archived_emails fails; archive_emails and *)
(* bulk_delete_emails have installed their token and refuse the account,   *)
(* purgeEverywhere fails before its first delete.  ensureFreshToken        *)
(* swallows its errors.                                                    *)
StepFails(r) ==
    /\ \/ "persistFail" \in Env /\ runs[r].pc \in {"clear", "persist2"}
       \/ "reject" \in Env /\ runs[r].pc = "verify"
       \/ /\ "reject" \in Env
          /\ runs[r].pc \in {"archive", "delete", "purge"} /\ Untouched(r)
    /\ End(r) /\ SetStatus("error")
    /\ UNCHANGED <<cancelled, commands, recovery, view, mail, history, bounds>>

-----------------------------------------------------------------------------
(* archive_emails: one task per UID.                                       *)

MailOfCurrentOp(r, u) == <<op.mbox, u>>                      \* slip

Mail(r, u) == <<runs[r].mbox, u>>
SetTask(r, u, t) == runs' = [runs EXCEPT ![r].task[u] = t]
Stopped(r, phase) == <<r, phase>> \in flagged

(* Installs a token of its own, whatever happened to the previous one. *)
ArchiveBegins(r) ==
    /\ runs[r].pc = "archiveSent"
    /\ SetPC(r, "archive")
    /\ token' = <<r, "archive">>
    /\ UNCHANGED <<manager, flagged, recovery, view, mail, history, bounds>>

Fetch(r, u) ==
    /\ runs[r].pc = "archive" /\ u \in runs[r].uids
    /\ runs[r].task[u] = "todo" /\ ~Stopped(r, "archive")
    /\ \/ OnServer(Mail(r, u)) /\ SetTask(r, u, "fetched") /\ UNCHANGED flagged
       \/ /\ ~OnServer(Mail(r, u)) \/ "fetchFail" \in Env
          /\ SetTask(r, u, "failed") /\ UNCHANGED flagged
       \/ /\ "bandwidth" \in Env
          /\ SetTask(r, u, "failed")
          /\ flagged' = flagged \cup {<<r, "archive">>}
    /\ UNCHANGED <<manager, token, recovery, view, mail, history, bounds>>

(* The existing file of the UID is removed and the new one created: from   *)
(* here to StoreEnds the directory holds a file whose bytes are not all    *)
(* there.  When the file cannot be created none is left.                   *)
StoreBegins(r, u) ==
    /\ runs[r].pc = "archive" /\ runs[r].task[u] = "fetched"
    /\ \/ /\ SetTask(r, u, "storing")
          /\ vault' = [vault EXCEPT ![Mail(r, u)] = "torn"]
       \/ /\ "writeFail" \in Env
          /\ SetTask(r, u, "failed")
          /\ vault' = [vault EXCEPT ![Mail(r, u)] = "none"]
    /\ UNCHANGED <<manager, commands, recovery, view, removedBy, history, bounds>>

(* fs::write fills the file, or fails half way and leaves it there. *)
StoreEnds(r, u) ==
    /\ runs[r].pc = "archive" /\ runs[r].task[u] = "storing"
    /\ \/ /\ SetTask(r, u, "stored")
          /\ vault' = [vault EXCEPT ![Mail(r, u)] = "whole"]
       \/ /\ "writeFail" \in Env
          /\ SetTask(r, u, "failed")
          /\ UNCHANGED vault
    /\ UNCHANGED <<manager, commands, recovery, view, removedBy, history, bounds>>

Skip(r, u) ==
    /\ runs[r].pc \in {"archive", "delete"} /\ u \in runs[r].uids
    /\ runs[r].task[u] = "todo" /\ Stopped(r, runs[r].pc)
    /\ SetTask(r, u, "skipped")
    /\ UNCHANGED <<manager, commands, recovery, view, mail, history, bounds>>

DrainedWhenSpawned(r) == \A u \in runs[r].uids : runs[r].task[u] # "todo"  \* slip

Drained(r) ==
    \A u \in runs[r].uids :
        runs[r].task[u] \in {"stored", "failed", "skipped", "deleted"}

ArchiveReturns(r) ==
    /\ runs[r].pc = "archive" /\ Drained(r)
    /\ \/ /\ ~cancelled /\ runs[r].type = "archive_and_delete"
          /\ SetPC(r, "verify") /\ SetStatus("verifying")
       \/ /\ cancelled \/ runs[r].type = "archive"
          /\ Finish(r)
    /\ UNCHANGED <<cancelled, commands, recovery, view, mail, history, bounds>>

-----------------------------------------------------------------------------
(* verify_archived_emails: a UID is verified when the directory lists a    *)
(* file of that UID.                                                       *)

VerifiedUnchecked(r) == runs[r].uids                         \* slip

Verified(r) == {u \in runs[r].uids : vault[Mail(r, u)] # "none"}

Verify(r) ==
    /\ runs[r].pc = "verify"
    /\ IF cancelled
       THEN End(r) /\ UNCHANGED op
       ELSE LET now == [op EXCEPT !.status = "deleting", !.uids = Verified(r)]
            IN  /\ op' = now
                /\ runs' = [runs EXCEPT ![r].pc = "persist2",
                                        ![r].uids = Verified(r),
                                        ![r].snap = FileOf(now)]
    /\ UNCHANGED <<cancelled, commands, recovery, view, mail, history, bounds>>

Persisted2Clears(r) ==                                       \* slip
    /\ runs[r].pc = "persist2"
    /\ SetPC(r, "token2")
    /\ pendingFile' = None
    /\ UNCHANGED <<manager, commands, clearing, banner, view, mail, history, bounds>>

Persisted2(r) ==
    /\ runs[r].pc = "persist2"
    /\ SetPC(r, "token2")
    /\ pendingFile' = runs[r].snap
    /\ UNCHANGED <<manager, commands, clearing, banner, view, mail, history, bounds>>

TokenFresh2(r) ==
    /\ runs[r].pc = "token2"
    /\ SetPC(r, "deleteSent")
    /\ UNCHANGED <<manager, commands, recovery, view, mail, history, bounds>>

-----------------------------------------------------------------------------
(* bulk_delete_emails: one task per UID; its result is not looked at.      *)

DeleteKeepsToken(r) ==                                       \* slip
    /\ runs[r].pc = "deleteSent"
    /\ runs' = [runs EXCEPT ![r].pc = "delete", ![r].task = Todo]
    /\ UNCHANGED <<manager, commands, recovery, view, mail, history, bounds>>

DeleteBegins(r) ==
    /\ runs[r].pc = "deleteSent"
    /\ runs' = [runs EXCEPT ![r].pc = "delete", ![r].task = Todo]
    /\ token' = <<r, "delete">>
    /\ UNCHANGED <<manager, flagged, recovery, view, mail, history, bounds>>

Remove(r, m) ==
    removedBy' = [removedBy EXCEPT ![m] = IF OnServer(m) THEN r ELSE @]

(* A task looks at the flag once it has a permit, and then awaits the      *)
(* server: a Cancel does not call back what is on its way.  The five       *)
(* permits are left out: here any number of tasks may be on their way.     *)
DeleteIsSent(r, u) ==
    /\ runs[r].pc = "delete" /\ u \in runs[r].uids
    /\ runs[r].task[u] = "todo" /\ ~Stopped(r, "delete")
    /\ SetTask(r, u, "deleting")
    /\ UNCHANGED <<manager, commands, recovery, view, mail, history, bounds>>

(* A delete that fails may have reached the server, its answer lost. *)
Answers(r, u) ==
    \/ SetTask(r, u, "deleted") /\ Remove(r, Mail(r, u))
    \/ /\ "deleteFail" \in Env
       /\ SetTask(r, u, "failed")
       /\ Remove(r, Mail(r, u)) \/ UNCHANGED removedBy

DeleteIsAnswered(r, u) ==
    /\ runs[r].pc = "delete" /\ u \in runs[r].uids
    /\ runs[r].task[u] = "deleting"
    /\ Answers(r, u)
    /\ UNCHANGED <<manager, commands, recovery, view, vault, history, bounds>>

DeleteReturns(r) ==
    /\ runs[r].pc = "delete" /\ Drained(r)
    /\ Finish(r)
    /\ UNCHANGED <<cancelled, commands, recovery, view, mail, history, bounds>>

(* purgeEverywhere: the server first, one UID at a time, deaf to Cancel;   *)
(* then the vault copies of the UIDs the server let go.                    *)
Purge(r, u) ==
    /\ runs[r].pc = "purge" /\ u \in runs[r].uids /\ runs[r].task[u] = "todo"
    /\ Answers(r, u)
    /\ UNCHANGED <<manager, commands, recovery, view, vault, history, bounds>>

PurgeReturnsAll(r) ==                                        \* slip
    /\ runs[r].pc = "purge" /\ Drained(r)
    /\ vault' = [m \in Msg |->
                   IF m[1] = runs[r].mbox /\ m[2] \in runs[r].uids
                   THEN "none" ELSE vault[m]]
    /\ Finish(r)
    /\ UNCHANGED <<cancelled, commands, recovery, view, removedBy, history, bounds>>

PurgeReturns(r) ==
    /\ runs[r].pc = "purge" /\ Drained(r)
    /\ vault' = [m \in Msg |->
                   IF /\ m[1] = runs[r].mbox /\ m[2] \in runs[r].uids
                      /\ runs[r].task[m[2]] = "deleted"
                   THEN "none" ELSE vault[m]]
    /\ Finish(r)
    /\ UNCHANGED <<cancelled, commands, recovery, view, removedBy, history, bounds>>

-----------------------------------------------------------------------------
(* cancel(): cancel_archive flags whatever token is installed; the pending *)
(* file is cleared by a command of its own, in no order with the writes.   *)

Cancel ==
    /\ "cancel" \in Env /\ cancels < MaxCancels /\ IsRunning
    /\ cancelled' = TRUE
    /\ flagged' = flagged \cup {token}
    /\ SetStatus("cancelled")
    /\ clearing' = TRUE
    /\ cancels' = cancels + 1
    /\ askedAt' = [askedAt EXCEPT ![op.owner] = runs[op.owner].pc]
    /\ flying' = [flying EXCEPT ![op.owner] =
                    {u \in Uid : runs[op.owner].task[u] = "deleting"}]
    /\ UNCHANGED <<runs, token, pendingFile, banner, view, mail, selected, unsaved, crashes>>

ClearLands ==
    /\ clearing
    /\ clearing' = FALSE /\ pendingFile' = None
    /\ UNCHANGED <<manager, runs, commands, banner, view, mail, history, bounds>>

SwitchMailbox ==
    /\ view' \in Mailbox \ {view}
    /\ UNCHANGED <<manager, runs, commands, recovery, mail, history, bounds>>

(* The process dies and is launched again: memory is gone, files stay, and *)
(* a write of pending_operations.json under way may leave it cut short.    *)
(* The launch offers the pending operation when it can be parsed and names *)
(* at least one UID.                                                       *)
Crash ==
    /\ "crash" \in Env /\ crashes < MaxCrashes
    /\ crashes' = crashes + 1
    /\ op' = None /\ cancelled' = FALSE
    /\ runs' = [r \in RunId |-> Ended(runs[r])]
    /\ token' = <<0, "boot">> /\ flagged' = {}
    /\ clearing' = FALSE
    /\ \/ UNCHANGED pendingFile
       \/ /\ \E r \in RunId : runs[r].pc \in {"persist", "persist2"}
          /\ pendingFile' = Torn
    /\ banner' = IF pendingFile' \in {None, Torn} THEN None
                 ELSE IF pendingFile'.uids = {} THEN None ELSE pendingFile'
    /\ view' = Inbox
    /\ UNCHANGED <<mail, history, cancels>>

-----------------------------------------------------------------------------
Step(r) ==
    \/ Persisted(r) \/ TokenFresh(r)
    \/ ArchiveBegins(r) \/ ArchiveReturns(r)
    \/ Verify(r) \/ Persisted2(r) \/ TokenFresh2(r)
    \/ DeleteBegins(r) \/ DeleteReturns(r) \/ PurgeReturns(r)
    \/ Cleared(r)

Work(r, u) ==
    \/ Fetch(r, u) \/ StoreBegins(r, u) \/ StoreEnds(r, u) \/ Skip(r, u)
    \/ DeleteIsSent(r, u) \/ DeleteIsAnswered(r, u) \/ Purge(r, u)

Next ==
    \/ \E r \in RunId : Start(r) \/ Resume(r)
    \/ \E r \in RunId : Step(r) \/ PersistFails(r) \/ StepFails(r)
    \/ \E r \in RunId, u \in Uid : Work(r, u)
    \/ ResumeRefused \/ Discard \/ Cancel \/ ClearLands \/ SwitchMailbox \/ Crash

Spec == Init /\ [][Next]_vars

(* Every await settles: the IPC calls and file writes return, and each     *)
(* task of a command is scheduled.                                         *)
FairSpec ==
    /\ Spec
    /\ \A r \in RunId : WF_vars(Step(r))
    /\ \A r \in RunId, u \in Uid : WF_vars(Work(r, u))
    /\ WF_vars(ClearLands)

-----------------------------------------------------------------------------
(* Properties                                                              *)

(* No message leaves the server that the user did not choose, in that      *)
(* mailbox, for an operation that deletes: resumed, cancelled and failed   *)
(* runs included.  (Launch, Verify, Persisted2, Resume, Answers)           *)
DeletedWasSelected ==
    \A m \in Msg : ~OnServer(m) =>
        \E t \in AllTypes \ {"archive"} : <<t, m>> \in selected

(* A message an archive-and-delete removed from the server has its whole   *)
(* text in the vault, unless the user also chose to delete it everywhere.  *)
(* (fetch_and_store, verify_archived_emails, bulk_delete)                  *)
LocalCopyStays ==
    \A m \in Msg :
        /\ ~OnServer(m)
        /\ runs[removedBy[m]].type = "archive_and_delete"
        /\ <<"delete_everywhere", m>> \notin selected
        => vault[m] = "whole"

(* The weaker fact verify_archived_emails is able to establish: the vault  *)
(* holds a file of that UID.                                               *)
DeletedHasFile ==
    \A m \in Msg :
        /\ ~OnServer(m)
        /\ runs[removedBy[m]].type = "archive_and_delete"
        /\ <<"delete_everywhere", m>> \notin selected
        => vault[m] # "none"

(* A run whose Cancel was pressed before it issued its delete command      *)
(* never deletes: "a cancel button" of README, Bulk operations.            *)
CancelHolds ==
    \A m \in Msg : ~OnServer(m) =>
        askedAt[removedBy[m]] \in {"unused", "deleteSent", "delete", "purge"}

(* Once Cancel was pressed on a run that was archiving or verifying, the   *)
(* run removes no message from the server; on one that was deleting, it    *)
(* removes only the messages whose deletes were on their way by then.  In  *)
(* the first two the tests of _cancelled see to it, in the third the token *)
(* of bulk_delete_emails (BulkOperationManager.js:83-95, archive.rs:418-   *)
(* 441).                                                                   *)
CancelStopsDeletes ==
    [][\A r \in RunId : askedAt[r] \in {"archiveSent", "archive", "verify", "delete"} =>
          \A m \in Msg : removedBy'[m] = r /\ removedBy[m] # r =>
              askedAt[r] = "delete" /\ \E u \in flying[r] : m = Mail(r, u)]_vars

(* While nobody has pressed Cancel and an operation still has server work  *)
(* to do, pending_operations.json names that work: a crash at this point   *)
(* loses none of it.  (_persist, resume, clearPendingOperation)            *)
Recoverable ==
    cancels = 0 => \A r \in RunId :
        runs[r].pc \in {"token", "archiveSent", "archive", "verify",
                       "persist2", "token2", "deleteSent", "delete"} =>
            /\ pendingFile \notin {None, Torn}
            /\ pendingFile.type = runs[r].type
            /\ pendingFile.mbox = runs[r].mbox
            /\ runs[r].uids \subseteq pendingFile.uids

(* What a later launch would offer to resume is what the user asked for:   *)
(* the file pairs no UID with another operation's type or mailbox.         *)
(* (_persist writes this._operation)                                       *)
FileNamesSelection ==
    pendingFile \notin {None, Torn} =>
        \A u \in pendingFile.uids :
            <<pendingFile.type, <<pendingFile.mbox, u>>>> \in selected

(* The step that ends a purge takes a vault copy only of a message the     *)
(* server no longer has: "server delete failed -> keep the local copies".  *)
(* (purgeEverywhere, confirmedMailboxUids)                                 *)
PurgeKeepsLastCopy ==
    [][\A r \in RunId, m \in Msg :
          runs[r].pc = "purge" /\ runs'[r].pc # "purge"
             /\ vault[m] # "none" /\ vault'[m] = "none"
          => ~OnServer(m)]_vars

(* Two ways to leave the manager busy for good, with no run at work: the   *)
(* first _persist is rejected outside the try block, and a Cancel lands in *)
(* an await before line 68, which writes an active status over it.         *)
Jammed ==
    /\ op # None
    /\ op.owner \in unsaved \/ askedAt[op.owner] \in {"persist", "token"}

(* Otherwise the manager does not stay busy, whatever fails and whenever   *)
(* else Cancel is pressed: isRunning is what refuses every later           *)
(* operation.  (start, its catch and its last if)                          *)
ManagerFrees == []<>(IsRunning => Jammed)
=============================================================================
