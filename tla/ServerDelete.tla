----------------------------- MODULE ServerDelete -----------------------------
(***************************************************************************)
(* "Delete from server" on the selected rows of one IMAP account:          *)
(* deleteSelectedFromServer, the journal of unfinished deletes             *)
(* (pending_delete.rs, db/pendingDeletes), the replay of that journal at   *)
(* launch, and the refreshes that write the same list and header cache     *)
(* meanwhile: loadEmails, loadMoreEmails and the first paint of a visit.   *)
(*                                                                         *)
(* A message is an ADDRESS <<mailbox, uid>>.  The list holds UIDs; the row *)
(* of a UID stands for that UID of the mailbox on screen.  One action is   *)
(* the code between two awaits; a delete and its answer are one step.      *)
(*                                                                         *)
(* Env names what the environment may do: "refuse" (the server answers a   *)
(* delete with an error), "answerLost" (it deletes, the answer is an       *)
(* error), "credentials" (a replayed delete fails for want of a password), *)
(* "hurried" (the user acts while a write or the launch's read of the      *)
(* journal is awaited), "redelete" (the user deletes again a row that an   *)
(* unfinished delete is still handling).                                   *)
(***************************************************************************)
EXTENDS Naturals, FiniteSets

CONSTANTS
    Mailbox,        \* mailboxes of the account
    Inbox,          \* the mailbox a launch shows
    Uid,            \* UIDs; every mailbox numbers its messages from this set
    Stored,         \* the addresses the server holds at first
    Archived,       \* the addresses with a copy in the vault
    Env,            \* what the environment may do
    MaxRuns,        \* bound: deletes the user asks for
    MaxCrashes,     \* bound: quits, reloads and crashes
    MaxReads        \* bound: refreshes and visits the delete did not ask for

Msg == Mailbox \X Uid
RunId == 1 .. MaxRuns

ASSUME DeleteAssumption ==
    /\ Inbox \in Mailbox
    /\ Stored \subseteq Msg /\ Archived \subseteq Msg
    /\ MaxRuns \in Nat /\ MaxCrashes \in Nat /\ MaxReads \in Nat

VARIABLES
    server,         \* the addresses the server still holds
    journal,        \* pending_server_delete.json
    sidecar,        \* the addresses in the header cache
    view,           \* activeMailbox
    rows,           \* the UIDs in the store's emails
    tombs,          \* deleteTombstones
    runs,           \* the calls of deleteSelectedFromServer
    replay,         \* the launch's replayPendingDeletes
    load,           \* the newest call of loadEmails
    drain,          \* the call of loadMoreEmails
    selected,       \* history: what the user chose to delete
    owed,           \* history: hidden as deleted, no answer yet in any session
    erased,         \* history: reported deleted in this session
    crashes, reads

disk == <<journal, sidecar>>
list == <<view, rows, tombs>>
readers == <<load, drain>>
history == <<selected, owed, erased>>
bounds == <<crashes, reads>>
vars == <<server, disk, list, runs, replay, readers, history, bounds>>

Of(mb, uids) == {mb} \X uids
UidsIn(set, mb) == {u \in Uid : <<mb, u>> \in set}
Visible == Of(view, rows) \ tombs

Run == [pc : {"unused", "queue", "hide", "delete", "prune", "reload", "lift", "done"},
        mbox : Mailbox, uids : SUBSET Uid, todo : SUBSET Uid,
        deleted : SUBSET Uid, lifts : SUBSET Uid,
        snapRows : SUBSET Uid, snapTombs : SUBSET Msg]
Replay == [pc : {"idle", "next", "delete", "prune", "done"}, todo : SUBSET Msg,
           mbox : Mailbox, answered : SUBSET Uid, removed : SUBSET Uid,
           kept : SUBSET Msg]
Load == [pc : {"none", "asked", "found"}, mbox : Mailbox, base : SUBSET Uid,
         uids : SUBSET Uid, by : 0 .. MaxRuns]
Drain == [pc : {"none", "asked", "cached", "page"}, mbox : Mailbox, uids : SUBSET Uid]

TypeOK ==
    /\ server \subseteq Msg /\ journal \subseteq Msg /\ sidecar \subseteq Msg
    /\ view \in Mailbox /\ rows \subseteq Uid /\ tombs \subseteq Msg
    /\ runs \in [RunId -> Run]
    /\ \A r \in RunId : /\ runs[r].todo \subseteq runs[r].uids
                         /\ runs[r].lifts \subseteq runs[r].deleted
                         /\ runs[r].deleted \subseteq runs[r].uids \ runs[r].todo
    /\ replay \in Replay /\ load \in Load /\ drain \in Drain
    /\ selected \subseteq Msg /\ owed \subseteq Msg /\ erased \subseteq Msg
    /\ crashes \in 0 .. MaxCrashes /\ reads \in 0 .. MaxReads

Unused == [pc |-> "unused", mbox |-> Inbox, uids |-> {}, todo |-> {},
           deleted |-> {}, lifts |-> {}, snapRows |-> {}, snapTombs |-> {}]
Over == [Unused EXCEPT !.pc = "done"]
Launched == [pc |-> "idle", todo |-> {}, mbox |-> Inbox, answered |-> {},
             removed |-> {}, kept |-> {}]
NoLoad == [pc |-> "none", mbox |-> Inbox, base |-> {}, uids |-> {}, by |-> 0]
NoDrain == [pc |-> "none", mbox |-> Inbox, uids |-> {}]

Init ==
    /\ server = Stored /\ journal = {} /\ sidecar = Stored
    /\ view = Inbox /\ rows = UidsIn(Stored, Inbox) /\ tombs = {}
    /\ runs = [r \in RunId |-> Unused]
    /\ replay = Launched /\ load = NoLoad /\ drain = NoDrain
    /\ selected = {} /\ owed = {} /\ erased = {}
    /\ crashes = 0 /\ reads = 0

-----------------------------------------------------------------------------
(* deleteSelectedFromServer                                                *)

At(r, pc) == runs[r].pc = pc
Live(r) == runs[r].pc \notin {"unused", "done"}

AddrOnScreen(r, u) == <<view, u>>                                    \* slip

(* contextOf: the address of a key, from the state the call began with.    *)
Addr(r, u) == <<runs[r].mbox, u>>
Group(r) == {Addr(r, u) : u \in runs[r].uids}

(* What an unfinished delete, or the replay, has yet to answer or clear.   *)
Handled == (UNION {Group(r) : r \in {q \in RunId : Live(q)}})
           \cup replay.todo \cup Of(replay.mbox, replay.answered)

Quiet == (\A r \in RunId : ~At(r, "queue") /\ ~At(r, "hide")) /\ replay.pc # "idle"

(* The call captures the store and issues the journal write.               *)
DeleteSelected(r) ==
    /\ At(r, "unused") /\ \A q \in RunId : q < r => ~At(q, "unused")
    /\ Quiet \/ "hurried" \in Env
    /\ \E uids \in SUBSET UidsIn(Visible, view) :
          /\ uids # {}
          /\ Of(view, uids) \cap Handled = {} \/ "redelete" \in Env
          /\ runs' = [runs EXCEPT ![r] =
                [Unused EXCEPT !.pc = "queue", !.mbox = view, !.uids = uids,
                     !.todo = uids, !.snapRows = rows, !.snapTombs = tombs]]
          /\ selected' = selected \cup Of(view, uids)
    /\ UNCHANGED <<server, disk, list, replay, readers, owed, erased, bounds>>

(* pending_delete_queue reads, extends and rewrites the file in one        *)
(* synchronous command.                                                    *)
Queue(r) ==
    /\ At(r, "queue")
    /\ journal' = journal \cup Group(r)
    /\ runs' = [runs EXCEPT ![r].pc = "hide"]
    /\ UNCHANGED <<server, sidecar, list, replay, readers, history, bounds>>

HideForgetsTombstones(r) ==                                          \* slip
    /\ At(r, "hide")
    /\ rows' = runs[r].snapRows \ runs[r].uids
    /\ owed' = owed \cup Group(r)
    /\ runs' = [runs EXCEPT ![r].pc = "delete"]
    /\ UNCHANGED <<server, disk, view, tombs, replay, readers, selected, erased, bounds>>

(* The optimistic update, computed from the captured store.                *)
Hide(r) ==
    /\ At(r, "hide")
    /\ rows' = runs[r].snapRows \ runs[r].uids
    /\ tombs' = runs[r].snapTombs \cup Group(r)
    /\ owed' = owed \cup Group(r)
    /\ runs' = [runs EXCEPT ![r].pc = "delete"]
    /\ UNCHANGED <<server, disk, view, replay, readers, selected, erased, bounds>>

DeletedTwice(r, u) ==                                                \* slip
    /\ server' = server \ {Addr(r, u)}
    /\ erased' = erased \cup {Addr(r, u)}
    /\ runs' = [runs EXCEPT ![r].deleted = @ \cup {u},
                   ![r].lifts = IF <<view, u>> \in Archived THEN @ \cup {u} ELSE @]
    /\ UNCHANGED tombs

(* One round trip of the loop: a UID the server no longer holds is         *)
(* deleted without complaint.  archivedEmailIds is the one on screen now.  *)
Deleted(r, u) ==
    /\ server' = server \ {Addr(r, u)}
    /\ erased' = erased \cup {Addr(r, u)}
    /\ runs' = [runs EXCEPT ![r].todo = @ \ {u}, ![r].deleted = @ \cup {u},
                   ![r].lifts = IF <<view, u>> \in Archived THEN @ \cup {u} ELSE @]
    /\ UNCHANGED tombs

(* The catch lifts the tombstone.                                          *)
Failed(r, u) ==
    /\ tombs' = tombs \ {Addr(r, u)}
    /\ runs' = [runs EXCEPT ![r].todo = @ \ {u}]
    /\ \/ "refuse" \in Env /\ UNCHANGED server
       \/ "answerLost" \in Env /\ server' = server \ {Addr(r, u)}
    /\ UNCHANGED erased

Delete(r, u) ==
    /\ At(r, "delete") /\ u \in runs[r].todo
    /\ Deleted(r, u) \/ Failed(r, u)
    /\ owed' = owed \ {Addr(r, u)}
    /\ UNCHANGED <<disk, view, rows, replay, readers, selected, bounds>>

ClearEarly(r) ==                                                     \* slip
    /\ At(r, "delete")
    /\ journal' = journal \ Group(r)
    /\ runs' = [runs EXCEPT ![r].pc = IF runs[r].todo = {} THEN "prune" ELSE "delete"]
    /\ UNCHANGED <<server, sidecar, list, replay, readers, history, bounds>>

(* Every key was attempted: the whole batch leaves the journal.            *)
Clear(r) ==
    /\ At(r, "delete") /\ runs[r].todo = {}
    /\ journal' = journal \ Group(r)
    /\ runs' = [runs EXCEPT ![r].pc = IF runs[r].deleted = {} THEN "reload" ELSE "prune"]
    /\ UNCHANGED <<server, sidecar, list, replay, readers, history, bounds>>

PruneOnScreen(r) ==                                                  \* slip
    /\ At(r, "prune")
    /\ sidecar' = (sidecar \cup Of(view, rows)) \ Of(view, runs[r].deleted)
    /\ runs' = [runs EXCEPT ![r].pc = "reload"]
    /\ UNCHANGED <<server, journal, list, replay, readers, history, bounds>>

(* The key and the UIDs come from the captured state; the rows on screen   *)
(* go along only when the view has not moved.                              *)
Prune(r) ==
    /\ At(r, "prune")
    /\ LET kept == IF view = runs[r].mbox THEN Of(view, rows) ELSE {}
       IN  sidecar' = (sidecar \cup kept) \ {Addr(r, u) : u \in runs[r].deleted}
    /\ runs' = [runs EXCEPT ![r].pc = "reload"]
    /\ UNCHANGED <<server, journal, list, replay, readers, history, bounds>>

Asked(by) == [pc |-> "asked", mbox |-> view, base |-> rows, uids |-> {}, by |-> by]

Reload(r) ==
    /\ At(r, "reload")
    /\ load' = Asked(r)
    /\ runs' = [runs EXCEPT ![r].pc = "lift"]
    /\ UNCHANGED <<server, disk, list, replay, drain, history, bounds>>

(* When its loadEmails has returned: the rows of archived messages may     *)
(* show again.                                                             *)
Lift(r) ==
    /\ At(r, "lift") /\ (load.pc = "none" \/ load.by # r)
    /\ tombs' = tombs \ {Addr(r, u) : u \in runs[r].lifts}
    /\ runs' = [runs EXCEPT ![r] = Over]
    /\ UNCHANGED <<server, disk, view, rows, replay, readers, history, bounds>>

-----------------------------------------------------------------------------
(* replayPendingDeletes, once per launch, one journalled mailbox after the *)
(* other.                                                                  *)

(* Until the keychain answers, or 30 s have passed, nothing is attempted;  *)
(* without accounts everything stays queued.                               *)
ReplayReads ==
    /\ replay.pc = "idle"
    /\ \/ replay' = [replay EXCEPT !.pc = "next", !.todo = journal]
       \/ /\ "credentials" \in Env /\ journal # {}
          /\ replay' = [replay EXCEPT !.pc = "done", !.kept = journal]
    /\ UNCHANGED <<server, disk, list, runs, readers, history, bounds>>

ReplayNextOnScreen ==                                                \* slip
    /\ replay.pc = "next"
    /\ IF UidsIn(replay.todo, view) = {}
       THEN replay' = [replay EXCEPT !.pc = "done", !.todo = {}, !.mbox = Inbox]
       ELSE replay' = [replay EXCEPT !.pc = "delete", !.mbox = view]
    /\ UNCHANGED <<server, disk, list, runs, readers, history, bounds>>

ReplayNext ==
    /\ replay.pc = "next"
    /\ IF replay.todo = {}
       THEN replay' = [replay EXCEPT !.pc = "done", !.mbox = Inbox]
       ELSE \E mb \in {m[1] : m \in replay.todo} :
               replay' = [replay EXCEPT !.pc = "delete", !.mbox = mb]
    /\ UNCHANGED <<server, disk, list, runs, readers, history, bounds>>

ReplayAttempts(u, after) ==
    replay' = [after EXCEPT !.todo = @ \ {<<replay.mbox, u>>}]

ReplayDeletesForgets(u) ==                                           \* slip
    LET m == <<replay.mbox, u>>
    IN  /\ replay.pc = "delete" /\ m \in replay.todo
        /\ \/ /\ server' = server \ {m} /\ owed' = owed \ {m}
              /\ ReplayAttempts(u, [replay EXCEPT !.answered = @ \cup {u},
                                                  !.removed = @ \cup {u}])
           \/ /\ "credentials" \in Env
              /\ ReplayAttempts(u, [replay EXCEPT !.answered = @ \cup {u}])
              /\ UNCHANGED <<server, owed>>
        /\ UNCHANGED <<disk, list, runs, readers, selected, erased, bounds>>

(* A failure for want of credentials is no answer; any other failure is.   *)
ReplayDeletes(u) ==
    LET m == <<replay.mbox, u>>
    IN  /\ replay.pc = "delete" /\ m \in replay.todo
        /\ \/ /\ server' = server \ {m} /\ owed' = owed \ {m}
              /\ ReplayAttempts(u, [replay EXCEPT !.answered = @ \cup {u},
                                                  !.removed = @ \cup {u}])
           \/ /\ \/ "refuse" \in Env /\ UNCHANGED server
                 \/ "answerLost" \in Env /\ server' = server \ {m}
              /\ owed' = owed \ {m}
              /\ ReplayAttempts(u, [replay EXCEPT !.answered = @ \cup {u}])
           \/ /\ "credentials" \in Env
              /\ ReplayAttempts(u, [replay EXCEPT !.kept = @ \cup {m}])
              /\ UNCHANGED <<server, owed>>
        /\ UNCHANGED <<disk, list, runs, readers, selected, erased, bounds>>

ReplayClears ==
    /\ replay.pc = "delete" /\ UidsIn(replay.todo, replay.mbox) = {}
    /\ journal' = journal \ Of(replay.mbox, replay.answered)
    /\ replay' = [replay EXCEPT !.answered = {},
                     !.pc = IF replay.removed = {} THEN "next" ELSE "prune"]
    /\ UNCHANGED <<server, sidecar, list, runs, readers, history, bounds>>

(* ... and the list is loaded again when that mailbox is on screen.        *)
ReplayPrunes ==
    /\ replay.pc = "prune"
    /\ sidecar' = sidecar \ Of(replay.mbox, replay.removed)
    /\ replay' = [replay EXCEPT !.removed = {}, !.pc = "next"]
    /\ load' = IF view = replay.mbox THEN Asked(0) ELSE load
    /\ UNCHANGED <<server, journal, list, runs, drain, history, bounds>>

-----------------------------------------------------------------------------
(* The other writers of the list and of the header cache.                  *)

Reads == reads < MaxReads /\ reads' = reads + 1

(* loadEmails.  A newer call makes the one under way stale: only the       *)
(* newest has an effect.  The awaits before the rows are captured are      *)
(* merged with the call.                                                   *)
LoadStarts ==
    /\ Reads
    /\ load' = Asked(0)
    /\ UNCHANGED <<server, disk, list, runs, replay, drain, history, crashes>>

(* The server's answer: the UID search against the captured rows, or the   *)
(* first page for an empty list; the captured rows themselves when the     *)
(* counts say that only flags have changed.                                *)
LoadFinds ==
    /\ load.pc = "asked"
    /\ LET found == UidsIn(server, load.mbox)
           listed == IF load.base = {} THEN found ELSE load.base \cap found
       IN  load' \in {[load EXCEPT !.pc = "found", !.uids = uids] :
                         uids \in {listed, load.base}}
    /\ UNCHANGED <<server, disk, list, runs, replay, drain, history, bounds>>

(* isStale() compares account and generation, not the mailbox.             *)
LoadCommits ==
    /\ load.pc = "found"
    /\ rows' = load.uids
    /\ sidecar' = (sidecar \cup Of(load.mbox, load.uids))
                     \ Of(load.mbox, load.base \ load.uids)
    /\ load' = NoLoad
    /\ UNCHANGED <<server, journal, view, tombs, runs, replay, drain, history, bounds>>

(* Nothing has changed, the answer is suspicious, or an error puts back    *)
(* the rows captured before.                                               *)
LoadEnds ==
    /\ load.pc # "none"
    /\ rows' \in {rows, load.base}
    /\ load' = NoLoad
    /\ UNCHANGED <<server, disk, view, tombs, runs, replay, drain, history, bounds>>

(* loadMoreEmails: what the cache, else the next page of the server, holds *)
(* beyond the rows of the moment it was called.                            *)
DrainStarts ==
    /\ Reads
    /\ drain.pc = "none"
    /\ drain' = [pc |-> "asked", mbox |-> view, uids |-> rows]
    /\ UNCHANGED <<server, disk, list, runs, replay, load, history, crashes>>

DrainReads ==
    /\ drain.pc = "asked"
    /\ LET missing == UidsIn(sidecar, drain.mbox) \ drain.uids
       IN  drain' = IF missing # {}
                    THEN [drain EXCEPT !.pc = "cached", !.uids = missing]
                    ELSE [drain EXCEPT !.pc = "page", !.uids = UidsIn(server, drain.mbox)]
    /\ UNCHANGED <<server, disk, list, runs, replay, load, history, bounds>>

DrainCommits ==
    /\ drain.pc \in {"cached", "page"}
    /\ IF view = drain.mbox
       THEN /\ rows' = rows \cup drain.uids
            /\ sidecar' = IF drain.pc = "page"
                          THEN sidecar \cup Of(view, drain.uids \ rows) ELSE sidecar
       ELSE UNCHANGED <<rows, sidecar>>
    /\ drain' = NoDrain
    /\ UNCHANGED <<server, journal, view, tombs, runs, replay, load, history, bounds>>

(* The page fails, or its total is not the one of the list: then the list  *)
(* is loaded again.                                                        *)
DrainEnds ==
    /\ drain.pc = "asked"
    /\ drain' = NoDrain
    /\ load' \in {load, Asked(0)}
    /\ UNCHANGED <<server, disk, list, runs, replay, history, bounds>>

(* activateAccount opens a mailbox, the one on screen or another, and      *)
(* paints what some earlier moment left in memory or on disk.              *)
Visit(mb) ==
    /\ Reads
    /\ Quiet \/ "hurried" \in Env
    /\ view' = mb
    /\ rows' \in SUBSET UidsIn(Stored, mb)
    /\ UNCHANGED <<server, disk, tombs, runs, replay, readers, history, crashes>>

(* A reload, a quit or a crash of the web view, and the next launch.       *)
Crash ==
    /\ crashes < MaxCrashes /\ crashes' = crashes + 1
    /\ view' = Inbox /\ rows' = UidsIn(sidecar, Inbox) /\ tombs' = {}
    /\ runs' = [r \in RunId |-> IF Live(r) THEN Over ELSE runs[r]]
    /\ replay' = Launched /\ load' = NoLoad /\ drain' = NoDrain
    /\ erased' = {}
    /\ UNCHANGED <<server, disk, selected, owed, reads>>

-----------------------------------------------------------------------------
RunStep(r) ==
    \/ Queue(r) \/ Hide(r) \/ Clear(r) \/ Prune(r) \/ Reload(r) \/ Lift(r)
    \/ \E u \in Uid : Delete(r, u)

ReplayStep ==
    \/ ReplayReads \/ ReplayNext \/ ReplayClears \/ ReplayPrunes
    \/ \E u \in Uid : ReplayDeletes(u)

ReaderStep ==
    \/ LoadStarts \/ LoadFinds \/ LoadCommits \/ LoadEnds
    \/ DrainStarts \/ DrainReads \/ DrainCommits \/ DrainEnds

Next ==
    \/ \E r \in RunId : DeleteSelected(r) \/ RunStep(r)
    \/ ReplayStep \/ ReaderStep
    \/ \E mb \in Mailbox : Visit(mb)
    \/ Crash

Spec == Init /\ [][Next]_vars

(* Every IPC call and every request to the server returns, and the launch  *)
(* effect runs.                                                            *)
FairSpec == Spec /\ (\A r \in RunId : WF_vars(RunStep(r))) /\ WF_vars(ReplayStep)

-----------------------------------------------------------------------------
(* The journal as DeleteJournal specifies it.                              *)

(* What the server has answered and no clear has taken out yet.            *)
Tried == (UNION {{Addr(r, u) : u \in runs[r].uids \ runs[r].todo} :
                    r \in {q \in RunId : At(q, "delete")}})
         \cup Of(replay.mbox, replay.answered)

J == INSTANCE DeleteJournal WITH Messages <- Msg, hidden <- owed, tried <- Tried

-----------------------------------------------------------------------------
(* Properties                                                              *)

(* "the rows do not disappear until the delete is durable" (messageMuta-   *)
(* tions.js:559): a delete shown as done and not yet answered by the       *)
(* server is in the journal, in this session and after any crash.          *)
(* (Queue before Hide, Clear after the last answer, the replay's `done`)   *)
Durable == owed \subseteq journal

(* "UIDs are unique per mailbox and nowhere else" (pending_delete.rs:17):  *)
(* whatever the view does meanwhile, only an address the user chose is     *)
(* journalled or removed, by a run or by the replay of a later launch.     *)
OnlyTheChosen == journal \cup (Stored \ server) \subseteq selected

(* No refresh, however stale the rows it captured, shows a message again   *)
(* that this session deleted, unless the vault holds a message of its UID. *)
(* (deleteTombstones, kept after the delete and lifted for archived UIDs   *)
(* only, messageMutations.js:660)                                          *)
ArchivedUids == {m[2] : m \in Archived}
NoResurrection == \A m \in erased \cap Visible : m[2] \in ArchivedUids

(* "A message with no local copy keeps its tombstone forever" (message-    *)
(* Mutations.js:612).                                                      *)
DeletedStaysHidden == erased \cap Visible \subseteq Archived

(* No prune makes a header disappear "from a mailbox nobody touched"       *)
(* (messageMutations.js:699).                                              *)
UntouchedStayCached == server \ selected \subseteq sidecar

(* Every delete the user was shown as done is answered by the server,      *)
(* through a crash if need be, or kept for the next launch.                *)
Answered == (owed # {}) ~> (owed \subseteq replay.kept)

(* The calls, the replay and the crashes together keep the journal's       *)
(* promise: entered before hidden, deleted only while entered, struck out  *)
(* only when answered; a crash loses nothing but the answers.              *)
(* (messageMutations.js:577-680, replayPendingDeletes.js:91-160)           *)
ImplementsJournal == J!Spec
=============================================================================
