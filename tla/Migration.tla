----------------------------- MODULE Migration -----------------------------
(***************************************************************************)
(* Copying one account to another: src-tauri/src/migration.rs, the         *)
(* commands start_, pause_, resume_ and cancel_migration of commands.rs,   *)
(* and what services/migrationManager.js offers after a restart.           *)
(*                                                                         *)
(* A run is a native task with a pause and a cancel flag of its own; a     *)
(* resume starts a new run with fresh flags and leaves the paused one      *)
(* waiting for ever.  A step ends at a request, at a wait or at a load of  *)
(* the flags.                                                              *)
(***************************************************************************)
EXTENDS Integers, FiniteSets

CONSTANTS
    NFolders,      \* the folders of the source, in order
    Size,          \* Size[f]: how many messages folder f holds
    Id,            \* Id[m]: the Message-ID of m, or None; two may share one
    None,
    Folded,        \* the messages whose Message-ID is not on its header's line
    Transports,    \* the destinations to consider: "imap", "graph"
    MaxRuns,       \* the run that starts and its resumes
    MaxFaults,     \* failed or answerless requests
    Env            \* "hasty": a resume may come before the pause took hold;
                   \* "tokenless": a Graph source may come without its token

MFolders == 1 .. NFolders
Msgs == UNION {{f} \X (1 .. Size[f]) : f \in MFolders}
MessageIds == {Id[m] : m \in Msgs}
RunIds == 1 .. MaxRuns

MigrationAssumption ==
    /\ NFolders \in Nat \ {0} /\ MaxRuns \in Nat \ {0} /\ MaxFaults \in Nat
    /\ Size \in [MFolders -> Nat]
    /\ Transports \subseteq {"imap", "graph"}

VARIABLES
    transport,  \* dest_transport
    runs,       \* runs[r], see MigrationRun
    newest,     \* the run whose flags the commands hold
    file,       \* migration_state.json: a saved state, or the status "none"
    copies,     \* copies[m]: how often m is at the destination
    failed,     \* failed_uids, of all the runs
    unlisted,   \* history: the messages of folders listed without the token
    doubt,      \* history: m may be there though the run could not see it
    faults      \* how many requests have failed

migration == <<transport, runs, newest, file, copies, failed, unlisted, doubt, faults>>

-----------------------------------------------------------------------------
(***************************************************************************)
(* A run, its folder mapping, and what it saves.  A folder that a resume   *)
(* filtered out has the status "none".  late is history: messages copied   *)
(* after the run's cancel.                                                 *)
(***************************************************************************)
Status == {"none", "pending", "in_progress", "completed", "failed", "cancelled"}

MigrationRun ==
    [pc: {"off", "folder", "pausedAt", "list", "message", "held", "send",
          "retry", "done", "dead", "quit"},
     map: [MFolders -> Status], f: 1 .. NFolders + 1, i: Nat, ids: SUBSET MessageIds,
     ok: Nat, bad: Nat, anyOk: BOOLEAN, anyBad: BOOLEAN, limit: BOOLEAN,
     pause: BOOLEAN, cancel: BOOLEAN, token: BOOLEAN, late: Nat]

NewRun(pc, map, token) ==
    [pc |-> pc, map |-> map, f |-> 1, i |-> 1, ids |-> {}, ok |-> 0, bad |-> 0,
     anyOk |-> FALSE, anyBad |-> FALSE, limit |-> FALSE,
     pause |-> FALSE, cancel |-> FALSE, token |-> token, late |-> 0]

\* Whether the account a run is given holds what its source asks for.
Tokens == IF "tokenless" \in Env THEN BOOLEAN ELSE {TRUE}

Saved(status, map) == [status |-> status, map |-> map]
Nothing == Saved("none", [f \in MFolders |-> "none"])

AllPending == [f \in MFolders |-> "pending"]

\* resume_migration: the folders the saved state does not call completed.
Remaining(map) ==
    [f \in MFolders |-> IF map[f] = "completed" THEN "none" ELSE map[f]]

Over(r) == runs[r].pc \in {"off", "done", "dead", "quit"}
Resting(r) == runs[r].pause /\ ~runs[r].cancel /\ runs[r].pc \in {"pausedAt", "held"}
InHand(r) == <<runs[r].f, runs[r].i>>

Init ==
    /\ transport \in Transports
    /\ \E token \in Tokens :
         runs = [r \in RunIds |-> IF r = 1 THEN NewRun("folder", AllPending, token)
                                  ELSE NewRun("off", AllPending, TRUE)]
    /\ newest = 1
    /\ file = Nothing
    /\ copies = [m \in Msgs |-> 0]
    /\ failed = {} /\ unlisted = {} /\ doubt = {}
    /\ faults = 0

Becomes(r, run) == runs' = [runs EXCEPT ![r] = run]

Faulty == faults < MaxFaults /\ faults' = faults + 1

-----------------------------------------------------------------------------
(***************************************************************************)
(* The folder loop.                                                        *)
(***************************************************************************)
FinalStatus(run) ==
    IF run.cancel THEN "cancelled"
    ELSE IF run.limit \/ (run.anyBad /\ ~run.anyOk) THEN "failed"
    ELSE "completed"

KeptAtTheEnd(run) == Saved(FinalStatus(run), run.map)                \* slip

\* A cancel discards the saved state.
AtTheEnd(run) == IF run.cancel THEN Nothing ELSE Saved(FinalStatus(run), run.map)

\* Behind the loop.
Finishes(r, run) ==
    /\ Becomes(r, [run EXCEPT !.pc = "done"])
    /\ file' = AtTheEnd(run)

FolderHead(r) ==
    LET run == runs[r] IN
    /\ run.pc = "folder"
    /\ \/ /\ run.f > NFolders
          /\ Finishes(r, run)
       \/ /\ run.f <= NFolders /\ run.map[run.f] = "none"
          /\ Becomes(r, [run EXCEPT !.f = @ + 1])
          /\ file' = file
       \/ /\ run.f <= NFolders /\ run.map[run.f] # "none" /\ run.cancel
          /\ Finishes(r, [run EXCEPT !.map[run.f] = "cancelled"])
       \/ /\ run.f <= NFolders /\ run.map[run.f] # "none" /\ ~run.cancel /\ run.pause
          /\ Becomes(r, [run EXCEPT !.pc = "pausedAt"])
          /\ file' = Saved("paused", run.map)
       \/ /\ run.f <= NFolders /\ run.map[run.f] # "none" /\ ~run.cancel /\ ~run.pause
          /\ Becomes(r, [run EXCEPT !.pc = "list", !.map[run.f] = "in_progress"])
          /\ file' = file
    /\ UNCHANGED <<transport, newest, copies, failed, unlisted, doubt, faults>>

\* The wait of a paused run at a folder ends with its own cancel only: a
\* resume makes new flags.
PausedFolderCancelled(r) ==
    LET run == runs[r] IN
    /\ run.pc = "pausedAt" /\ run.cancel
    /\ Becomes(r, [run EXCEPT !.pc = "list", !.map[run.f] = "in_progress"])
    /\ UNCHANGED <<transport, newest, file, copies, failed, unlisted, doubt, faults>>

\* The destination shows the Message-ID of a message there: an IMAP server's
\* answer is read line by line, so that a folded one comes out empty, though
\* the source's is unfolded.
Recognised(m) == Id[m] # None /\ (transport = "imap" => m \notin Folded)

KnownNever(f) == {}                                                  \* slip

\* fetch_dest_message_ids: what the folder holds now.
KnownThere(f) ==
    {Id[m] : m \in {n \in Msgs : n[1] = f /\ copies[n] > 0 /\ Recognised(n)}}

\* The messages of the folder that are there and not among ids.
Overlooked(f, ids) ==
    {m \in Msgs : m[1] = f /\ copies[m] > 0 /\ Recognised(m) /\ Id[m] \notin ids}

Enters(r, ids, i) ==
    Becomes(r, [runs[r] EXCEPT !.pc = "message", !.i = i, !.ok = 0, !.bad = 0, !.ids = ids])

\* The destination folder is there, its Message-IDs and the source's UIDs are
\* known.
Lists(r) ==
    LET run == runs[r] IN
    /\ run.pc = "list" /\ run.token
    /\ Enters(r, KnownThere(run.f), 1)
    /\ UNCHANGED <<transport, newest, file, copies, failed, unlisted, doubt, faults>>

\* The Message-IDs could not be read, or the list broke off, which passes for
\* its end: what it lacks does not count as a duplicate.
ListsBlind(r) ==
    LET run == runs[r] IN
    /\ run.pc = "list" /\ run.token /\ Faulty
    /\ \E ids \in (SUBSET KnownThere(run.f)) \ {KnownThere(run.f)} :
         /\ Enters(r, ids, 1)
         /\ doubt' = doubt \cup Overlooked(run.f, ids)
    /\ UNCHANGED <<transport, newest, file, copies, failed, unlisted>>

\* Without its access token a Graph source lists nothing: the folder is over.
ListsNothing(r) ==
    LET run == runs[r] IN
    /\ run.pc = "list" /\ ~run.token
    /\ Enters(r, {}, Size[run.f] + 1)
    /\ unlisted' = unlisted \cup {m \in Msgs : m[1] = run.f}
    /\ UNCHANGED <<transport, newest, file, copies, failed, doubt, faults>>

\* The folder cannot be made at the destination: the next one.
FolderFails(r) ==
    LET run == runs[r] IN
    /\ run.pc = "list" /\ Faulty
    /\ Becomes(r, [run EXCEPT !.pc = "folder", !.f = @ + 1, !.map[run.f] = "failed"])
    /\ UNCHANGED <<transport, newest, file, copies, failed, unlisted, doubt>>

\* An error of the pool, of SELECT or of the source's list ends the task: it
\* saves nothing and says nothing.
Dies(r) ==
    /\ runs[r].pc \in {"list", "send", "retry"} /\ Faulty
    /\ Becomes(r, [runs[r] EXCEPT !.pc = "dead"])
    /\ UNCHANGED <<transport, newest, file, copies, failed, unlisted, doubt>>

-----------------------------------------------------------------------------
(***************************************************************************)
(* The messages of one folder.                                             *)
(***************************************************************************)
\* A message whose Message-ID is there already is skipped, any other is sent.
Taken(r, run) ==
    Becomes(r, IF Id[InHand(r)] \in run.ids
               THEN [run EXCEPT !.pc = "message", !.i = @ + 1]
               ELSE [run EXCEPT !.pc = "send"])

StopsOnlyAtTheEnd(run) == run.i > Size[run.f] \/ run.limit           \* slip

Stops(run) == run.i > Size[run.f] \/ run.cancel \/ run.limit

ClosedWhateverFailed(run) ==                                         \* slip
    IF run.cancel THEN "cancelled" ELSE "completed"

Closed(run) ==
    IF run.cancel THEN "cancelled"
    ELSE IF run.limit \/ (run.bad > 0 /\ run.ok = 0) THEN "failed"
    ELSE "completed"

MessageHead(r) ==
    LET run == runs[r] IN
    /\ run.pc = "message" /\ ~Stops(run)
    /\ IF run.pause THEN Becomes(r, [run EXCEPT !.pc = "held"]) ELSE Taken(r, run)
    /\ UNCHANGED <<transport, newest, file, copies, failed, unlisted, doubt, faults>>

HeldWhilePaused(r) ==                                                \* slip
    /\ runs[r].pc = "held" /\ ~runs[r].pause
    /\ Taken(r, runs[r])
    /\ UNCHANGED <<transport, newest, file, copies, failed, unlisted, doubt, faults>>

\* A cancel ends the wait, and the message in hand still goes.
HeldCancelled(r) ==
    /\ runs[r].pc = "held" /\ runs[r].cancel
    /\ Taken(r, runs[r])
    /\ UNCHANGED <<transport, newest, file, copies, failed, unlisted, doubt, faults>>

\* The folder's status, the checkpoint, and the break at the daily limit.
FolderCloses(r) ==
    /\ runs[r].pc = "message" /\ Stops(runs[r])
    /\ LET run == [runs[r] EXCEPT !.map[runs[r].f] = Closed(runs[r])] IN
       IF run.limit
       THEN Finishes(r, run)
       ELSE /\ Becomes(r, [run EXCEPT !.pc = "folder", !.f = @ + 1])
            /\ file' = Saved("running", run.map)
    /\ UNCHANGED <<transport, newest, copies, failed, unlisted, doubt, faults>>

Copied(r) ==
    copies' = [copies EXCEPT ![InHand(r)] = @ + 1]

AfterOk(run) ==
    [run EXCEPT !.pc = "message", !.i = @ + 1, !.ok = @ + 1, !.anyOk = TRUE]

AfterBad(run) ==
    [run EXCEPT !.pc = "message", !.i = @ + 1, !.bad = @ + 1, !.anyBad = TRUE]

LateBy(run) == IF run.cancel THEN 1 ELSE 0

\* The first attempt or, two seconds later, the second.
Sends(r) ==
    LET run == runs[r] IN
    /\ run.pc \in {"send", "retry"}
    /\ Copied(r)
    /\ Becomes(r, [AfterOk(run) EXCEPT !.late = @ + LateBy(run)])
    /\ UNCHANGED <<transport, newest, file, failed, unlisted, doubt, faults>>

\* An error; the server may have taken the message all the same.
SendFails(r) ==
    LET run == runs[r] IN
    /\ run.pc \in {"send", "retry"} /\ Faulty
    /\ \E taken \in BOOLEAN :
         /\ IF taken THEN Copied(r) ELSE copies' = copies
         /\ doubt' = IF taken THEN doubt \cup {InHand(r)} ELSE doubt
         /\ IF run.pc = "send"
            THEN /\ Becomes(r, [run EXCEPT !.pc = "retry"])
                 /\ failed' = failed
            ELSE /\ Becomes(r, AfterBad(run))
                 /\ failed' = failed \cup {InHand(r)}
    /\ UNCHANGED <<transport, newest, file, unlisted>>

\* The daily limit, on either attempt: the message failed and the run stops.
LimitHit(r) ==
    LET run == runs[r] IN
    /\ run.pc \in {"send", "retry"} /\ Faulty
    /\ Becomes(r, [AfterBad(run) EXCEPT !.limit = TRUE])
    /\ failed' = failed \cup {InHand(r)}
    /\ UNCHANGED <<transport, newest, file, copies, unlisted, doubt>>

-----------------------------------------------------------------------------
(***************************************************************************)
(* The commands, and the app that quits.                                   *)
(***************************************************************************)
Pause ==
    /\ ~Over(newest) /\ ~runs[newest].pause /\ ~runs[newest].cancel
    /\ Becomes(newest, [runs[newest] EXCEPT !.pause = TRUE])
    /\ UNCHANGED <<transport, newest, file, copies, failed, unlisted, doubt, faults>>

Cancel ==
    /\ ~Over(newest) /\ ~runs[newest].cancel
    /\ Becomes(newest, [runs[newest] EXCEPT !.cancel = TRUE])
    /\ UNCHANGED <<transport, newest, file, copies, failed, unlisted, doubt, faults>>

\* Resume, of a paused run, of one that died unseen, or of what a restart
\* offers: nothing without a saved state, which a pause within the first
\* folder does not write.
Resume ==
    /\ newest < MaxRuns /\ file.status # "none"
    /\ \/ ~Over(newest) /\ runs[newest].pause /\ ~runs[newest].cancel
          /\ ("hasty" \in Env \/ Resting(newest))
       \/ runs[newest].pc = "dead"
       \/ runs[newest].pc = "quit" /\ file.status = "paused"
    /\ newest' = newest + 1
    /\ \E token \in Tokens :
         Becomes(newest', NewRun("folder", Remaining(file.map), token))
    /\ UNCHANGED <<transport, file, copies, failed, unlisted, doubt, faults>>

\* The app quits with whatever is saved.
Quits ==
    /\ \E r \in RunIds : runs[r].pc \notin {"off", "done", "quit"}
    /\ runs' = [r \in RunIds |-> IF runs[r].pc \in {"off", "done"} THEN runs[r]
                                 ELSE [runs[r] EXCEPT !.pc = "quit"]]
    /\ UNCHANGED <<transport, newest, file, copies, failed, unlisted, doubt, faults>>

-----------------------------------------------------------------------------
Step(r) ==
    \/ FolderHead(r) \/ PausedFolderCancelled(r)
    \/ Lists(r) \/ ListsBlind(r) \/ ListsNothing(r) \/ FolderFails(r) \/ Dies(r)
    \/ MessageHead(r) \/ HeldCancelled(r) \/ FolderCloses(r)
    \/ Sends(r) \/ SendFails(r) \/ LimitHit(r)

System == \E r \in RunIds : Step(r)

Next == System \/ Pause \/ Cancel \/ Resume \/ Quits

Spec == Init /\ [][Next]_migration

\* A request ends and a wait ends: a run that can go on does.  The user and
\* the quitting app are free.
FairSpec == Spec /\ WF_migration(System)

-----------------------------------------------------------------------------
TypeOK ==
    /\ transport \in Transports
    /\ runs \in [RunIds -> MigrationRun]
    /\ newest \in RunIds
    /\ file \in [status: {"none", "running", "paused", "completed", "failed"},
                 map: [MFolders -> Status]]
    /\ copies \in [Msgs -> Nat]
    /\ UNION {failed, unlisted, doubt} \subseteq Msgs
    /\ faults \in 0 .. MaxFaults

(***************************************************************************)
(* A folder that a run or the saved state calls completed, and which a     *)
(* resume will not look at again, has of every message a copy at the       *)
(* destination, or one of a message with the same Message-ID, or has it    *)
(* among the failed ones.  Except for the folders that a Graph source      *)
(* without its access token listed as empty (migration.rs:836-838): they   *)
(* are completed with nothing copied.                                      *)
(* (migration.rs:930-940, 1295-1330, commands.rs:1280-1290)                *)
(***************************************************************************)
Arrived(m) ==
    \/ copies[m] > 0
    \/ Id[m] # None /\ \E n \in Msgs : n[1] = m[1] /\ Id[n] = Id[m] /\ copies[n] > 0

CompletedIsCopied ==
    \A map \in {runs[r].map : r \in RunIds} \cup {file.map} :
        \A m \in Msgs :
            map[m[1]] = "completed" => Arrived(m) \/ m \in failed \cup unlisted

(***************************************************************************)
(* Pauses, resumes, restarts and failed folders do not copy a message      *)
(* twice: the Message-IDs are read afresh for every folder begun again.    *)
(* Except where a request left the run in doubt of what the destination    *)
(* holds, and for a message whose Message-ID the destination does not show *)
(* (none, or folded: 264-274), which every further run copies again.       *)
(* (migration.rs:757-789, 930-959)                                         *)
(***************************************************************************)
NothingTwice == \A m \in Msgs : copies[m] > 1 => m \in doubt \/ ~Recognised(m)

(***************************************************************************)
(* After a cancel a run copies no more than the message it has in hand.    *)
(* (migration.rs:849-866, 1088-1090)                                       *)
(***************************************************************************)
CancelStops == \A r \in RunIds : runs[r].late <= 1

(***************************************************************************)
(* A run that is not paused comes to its end, whatever fails: the waits    *)
(* for a flag end with that flag.  (migration.rs:488-498, 650-694, 848-866)*)
(***************************************************************************)
AtRest == \A r \in RunIds : Over(r) \/ Resting(r)
RunsEnd == []<>AtRest
=============================================================================
