------------------------- MODULE BackupCoordinator -------------------------
(***************************************************************************)
(* Backups of whole accounts: services/backupScheduler.js queues them and  *)
(* pauses them for the user, the network and sleep, as                     *)
(* hooks/useBackupScheduler.js tells it, and src-tauri/src/backup.rs walks *)
(* the folders of one account under a cancel flag.                         *)
(*                                                                         *)
(* A JavaScript action runs to the next await; the native run steps        *)
(* between the flag's loads.  There is one message in a folder, enough for *)
(* a cancel to land before or within the folder.                           *)
(***************************************************************************)
EXTENDS Integers, Sequences, FiniteSets

CONSTANTS
    Order,          \* the accounts, in the store's order, backups enabled
    Folders,        \* Folders[a]: how many selectable folders a has
    None,           \* no account
    MaxRetries,     \* the length of RETRY_DELAYS (the code: 3)
    MaxInterrupts,  \* user activity, sleeps and network outages
    MaxAsks,        \* manual backups
    MaxFails        \* failed requests, fetches and credentials

Accounts == {Order[i] : i \in DOMAIN Order}

ASSUME BackupAssumption ==
    /\ Order \in Seq(Accounts)
    /\ \A i, j \in DOMAIN Order : Order[i] = Order[j] => i = j
    /\ None \notin Accounts
    /\ Folders \in [Accounts -> Nat \ {0}]
    /\ {MaxRetries, MaxInterrupts, MaxAsks, MaxFails} \subseteq Nat

VARIABLES
    co,          \* the coordinator's own fields, see Coordinator
    waiting,     \* _manualResolvers: accounts with an unanswered promise
    checkpoint,  \* _checkpoints: folders the next run skips
    retries,     \* _retryCount
    timers,      \* what is set: <<"retry", a>>, "check", "wake", "clear"
    due,         \* due[a], by computeNextEligibleTime: notyet, due, done
    wasIdle,     \* the hook's wasIdleRef
    online,      \* navigator.onLine
    rust,        \* the native run under way, or its result
    stored,      \* <<account, folder>> whose message is in the Maildir
    used         \* what has been used of each bound

hook == <<wasIdle, online>>
books == <<checkpoint, retries, due>>
vars == <<co, waiting, timers, books, hook, rust, stored, used>>

AllFolders == UNION {{a} \X (1 .. Folders[a]) : a \in Accounts}

-----------------------------------------------------------------------------
(***************************************************************************)
(* The coordinator.  pc says where the loop of _processQueue is: off,      *)
(* awaiting the credentials, or awaiting the native run; queueRunning and  *)
(* _running follow from it.  shown is the manual flag of the backup on     *)
(* display, which onUserActive consults.                                   *)
(***************************************************************************)
Pauses == {"paused_sleep", "paused_offline", "paused_user_active"}

Coordinator ==
    [state: {"idle", "running"} \cup Pauses, queue: Seq(Accounts),
     manual: SUBSET Accounts, interrupted: Accounts \cup {None},
     pc: {"off", "resolving", "invoked"}, acct: Accounts \cup {None},
     isManual: BOOLEAN, saved: Pauses \cup {"none"},
     shown: {"none", "auto", "manual"}]

Paused(c) == c.state \in Pauses
Queued(c) == {c.queue[i] : i \in DOMAIN c.queue}
Active(c) == c.pc # "off"
Running(c, a) == Active(c) /\ c.acct = a

\* The loop leaves: queueRunning = false.
Ends(c) ==
    [c EXCEPT !.pc = "off", !.acct = None, !.isManual = FALSE, !.saved = "none",
              !.state = IF @ = "running" THEN "idle" ELSE @]

BeginsUnmarked(c) ==                                                 \* slip
    LET a == Head(c.queue) IN
    [c EXCEPT !.queue = Tail(@), !.manual = @ \ {a}, !.pc = "resolving",
              !.acct = a, !.isManual = a \in c.manual,
              !.saved = IF Paused(c) THEN c.state ELSE "none",
              !.state = "running"]

BeginsAlwaysSaves(c) ==                                              \* slip
    LET a == Head(c.queue) IN
    [c EXCEPT !.queue = Tail(@), !.manual = @ \ {a}, !.pc = "resolving",
              !.acct = a, !.isManual = a \in c.manual,
              !.saved = c.state, !.state = "running",
              !.shown = IF a \in c.manual THEN "manual" ELSE "auto"]

\* The head of the queue starts: _runBackup up to its first await.
Begins(c) ==
    LET a == Head(c.queue) IN
    [c EXCEPT !.queue = Tail(@), !.manual = @ \ {a}, !.pc = "resolving",
              !.acct = a, !.isManual = a \in c.manual,
              !.saved = IF Paused(c) THEN c.state ELSE "none",
              !.state = "running",
              !.shown = IF a \in c.manual THEN "manual" ELSE "auto"]

Blocked(c) == c.queue = <<>> \/ (Paused(c) /\ Head(c.queue) \notin c.manual)
LoopHead(c) == IF Blocked(c) THEN Ends(c) ELSE Begins(c)

\* _processQueue, up to its first await.
Processed(c) ==
    IF Active(c) \/ c.queue = <<>> \/ (Paused(c) /\ Queued(c) \cap c.manual = {})
    THEN c ELSE LoopHead(c)

\* The rest of the loop once _runBackup has returned.
AfterRun(c) ==
    LET r == [c EXCEPT !.state = IF c.saved # "none" /\ ~Paused(c) THEN c.saved ELSE @]
    IN  IF Paused(r) THEN Ends(r) ELSE LoopHead(r)

\* queueBackup.
WithQueued(c, a) ==
    IF Running(c, a) \/ a \in Queued(c) THEN c
    ELSE Processed([c EXCEPT !.queue = Append(@, a)])

\* The accounts that are due and neither queued nor under way, in the store's
\* order: there is one such sequence.
NewlyDue(c) ==
    LET new == {a \in Accounts : due[a] = "due" /\ ~Running(c, a) /\ a \notin Queued(c)}
    IN  {s \in [1 .. Cardinality(new) -> new] :
            \A i, j \in DOMAIN s : i < j =>
                \E k, l \in DOMAIN Order : k < l /\ Order[k] = s[i] /\ Order[l] = s[j]}

\* checkAndQueueDue, for the new ones.
WithDue(c, new) ==
    IF Paused(c) \/ new = <<>> THEN c ELSE Processed([c EXCEPT !.queue = @ \o new])

\* _resumeInterrupted, after the state has gone back to idle.
Resumed(c) ==
    LET a == c.interrupted
        again == a # None /\ a \notin Queued(c) /\ ~Running(c, a)
    IN  [c EXCEPT !.state = "idle", !.interrupted = None,
                  !.queue = IF again THEN <<a>> \o @ ELSE @]

\* _showNextOrDone, of the finally block: the next in the queue, or the
\* finished one for three seconds more.
NextShown(c) ==
    IF ~Paused(c) /\ c.queue # <<>> THEN [c EXCEPT !.shown = "auto"] ELSE c
ClearSet(c) ==
    IF ~Paused(c) /\ c.queue = <<>> /\ c.shown # "none" THEN {<<"clear">>} ELSE {}

-----------------------------------------------------------------------------
(***************************************************************************)
(* The native run.  flag is its cancel token, fresh for every run; late is *)
(* history: the coordinator was paused already when the run was asked for. *)
(***************************************************************************)
NoRun == [pc |-> "none", folder |-> 0, skip |-> 0, flag |-> FALSE,
          errors |-> FALSE, late |-> FALSE]

RustRun ==
    [pc: {"none", "folder", "fetch", "cancelled", "complete", "error"},
     folder: Nat, skip: Nat, flag: BOOLEAN, errors: BOOLEAN, late: BOOLEAN]

RunUnderWay == rust.pc \in {"folder", "fetch"}

\* backup_cancel: it sets the token of the newest run, if that still looks.
Cancelled == [rust EXCEPT !.flag = @ \/ RunUnderWay]

Spent(what) == used' = [used EXCEPT ![what] = @ + 1]

Init ==
    /\ co = [state |-> "idle", queue |-> <<>>, manual |-> {}, interrupted |-> None,
             pc |-> "off", acct |-> None, isManual |-> FALSE, saved |-> "none",
             shown |-> "none"]
    /\ waiting = {} /\ timers = {}
    /\ checkpoint = [a \in Accounts |-> 0]
    /\ retries = [a \in Accounts |-> 0]
    /\ due = [a \in Accounts |-> "notyet"]
    /\ wasIdle = FALSE /\ online = TRUE
    /\ rust = NoRun
    /\ stored = {}
    /\ used = [interrupts |-> 0, asks |-> 0, fails |-> 0]

-----------------------------------------------------------------------------
(***************************************************************************)
(* What the hook reports.                                                  *)
(***************************************************************************)
PausesUncancelled(reason) ==                                         \* slip
    /\ co' = [co EXCEPT !.state = reason,
                        !.interrupted = IF Active(co) THEN co.acct ELSE @]
    /\ rust' = rust

\* _pauseCurrentBackup, with the state it leaves.
PausesFor(reason) ==
    /\ co' = [co EXCEPT !.state = reason,
                        !.interrupted = IF Active(co) THEN co.acct ELSE @]
    /\ rust' = IF Active(co) THEN Cancelled ELSE rust

\* markActive, onUserActive: a manual backup goes on.
UserActs ==
    /\ wasIdle /\ used.interrupts < MaxInterrupts
    /\ Spent("interrupts")
    /\ wasIdle' = FALSE
    /\ IF co.state = "running" /\ co.shown # "manual"
       THEN PausesFor("paused_user_active")
       ELSE UNCHANGED <<co, rust>>
    /\ UNCHANGED <<waiting, timers, books, online, stored>>

\* The interval of an idle user: onUserIdle once, checkAndQueueDue each time.
IdleTick ==
    /\ LET wakes == ~wasIdle /\ co.state = "paused_user_active"
           c == IF wakes THEN Resumed(co) ELSE co
       IN  /\ \E new \in NewlyDue(c) : co' = WithDue(c, new)
           /\ timers' = timers \cup (IF wakes THEN {<<"check">>} ELSE {})
    /\ wasIdle' = TRUE
    /\ UNCHANGED <<waiting, books, online, rust, stored, used>>

\* The heartbeat finds a gap: onSleep now, onWake when the network is back.
SleepNoticed ==
    /\ used.interrupts < MaxInterrupts
    /\ Spent("interrupts")
    /\ timers' = timers \cup {<<"wake">>}
    /\ IF co.state \in {"running", "idle"}
       THEN PausesFor("paused_sleep")
       ELSE UNCHANGED <<co, rust>>
    /\ UNCHANGED <<waiting, books, hook, stored>>

Wakes ==
    /\ <<"wake">> \in timers
    /\ IF co.state = "paused_sleep"
       THEN /\ co' = Resumed(co)
            /\ timers' = (timers \ {<<"wake">>}) \cup {<<"check">>}
       ELSE timers' = timers \ {<<"wake">>} /\ co' = co
    /\ UNCHANGED <<waiting, books, hook, rust, stored, used>>

Offline ==
    /\ online /\ used.interrupts < MaxInterrupts
    /\ Spent("interrupts")
    /\ online' = FALSE
    /\ IF co.state \in {"running", "idle"}
       THEN PausesFor("paused_offline")
       ELSE UNCHANGED <<co, rust>>
    /\ UNCHANGED <<waiting, timers, books, wasIdle, stored>>

Online ==
    /\ ~online
    /\ online' = TRUE
    /\ IF co.state = "paused_offline"
       THEN co' = Resumed(co) /\ timers' = timers \cup {<<"check">>}
       ELSE UNCHANGED <<co, timers>>
    /\ UNCHANGED <<waiting, books, wasIdle, rust, stored, used>>

\* The configured time of a comes: computeNextEligibleTime is past.
ComesDue(a) ==
    /\ due[a] = "notyet"
    /\ due' = [due EXCEPT ![a] = "due"]
    /\ UNCHANGED <<co, waiting, timers, checkpoint, retries, hook,
                   rust, stored, used>>

\* triggerManualBackup, by a card that awaits its promise before the next.
TriggerManual(a) ==
    /\ a \notin waiting /\ used.asks < MaxAsks
    /\ Spent("asks")
    /\ waiting' = waiting \cup {a}
    /\ co' = WithQueued([co EXCEPT !.manual = @ \cup {a}], a)
    /\ UNCHANGED <<timers, books, hook, rust, stored>>

-----------------------------------------------------------------------------
(***************************************************************************)
(* Timers.                                                                 *)
(***************************************************************************)
CheckFires ==
    /\ <<"check">> \in timers
    /\ timers' = timers \ {<<"check">>}
    /\ \E new \in NewlyDue(co) : co' = WithDue(co, new)
    /\ UNCHANGED <<waiting, books, hook, rust, stored, used>>

RetryFires(a) ==
    /\ <<"retry", a>> \in timers
    /\ timers' = timers \ {<<"retry", a>>}
    /\ co' = WithQueued(co, a)
    /\ UNCHANGED <<waiting, books, hook, rust, stored, used>>

\* The finished backup leaves the display, or the one begun since does.
ClearFires ==
    /\ <<"clear">> \in timers
    /\ timers' = timers \ {<<"clear">>}
    /\ co' = [co EXCEPT !.shown = "none"]
    /\ UNCHANGED <<waiting, books, hook, rust, stored, used>>

-----------------------------------------------------------------------------
(***************************************************************************)
(* One backup.                                                             *)
(***************************************************************************)
AnswersOwn(a) ==                                                     \* slip
    waiting' = IF co.isManual THEN waiting \ {a} ELSE waiting

\* _resolveManual, whoever started the run.
Answers(a) == waiting' = waiting \ {a}

\* resolveServerAccount has no usable credentials: the account stays due.
CredentialsFail ==
    /\ co.pc = "resolving" /\ used.fails < MaxFails
    /\ Spent("fails")
    /\ Answers(co.acct)
    /\ co' = AfterRun([co EXCEPT !.shown = "none"])
    /\ UNCHANGED <<timers, books, hook, rust, stored>>

\* backupRunAccount: the command puts a fresh token in place.
RunStarts ==
    /\ co.pc = "resolving"
    /\ co' = [co EXCEPT !.pc = "invoked"]
    /\ rust' = [NoRun EXCEPT !.pc = "folder", !.folder = 1,
                             !.skip = checkpoint[co.acct], !.late = Paused(co)]
    /\ UNCHANGED <<waiting, timers, books, hook, stored, used>>

SkipsOneMore(i) == i <= rust.skip + 1                                \* slip

\* Folders completed by the run that was cancelled.
Skips(i) == i <= rust.skip

\* The head of the folder loop: cancelled, past the last, skipped, searched.
FolderBegins ==
    /\ rust.pc = "folder"
    /\ rust' =
         IF rust.folder > Folders[co.acct] THEN [rust EXCEPT !.pc = "complete"]
         ELSE IF rust.flag THEN [rust EXCEPT !.pc = "cancelled"]
         ELSE IF Skips(rust.folder) \/ <<co.acct, rust.folder>> \in stored
              THEN [rust EXCEPT !.folder = @ + 1]
         ELSE [rust EXCEPT !.pc = "fetch"]
    /\ UNCHANGED <<co, waiting, timers, books, hook, stored, used>>

\* archive::run_with_backup, under the same flag; whatever it leaves out, the
\* folder counts as completed.
Fetches ==
    /\ rust.pc = "fetch"
    /\ rust' = [rust EXCEPT !.pc = "folder", !.folder = @ + 1]
    /\ stored' = IF rust.flag THEN stored ELSE stored \cup {<<co.acct, rust.folder>>}
    /\ UNCHANGED <<co, waiting, timers, books, hook, used>>

\* The message cannot be fetched; at the provider's daily limit the archive
\* sets the run's own flag.
FetchFails ==
    /\ rust.pc = "fetch" /\ ~rust.flag /\ used.fails < MaxFails
    /\ Spent("fails")
    /\ \E limit \in BOOLEAN :
            rust' = [rust EXCEPT !.pc = "folder", !.folder = @ + 1,
                                 !.errors = TRUE, !.flag = limit]
    /\ UNCHANGED <<co, waiting, timers, books, hook, stored>>

\* A pool, list or search failure ends the whole run with an error.
RunFails ==
    /\ rust.pc = "folder" /\ used.fails < MaxFails
    /\ Spent("fails")
    /\ rust' = [rust EXCEPT !.pc = "error"]
    /\ UNCHANGED <<co, waiting, timers, books, hook, stored>>

\* What every way out of the run's try block goes through.
Finally(c, more) ==
    /\ co' = AfterRun(NextShown(c))
    /\ timers' = timers \cup ClearSet(c) \cup more
    /\ rust' = NoRun

\* A cancelled run: its completed folders are skipped next time.
HandlesCancelled ==
    /\ rust.pc = "cancelled"
    /\ checkpoint' = [checkpoint EXCEPT ![co.acct] = rust.folder - 1]
    /\ Answers(co.acct)
    /\ Finally(co, {})
    /\ UNCHANGED <<retries, due, hook, stored, used>>

\* A run that went through, with or without errors.
HandlesComplete ==
    /\ rust.pc = "complete"
    /\ LET a == co.acct IN
       /\ checkpoint' = [checkpoint EXCEPT ![a] = 0]
       /\ retries' = [retries EXCEPT ![a] = 0]
       /\ due' = [due EXCEPT ![a] = "done"]
       /\ Answers(a)
    /\ Finally(co, {})
    /\ UNCHANGED <<hook, stored, used>>

\* A rejected run: interrupted, tried again later, or given up.
HandlesError ==
    /\ rust.pc = "error"
    /\ LET a == co.acct IN
       \/ /\ Paused(co)
          /\ Answers(a)
          /\ Finally([co EXCEPT !.interrupted = a], {})
          /\ UNCHANGED <<retries, due>>
       \/ /\ ~Paused(co) /\ a \notin waiting /\ retries[a] < MaxRetries
          /\ retries' = [retries EXCEPT ![a] = @ + 1]
          /\ Finally(co, {<<"retry", a>>})
          /\ UNCHANGED <<waiting, due>>
       \/ /\ ~Paused(co) /\ (a \in waiting \/ retries[a] = MaxRetries)
          /\ retries' = [retries EXCEPT ![a] = 0]
          /\ due' = [due EXCEPT ![a] = "done"]
          /\ Answers(a)
          /\ Finally(co, {})
    /\ UNCHANGED <<checkpoint, hook, stored, used>>

-----------------------------------------------------------------------------
System ==
    \/ IdleTick \/ Wakes \/ Online \/ CheckFires \/ ClearFires
    \/ \E a \in Accounts : RetryFires(a)
    \/ CredentialsFail \/ RunStarts
    \/ FolderBegins \/ Fetches \/ FetchFails \/ RunFails
    \/ HandlesCancelled \/ HandlesComplete \/ HandlesError

User ==
    \/ UserActs \/ SleepNoticed \/ Offline
    \/ \E a \in Accounts : ComesDue(a) \/ TriggerManual(a)

Next == System \/ User

Spec == Init /\ [][Next]_vars

\* Intervals and timers fire, requests return, an outage ends, and a user who
\* interrupts no more (MaxInterrupts) is idle at some tick of the interval.
FairSpec == Spec /\ WF_vars(System)

-----------------------------------------------------------------------------
TypeOK ==
    /\ co \in Coordinator
    /\ waiting \subseteq Accounts
    /\ checkpoint \in [Accounts -> Nat]
    /\ \A a \in Accounts : checkpoint[a] <= Folders[a]
    /\ retries \in [Accounts -> 0 .. MaxRetries]
    /\ timers \subseteq {<<"check">>, <<"wake">>, <<"clear">>} \cup ({"retry"} \X Accounts)
    /\ due \in [Accounts -> {"notyet", "due", "done"}]
    /\ wasIdle \in BOOLEAN /\ online \in BOOLEAN
    /\ rust \in RustRun
    /\ stored \subseteq AllFolders
    /\ used \in [interrupts : 0 .. MaxInterrupts, asks : 0 .. MaxAsks, fails : 0 .. MaxFails]

(***************************************************************************)
(* A run that reports no errors has stored the message of every folder it  *)
(* did not skip, unless it was cancelled: a cancel that lands in the last  *)
(* folder is not reported, the loop ends without looking at the flag       *)
(* again.  (backup.rs:670-785, 820)                                        *)
(***************************************************************************)
SuccessIsComplete ==
    rust.pc = "complete" /\ ~rust.errors /\ ~rust.flag =>
        \A i \in 1 .. Folders[co.acct] :
            i > rust.skip => <<co.acct, i>> \in stored

(***************************************************************************)
(* "Cancel the Rust-side backup" (backupScheduler.js:509): while the       *)
(* coordinator is paused, the run under way has been told to stop.  Not    *)
(* the run that was asked for when the pause had already come: the cancel  *)
(* went to the token of the run before, and nothing looks at the state     *)
(* between resolveServerAccount and backupRunAccount.                      *)
(***************************************************************************)
PauseStopsTheRun ==
    Paused(co) /\ RunUnderWay /\ ~rust.late => rust.flag

(***************************************************************************)
(* "Only pause automatic backups, not manual ones" (backupScheduler.js:    *)
(* 56): the flag that onUserActive consults is that of the backup under    *)
(* way, unless the timer of the one before took it off the display.        *)
(***************************************************************************)
DisplayTellsManual ==
    Active(co) => co.shown \in {"none", IF co.isManual THEN "manual" ELSE "auto"}

\* The loop is off and the queue is not empty: queueBackup of an account that
\* is in it returns before _processQueue, so only another account helps.
Stranded == ~Active(co) /\ co.queue # <<>>

\* A pause whose reason has gone, put back after a manual backup.
StalePause ==
    \/ co.state = "paused_offline" /\ online
    \/ co.state = "paused_sleep" /\ <<"wake">> \notin timers
    \/ co.state = "paused_user_active" /\ wasIdle

\* "Returns a promise that resolves ... when the backup completes" (113).
ManualAnswered == []<>(waiting = {} \/ Stranded)

\* What comes due is backed up or given up.
DueGetsDone == []<>((\A a \in Accounts : due[a] # "due") \/ Stranded \/ StalePause)

(***************************************************************************)
(* Backups get done: no manual backup stays unanswered and no account that *)
(* came due stays due once the interruptions end, except from a queue that *)
(* nothing works on and under a stale pause.                               *)
(* (backupScheduler.js:112-122, 142-185, 189-229, 414-459)                 *)
(***************************************************************************)
BackupsGetDone == ManualAnswered /\ DueGetsDone

(***************************************************************************)
(* "Re-queue at the front so it picks up where it left off" (backup-       *)
(* Scheduler.js:517): an account that is queued in an idle coordinator     *)
(* leaves the queue.                                                       *)
(***************************************************************************)
ResumedPicksUp ==
    \A a \in Accounts :
        (co.state = "idle" /\ a \in Queued(co)) ~> (a \notin Queued(co))
=============================================================================
