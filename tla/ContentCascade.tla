--------------------------- MODULE ContentCascade ---------------------------
(***************************************************************************)
(* Caching message bodies in the background: services/AccountPipeline.js,  *)
(* one pipeline per account, and services/EmailPipelineManager.js, which   *)
(* starts the pipeline of the account on screen and, once it is through,   *)
(* cascades over the other accounts; hooks/usePipelineCoordinator.js says  *)
(* when.                                                                   *)
(*                                                                         *)
(* An action is the JavaScript between two awaits or timers.  A pipeline   *)
(* that was destroyed is inert, so only the current pipeline of an account *)
(* is kept; what a fetch of a destroyed one may still store is left out.   *)
(***************************************************************************)
EXTENDS Integers, FiniteSets

CONSTANTS
    Accounts,     \* with credentials and not hidden; one chunk of headers
    First,        \* the account on screen at launch
    Inbox, Sent,  \* mailbox names
    Graph,        \* those that are reached by the Graph API, not by IMAP
    None,         \* no pipeline, no timer, no account
    Mail,         \* Mail[b]: the UIDs of mailbox b, in every account
    Cached,       \* the sets of bodies that may be on disk at launch
    MaxSlots,     \* concurrency of the active account (the code: 3)
    MaxInterrupts,  \* account switches, mailboxes opened and network outages
    MaxFails,     \* fetches, and writes to the vault, that fail
    Env           \* "quick": a resume may come while slots wait to start;
                  \* "late": a switch may come while a cascade is under way

Stale == "stale"   \* a timer that was cleared but whose handle is still held
Boxes == {Inbox, Sent}
Uids == UNION {Mail[b] : b \in Boxes}

ASSUME CascadeAssumption ==
    /\ Inbox # Sent
    /\ First \in Accounts /\ Graph \subseteq Accounts
    /\ None \notin Accounts /\ None # Stale
    /\ {None, Stale} \cap Boxes = {}
    /\ Mail \in [Boxes -> SUBSET Uids]
    /\ \A b \in Boxes : IsFiniteSet(Mail[b])
    /\ Cached \subseteq SUBSET (Accounts \X Boxes \X Uids)
    /\ MaxSlots \in Nat \ {0}
    /\ MaxInterrupts \in Nat /\ MaxFails \in Nat

VARIABLES
    active,    \* activeAccountId of the store and of the manager
    view,      \* activeMailbox
    started,   \* startedForRef: the hook started a pipeline for this account
    online,    \* the browser's idea of the network
    stored,    \* <<account, mailbox, uid>> whose body is in the vault
    pipe,      \* pipelines.get(a), or None
    workers,   \* workers[a]: how many worker loops are in each state
    sent,      \* the active pipeline's _loadSentHeaders: none, path, load
    job,       \* the background header load of a: none, inbox, sent, dead
    headersRunning,  \* _backgroundHeadersRunning
    cascade,   \* one call of _startBackgroundContentPipelines
    done,      \* _contentCascadeDone
    used       \* what has been used of each bound

screen == <<active, view, started, online>>
headers == <<sent, job, headersRunning>>
vars == <<screen, stored, pipe, workers, headers, cascade, done, used>>

-----------------------------------------------------------------------------
(***************************************************************************)
(* A pipeline.  loaded are the headers in memory (_lastLoadedEmails), of   *)
(* whichever mailbox was loaded last, and of a Graph account the UIDs whose *)
(* Graph ID is known (_graphIdMap).  asked, box, amiss and over are        *)
(* history: the UIDs and the mailbox the content run was started with;     *)
(* those it counts as completed without their body in the vault; and that  *)
(* some run was started while slots of the one before it were alive.       *)
(***************************************************************************)
Pipeline ==
    [conc: 1 .. MaxSlots, phase: {"idle", "headers", "content", "done"},
     queue: SUBSET Uids, retry: SUBSET Uids, timer: Boxes \cup {None, Stale},
     slots: Int, paused: BOOLEAN, loaded: SUBSET (Boxes \X Uids),
     onComplete: {"active", "background"}, hooked: BOOLEAN,
     finishing: BOOLEAN, asked: SUBSET Uids, box: Boxes, amiss: SUBSET Uids,
     over: BOOLEAN]

NewPipe(conc, for, phase) ==
    [conc |-> conc, phase |-> phase, queue |-> {}, retry |-> {},
     timer |-> None, slots |-> 0, paused |-> FALSE, loaded |-> {},
     onComplete |-> for, hooked |-> FALSE, finishing |-> FALSE,
     asked |-> {}, box |-> Inbox, amiss |-> {}, over |-> FALSE]

\* A worker loop is waiting for its staggered start, at an await whose end
\* leads to the loop's head, or fetching a UID.
WorkerState == {<<"waiting", b>> : b \in Boxes} \cup {<<"loop", b>> : b \in Boxes}
                 \cup {<<"fetch", b, u>> : b \in Boxes, u \in Uids}

NoWorkers == [s \in WorkerState |-> 0]

InHand(a) == {u \in Uids : \E b \in Boxes : workers[a][<<"fetch", b, u>>] > 0}
Waiting(a) == \E b \in Boxes : workers[a][<<"waiting", b>>] > 0
Working(a) == \E s \in WorkerState : workers[a][s] > 0

Moves(w, from, to) == [w EXCEPT ![from] = @ - 1, ![to] = @ + 1]
Launches(w, n, b) == [w EXCEPT ![<<"waiting", b>>] = @ + n]

Least(m, n) == IF m < n THEN m ELSE n

RelaunchedNone(p) == 0                                               \* slip
RelaunchedAll(p) == IF p.paused /\ p.phase = "content"               \* slip
                    THEN Least(p.conc, Cardinality(p.queue)) ELSE 0

\* resume(mailbox): the slots it launches, and the pipeline it leaves.
Relaunched(p) ==
    IF p.paused /\ p.phase = "content" /\ p.conc > p.slots
    THEN Least(p.conc - p.slots, Cardinality(p.queue))
    ELSE 0

Resumed(p) == [p EXCEPT !.paused = FALSE]

\* startContentCaching(uids, mailbox), which also launches conc slots.
\* It clears the retry timer but not the field that holds its handle.
ContentStarted(p, uids, b, over) ==
    [p EXCEPT !.over = @ \/ over, !.phase = "content", !.queue = uids, !.retry = {},
              !.slots = 0, !.timer = IF @ = None THEN None ELSE Stale,
              !.asked = uids, !.box = b, !.amiss = {}]

ASSUME NoneAssumption == None \notin Pipeline

Live(a) == pipe[a] # None

\* What destroying the pipelines of D does to a cascade that holds one.
Bereft(c, D) ==
    IF c.st \in {"saved", "waits"} /\ c.acct \in D
    THEN [c EXCEPT !.dead = TRUE, !.st = IF @ = "waits" THEN "woken" ELSE @]
    ELSE c

NoCascade == [st |-> "off", acct |-> None, todo |-> {}, emails |-> {}, dead |-> FALSE]

-----------------------------------------------------------------------------
Init ==
    /\ active = First /\ view = Inbox /\ started = FALSE /\ online = TRUE
    /\ stored \in Cached
    /\ pipe = [a \in Accounts |-> None]
    /\ workers = [a \in Accounts |-> NoWorkers]
    /\ sent = [a \in Accounts |-> "none"]
    /\ job = [a \in Accounts |-> "none"]
    /\ headersRunning = FALSE
    /\ cascade = NoCascade
    /\ done = {}
    /\ used = [switches |-> 0, views |-> 0, outages |-> 0, fails |-> 0]

Unhurried(A) == "quick" \in Env \/ \A a \in A : ~Waiting(a)
Interrupts(how) == /\ used.switches + used.views + used.outages < MaxInterrupts
                   /\ used' = [used EXCEPT ![how] = @ + 1]

\* The cascade's loop from its head to its next await: accounts that are done
\* or have no pipeline are skipped, those without headers in memory are marked
\* done, the first one with headers is asked for its saved IDs.  The order of
\* the accounts is arbitrary.  ps are the pipelines at that moment.
CascadeWalks(ps, todo, marked) ==
    LET here     == {a \in todo : a \notin marked /\ ps[a] # None}
        eligible == {a \in here : ps[a].loaded # {}}
    IN  IF eligible = {}
        THEN cascade' = NoCascade /\ done' = marked \cup here
        ELSE \E a \in eligible, passed \in SUBSET (todo \ eligible) :
               /\ done' = marked \cup (passed \cap here)
               /\ cascade' = [st |-> "saved", acct |-> a, dead |-> FALSE,
                              todo |-> todo \ (passed \cup {a}),
                              emails |-> {m[2] : m \in ps[a].loaded}]

CascadeStarts(ps) == CascadeWalks(ps, Accounts \ {active}, done)

(***************************************************************************)
(* The screen                                                              *)
(***************************************************************************)
\* The user goes to another account: onAccountSwitch pauses every other
\* pipeline and promotes this one.
Switch(a) ==
    /\ a # active
    /\ Interrupts("switches")
    /\ Unhurried({a})
    /\ "late" \in Env \/ cascade.st = "off"
    /\ active' = a /\ view' = Inbox /\ started' = FALSE
    /\ pipe' = [x \in Accounts |->
                  IF pipe[x] = None THEN None
                  ELSE IF x # a THEN [pipe[x] EXCEPT !.paused = TRUE]
                  ELSE Resumed([pipe[x] EXCEPT !.conc = MaxSlots])]
    /\ workers' = IF pipe[a] = None THEN workers
                  ELSE [workers EXCEPT ![a] = Launches(@,
                          Relaunched([pipe[a] EXCEPT !.conc = MaxSlots]), Inbox)]
    /\ UNCHANGED <<online, stored, headers, cascade, done>>

\* The user opens another mailbox; the list may be empty on the way.
View(b) ==
    /\ b # view
    /\ Interrupts("views")
    /\ view' = b
    /\ started' \in {started, FALSE}
    /\ UNCHANGED <<active, online, stored, pipe, workers, headers, cascade, done>>

Offline ==
    /\ online
    /\ Interrupts("outages")
    /\ online' = FALSE
    /\ pipe' = [a \in Accounts |->
                  IF pipe[a] = None THEN None ELSE [pipe[a] EXCEPT !.paused = TRUE]]
    /\ UNCHANGED <<active, view, started, stored, workers, headers, cascade, done>>

\* resumeAll: every pipeline, in INBOX.
Online ==
    /\ ~online
    /\ Unhurried(Accounts)
    /\ online' = TRUE
    /\ pipe' = [a \in Accounts |-> IF pipe[a] = None THEN None ELSE Resumed(pipe[a])]
    /\ workers' = [a \in Accounts |->
                     IF pipe[a] = None THEN workers[a]
                     ELSE Launches(workers[a], Relaunched(pipe[a]), Inbox)]
    /\ UNCHANGED <<active, view, started, stored, headers, cascade, done, used>>

(***************************************************************************)
(* startActiveAccountPipeline: reuse or replace the pipeline of the        *)
(* account on screen, start the Sent and the background headers, then its  *)
(* content run, or the cascade if there is nothing to fetch.               *)
(***************************************************************************)
Reusable(a) == Live(a) /\ pipe[a].slots = 0

ForActive ==
    IF Reusable(active)
    THEN Resumed([pipe[active] EXCEPT !.conc = MaxSlots, !.onComplete = "active",
                                      !.hooked = FALSE])
    ELSE NewPipe(MaxSlots, "active", "idle")

Uncached == {u \in Mail[view] : <<active, view, u>> \notin stored}

StartActive ==
    LET others   == IF headersRunning THEN {} ELSE Accounts \ {active}
        replaced == others \cup (IF Reusable(active) THEN {} ELSE {active})
        resumed  == IF Reusable(active)
                    THEN Launches(workers[active],
                           Relaunched([pipe[active] EXCEPT !.conc = MaxSlots]), view)
                    ELSE NoWorkers
    IN  /\ ~started
        /\ Unhurried({active})
        /\ started' = TRUE
        /\ pipe' = [a \in Accounts |->
                      IF a = active
                      THEN IF Uncached = {} THEN ForActive
                           ELSE ContentStarted(ForActive, Uncached, view,
                                               Reusable(active) /\ Working(active))
                      ELSE IF a \in others THEN NewPipe(1, "background", "headers")
                      ELSE pipe[a]]
        /\ workers' = [a \in Accounts |->
                         IF a = active
                         THEN Launches(resumed, IF Uncached = {} THEN 0 ELSE MaxSlots, view)
                         ELSE IF a \in others THEN NoWorkers ELSE workers[a]]
        /\ sent' = [a \in Accounts |-> IF a = active THEN "path"
                                       ELSE IF a \in others THEN "none" ELSE sent[a]]
        /\ job' = [a \in Accounts |->
                     IF a \in others THEN "inbox"
                     ELSE IF a \in replaced /\ job[a] # "none" THEN "dead" ELSE job[a]]
        /\ headersRunning' = (headersRunning \/ others # {})
        /\ IF Uncached = {} /\ cascade.st = "off"
           THEN CascadeStarts(pipe')
           ELSE cascade' = Bereft(cascade, replaced) /\ UNCHANGED done
        /\ UNCHANGED <<active, view, online, stored, used>>

(***************************************************************************)
(* The worker loops                                                        *)
(***************************************************************************)
\* A staggered start; the token is refreshed before the loop.
SlotStarts(a, b) ==
    /\ workers[a][<<"waiting", b>>] > 0
    /\ workers' = [workers EXCEPT ![a] = Moves(@, <<"waiting", b>>, <<"loop", b>>)]
    /\ pipe' = [pipe EXCEPT ![a].slots = @ + 1]
    /\ UNCHANGED <<screen, stored, headers, cascade, done, used>>

\* The next UID.  A slot that a resume launched takes it in INBOX, whatever
\* mailbox it was asked for; a Graph ID is that of the mailbox listed last, and
\* its message is filed under this UID all the same.
Known(a, u) == a \in Graph => \E b \in Boxes : <<b, u>> \in pipe[a].loaded
AsAsked(a, b, u) == /\ b = pipe[a].box
                    /\ a \in Graph => <<b, u>> \in pipe[a].loaded

TakesNext(a, b, u) ==
    /\ workers[a][<<"loop", b>>] > 0
    /\ ~pipe[a].paused
    /\ u \in pipe[a].queue /\ Known(a, u)
    /\ workers' = [workers EXCEPT ![a] = Moves(@, <<"loop", b>>, <<"fetch", b, u>>)]
    /\ pipe' = [pipe EXCEPT ![a].queue = @ \ {u},
                            ![a].amiss = IF AsAsked(a, b, u) THEN @ \ {u} ELSE @ \cup {u}]
    /\ UNCHANGED <<screen, stored, headers, cascade, done, used>>

\* Without a Graph ID it is skipped, and counted.
Skips(a, b, u) ==
    /\ workers[a][<<"loop", b>>] > 0
    /\ ~pipe[a].paused
    /\ u \in pipe[a].queue /\ ~Known(a, u)
    /\ pipe' = [pipe EXCEPT ![a].queue = @ \ {u}, ![a].amiss = @ \cup {u}]
    /\ UNCHANGED <<screen, stored, workers, headers, cascade, done, used>>

Fails == used.fails < MaxFails /\ used' = [used EXCEPT !.fails = @ + 1]

\* The body is there.  Over IMAP a failure to write it to the vault is only a
\* warning of the backend's.
Fetched(a, b, u) ==
    \E kept \in BOOLEAN :
      /\ workers[a][<<"fetch", b, u>>] > 0
      /\ a \in Graph \/ u \in Mail[b]
      /\ IF kept THEN stored' = stored \cup {<<a, b, u>>} /\ UNCHANGED used
         ELSE a \notin Graph /\ Fails /\ UNCHANGED stored
      /\ workers' = [workers EXCEPT ![a] = Moves(@, <<"fetch", b, u>>, <<"loop", b>>)]
      /\ pipe' = [pipe EXCEPT ![a].amiss = IF kept /\ b = pipe[a].box THEN @ ELSE @ \cup {u}]
      /\ UNCHANGED <<screen, headers, cascade, done>>

\* A UID that is not in the mailbox always fails.
FetchFails(a, b, u) ==
    /\ workers[a][<<"fetch", b, u>>] > 0
    /\ IF a \in Graph \/ u \in Mail[b] THEN Fails ELSE UNCHANGED used
    /\ workers' = [workers EXCEPT ![a] = Moves(@, <<"fetch", b, u>>, <<"loop", b>>)]
    /\ pipe' = [pipe EXCEPT ![a].retry = @ \cup {u}, ![a].amiss = @ \ {u}]
    /\ UNCHANGED <<screen, stored, headers, cascade, done>>

\* The last slot's test for the end of the run.
ThroughButRetries(p) == p.queue = {}                                 \* slip
Through(p) == p.queue = {} /\ p.retry = {}

\* Whoever waited for this pipeline goes on (onComplete).
WakesNobody(c, a) == c                                               \* slip
Wakes(c, a) == IF pipe[a].hooked /\ c.st = "waits" /\ c.acct = a
               THEN [c EXCEPT !.st = "woken"] ELSE c

\* Paused or out of work: the slot goes, and the last one schedules the retry
\* or finishes the run.  _finish completes at once unless the account is on
\* screen, whose saved IDs it refreshes first.
SlotEnds(a, b) ==
    LET p        == [pipe[a] EXCEPT !.slots = @ - 1]
        finishes == p.slots = 0 /\ Through(p)
        retries  == p.slots = 0 /\ p.queue = {} /\ p.retry # {} /\ p.timer = None
        finished == [p EXCEPT !.phase = "done", !.loaded = {},
                              !.finishing = @ \/ a = active,
                              !.hooked = @ /\ a = active]
    IN  /\ workers[a][<<"loop", b>>] > 0
        /\ pipe[a].paused \/ pipe[a].queue = {}
        /\ workers' = [workers EXCEPT ![a][<<"loop", b>>] = @ - 1]
        /\ pipe' = [pipe EXCEPT ![a] =
                      IF finishes THEN finished
                      ELSE IF retries THEN [p EXCEPT !.timer = b] ELSE p]
        /\ cascade' = IF finishes /\ a # active THEN Wakes(cascade, a) ELSE cascade
        /\ UNCHANGED <<screen, stored, headers, done, used>>

RetryForgets(a) ==                                                   \* slip
    /\ Live(a) /\ pipe[a].timer \in Boxes /\ ~Waiting(a) /\ pipe[a].slots = 0
    /\ pipe' = [pipe EXCEPT ![a].retry = {}, ![a].timer = None]
    /\ workers' = [workers EXCEPT ![a] = Launches(@, pipe[a].conc, pipe[a].timer)]
    /\ UNCHANGED <<screen, stored, headers, cascade, done, used>>

\* The retry timer, 3 s or more, fires after any staggered start.
RetryFires(a) ==
    LET p == [pipe[a] EXCEPT !.timer = None]
        b == pipe[a].timer
    IN  /\ Live(a) /\ b \in Boxes
        /\ ~Waiting(a)
        /\ IF p.slots > 0
           THEN /\ pipe' = [pipe EXCEPT ![a] = p]
                /\ UNCHANGED workers
           ELSE /\ pipe' = [pipe EXCEPT ![a] =
                              [p EXCEPT !.queue = @ \cup p.retry, !.retry = {}]]
                /\ workers' = [workers EXCEPT ![a] = Launches(@, p.conc, b)]
        /\ UNCHANGED <<screen, stored, headers, cascade, done, used>>

\* _finish of an account on screen: the saved IDs are in, onComplete is called.
FinishEnds(a) ==
    /\ Live(a) /\ pipe[a].finishing
    /\ pipe' = [pipe EXCEPT ![a].finishing = FALSE, ![a].hooked = FALSE]
    /\ IF pipe[a].onComplete = "active" /\ a = active /\ cascade.st = "off"
       THEN CascadeStarts(pipe')
       ELSE cascade' = Wakes(cascade, a) /\ UNCHANGED done
    /\ UNCHANGED <<screen, stored, workers, headers, used>>

(***************************************************************************)
(* Headers.  A load ends with the whole mailbox, with nothing new (failed, *)
(* or empty), or, if it was paused on the way, with some of it; it sets    *)
(* the phase to headers and then to idle, whatever else the pipeline does. *)
(***************************************************************************)
LoadsUnnumbered(p, b) == {p.loaded, {b} \X (Mail[b] \cup {0})}        \* slip
Loads(p, b) == {p.loaded} \cup ({{b} \X Mail[b]} \ {{}})
                 \cup (IF p.paused THEN (SUBSET ({b} \X Mail[b])) \ {{}} ELSE {})

\* The Sent folder's path is known at once, later, or never.
SentPath(a) ==
    /\ sent[a] = "path"
    /\ \E known \in BOOLEAN :
         /\ sent' = [sent EXCEPT ![a] = IF known THEN "load" ELSE "none"]
         /\ pipe' = IF known THEN [pipe EXCEPT ![a].phase = "headers"] ELSE pipe
    /\ UNCHANGED <<screen, stored, workers, job, headersRunning, cascade, done, used>>

SentLoaded(a) ==
    /\ sent[a] = "load"
    /\ sent' = [sent EXCEPT ![a] = "none"]
    /\ \E new \in Loads(pipe[a], Sent) :
         pipe' = [pipe EXCEPT ![a].phase = "idle", ![a].loaded = new]
    /\ UNCHANGED <<screen, stored, workers, job, headersRunning, cascade, done, used>>

\* One account of _startBackgroundHeadersOnly: INBOX, then Sent.  The last one
\* to end clears the flag.
JobGoesOn(a, next) ==
    /\ job' = [job EXCEPT ![a] = next]
    /\ headersRunning' = \E x \in Accounts : job'[x] # "none"
    /\ UNCHANGED <<screen, stored, workers, sent, cascade, done, used>>

InboxLoaded(a) ==
    /\ job[a] = "inbox"
    /\ \E known \in BOOLEAN, new \in Loads(pipe[a], Inbox) :
         /\ pipe' = [pipe EXCEPT ![a].phase = IF known THEN "headers" ELSE "idle",
                                 ![a].loaded = new]
         /\ JobGoesOn(a, IF known THEN "sent" ELSE "none")

JobSentLoaded(a) ==
    /\ job[a] = "sent"
    /\ \E new \in Loads(pipe[a], Sent) :
         pipe' = [pipe EXCEPT ![a].phase = "idle", ![a].loaded = new]
    /\ JobGoesOn(a, "none")

\* Its pipeline was destroyed meanwhile.
DeadJobEnds(a) ==
    /\ job[a] = "dead"
    /\ JobGoesOn(a, "none")
    /\ UNCHANGED pipe

(***************************************************************************)
(* The cascade                                                             *)
(***************************************************************************)
\* The saved IDs of the account are in: the bodies missing are asked for in
\* INBOX, though the headers in memory may be those of Sent, and the cascade
\* waits for the run (waitForComplete).
CascadeAsks ==
    LET a    == cascade.acct
        uids == {u \in cascade.emails : <<a, Inbox, u>> \notin stored}
    IN  /\ cascade.st = "saved"
        /\ IF cascade.dead \/ uids = {}
           THEN /\ CascadeWalks(pipe, cascade.todo, IF cascade.dead THEN done ELSE done \cup {a})
                /\ UNCHANGED <<pipe, workers>>
           ELSE /\ pipe' = [pipe EXCEPT ![a] =
                              [ContentStarted(pipe[a], uids, Inbox, Working(a)) EXCEPT
                                 !.hooked = TRUE]]
                /\ workers' = [workers EXCEPT ![a] = Launches(@, pipe[a].conc, Inbox)]
                /\ cascade' = [cascade EXCEPT !.st = "waits"]
                /\ UNCHANGED done
        /\ UNCHANGED <<screen, stored, headers, used>>

CascadeGoesOn ==
    /\ cascade.st = "woken"
    /\ CascadeWalks(pipe, cascade.todo,
                    IF cascade.dead THEN done ELSE done \cup {cascade.acct})
    /\ UNCHANGED <<screen, stored, pipe, workers, headers, used>>

-----------------------------------------------------------------------------
Slots(a) ==
    \E b \in Boxes :
      \/ SlotStarts(a, b)
      \/ SlotEnds(a, b)
      \/ \E u \in Uids : TakesNext(a, b, u) \/ Skips(a, b, u)
                           \/ Fetched(a, b, u) \/ FetchFails(a, b, u)

Loading(a) == \/ SentPath(a) \/ SentLoaded(a)
              \/ InboxLoaded(a) \/ JobSentLoaded(a) \/ DeadJobEnds(a)

User ==
    \/ \E a \in Accounts : Switch(a)
    \/ \E b \in Boxes : View(b)
    \/ Offline
    \/ Online

\* What the event loop does of its own.  A promise continuation runs before
\* any other task.
System ==
    \/ CascadeGoesOn
    \/ /\ cascade.st # "woken"
       /\ \/ StartActive
          \/ CascadeAsks
          \/ \E a \in Accounts : Slots(a) \/ RetryFires(a) \/ FinishEnds(a) \/ Loading(a)

Next == System \/ (cascade.st # "woken" /\ User)

Spec == Init /\ [][Next]_vars

\* Timers fire and requests return: while the event loop has something to do,
\* it does something.  Nothing more is assumed of the order, of the user or of
\* the network, but a message that exists does not fail for ever (MaxFails).
FairSpec == Spec /\ WF_vars(System)

-----------------------------------------------------------------------------
\* Type invariant.
TypeOK ==
    /\ active \in Accounts /\ view \in Boxes /\ started \in BOOLEAN /\ online \in BOOLEAN
    /\ stored \subseteq Accounts \X Boxes \X Uids
    /\ pipe \in [Accounts -> Pipeline \cup {None}]
    /\ workers \in [Accounts -> [WorkerState -> Nat]]
    /\ sent \in [Accounts -> {"none", "path", "load"}]
    /\ job \in [Accounts -> {"none", "inbox", "sent", "dead"}]
    /\ headersRunning \in BOOLEAN
    /\ cascade \in [st: {"off", "saved", "waits", "woken"}, acct: Accounts \cup {None},
                    todo: SUBSET Accounts, emails: SUBSET Uids, dead: BOOLEAN]
    /\ done \subseteq Accounts
    /\ used \in [{"switches", "views", "outages", "fails"} -> Nat]

\* In the vault, under the mailbox the run was asked for; or amiss.
Settled(a) == {u \in Uids : <<a, pipe[a].box, u>> \in stored} \cup pipe[a].amiss

\* No body asked for is lost on the way: while a pipeline lives, every UID its
\* content run was started with is in the vault under that mailbox, queued, set
\* aside for a retry or in the hand of a worker, whatever pauses, resumes, retries
\* and restarts come.  Amiss, the code counts a UID as completed in three cases:
\* a Graph UID whose ID is unknown or another mailbox's (AccountPipeline.js:
\* 271-279), a body the vault did not take (commands.rs:406-410), and a run
\* resumed in INBOX though it was asked for Sent (EmailPipelineManager.js:254, 287).
NothingLost ==
    \A a \in Accounts : Live(a) =>
      pipe[a].asked \subseteq Settled(a) \cup pipe[a].queue \cup pipe[a].retry \cup InHand(a)

\* A content run does not stall: as long as it is in its phase, not paused and
\* not through, a slot or the retry timer is there to carry on ("Last slot to
\* finish checks if we need retries or are done", AccountPipeline.js:326).
\* Two pipelines are beyond this: one whose slots were miscounted by a run
\* started over them, and one that holds the stale handle of a timer, which
\* keeps _scheduleRetry from setting another.
Unfinished(a) == /\ Live(a) /\ pipe[a].phase = "content" /\ ~pipe[a].paused
                 /\ pipe[a].queue \cup pipe[a].retry # {}
NoStall == \A a \in Accounts : Unfinished(a) /\ ~pipe[a].over =>
             Working(a) \/ pipe[a].timer # None

\* While the user stays at one account, another account has a worker only while
\* the cascade waits for that account, and then one: no two background accounts
\* fetch at once, nor one account two bodies ("sequential at concurrency=1 to
\* avoid overwhelming IMAP", EmailPipelineManager.js:189).
Stayed == used.switches = 0
BackgroundOneAtATime ==
    Stayed =>
      \A a \in Accounts \ {active} : Working(a) =>
        /\ cascade.st = "waits" /\ cascade.acct = a
        /\ \E s \in WorkerState :
             workers[a][s] = 1 /\ \A r \in WorkerState \ {s} : workers[a][r] = 0

\* While the user stays at one account, the cascade ticks off an account it
\* waited for only when everything it asked for is in the vault or amiss ("Mark
\* done only if we got through it", EmailPipelineManager.js:222).  A switch breaks
\* it: the cascade then starts its run over the slots of the user's own.
WaitedMeansFetched ==
    [][Stayed /\ cascade.st = "woken" /\ cascade.acct \in done' \ done =>
         pipe[cascade.acct].asked \subseteq Settled(cascade.acct)]_vars

\* A cascade ends, as long as nothing is paused (neither switches nor outages)
\* and it does not ask INBOX for a UID that only Sent has: the headers in memory
\* are those of the mailbox loaded last, and such a fetch is retried for ever
\* (AccountPipeline.js:105, 154; EmailPipelineManager.js:211-219).
Calm == used.switches = 0 /\ used.outages = 0
AsksAstray == /\ cascade.st = "waits" /\ cascade.acct \notin Graph
              /\ ~(pipe[cascade.acct].asked \subseteq Mail[Inbox])
CascadeEnds == cascade.st # "off" ~> cascade.st = "off" \/ ~Calm \/ AsksAstray
=============================================================================
