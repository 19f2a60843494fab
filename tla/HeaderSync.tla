----------------------------- MODULE HeaderSync -----------------------------
(***************************************************************************)
(* One mailbox, from the server to the header cache and to the screen: the *)
(* daemon's sync and backfill (src-daemon/src/sync_engine.rs), sync.now    *)
(* and sync.wait (server.rs), and the activation that probes, asks, waits  *)
(* and reads the cache again (activateAccount.js, syncProbe.js).           *)
(*                                                                         *)
(* A task of the daemon steps from one answer of the server to the next;   *)
(* what it writes then is part of the step, except where a crash between   *)
(* two files matters.  The activation's own IMAP path, taken when the      *)
(* daemon is no help, and the app's writes to the cache are left out.  The *)
(* mailbox is smaller than FLAG_REFRESH_WINDOW and BACKFILL_CHUNK.         *)
(***************************************************************************)
EXTENDS Integers, FiniteSets

CONSTANTS
    MaxUid,      \* UIDs the server hands out
    PageSize,    \* headers in a page, and rows in a read of the cache (500)
    MaxGap,      \* MAX_DELTA_UID_GAP (500)
    Tasks,       \* requests the daemon serves at the same time
    MaxChanges,  \* changes of the mailbox on the server
    MaxFaults    \* failed or partial answers, crashes of the daemon

Uid == 1 .. MaxUid

HeaderAssumption ==
    {MaxUid, PageSize, MaxGap} \subseteq Nat \ {0}
      /\ {MaxChanges, MaxFaults} \subseteq Nat /\ IsFiniteSet(Tasks)

VARIABLES
    condstore,  \* the server has CONDSTORE
    server,     \* the mailbox: at[u] is the modseq of u's last change
    cache,      \* the sidecars: what is known of each UID
    meta,       \* _meta.json
    task,       \* task[t]: a sync, or the backfill after it
    status,     \* SyncState: "none", "idle", "syncing", "error"
    watch,      \* the watch channel: "none", "empty", "good", "bad"
    filling,    \* backfilling
    gaveUp,     \* backfill_gave_up
    app,        \* the activation under way
    settled,    \* the store holds a complete set of UIDs for the mailbox
    lost,       \* history: UIDs whose changed flags an answer left out
    crowded,    \* history: two tasks were under way at once
    spent       \* what has been used of each bound

disk == <<cache, meta>>
daemon == <<task, status, watch, filling, gaveUp>>
screen == <<app, settled>>
past == <<lost, crowded>>
headerSync == <<condstore, server, disk, daemon, screen, past, spent>>

-----------------------------------------------------------------------------
(* A row is absent, or was last seen with generation gen (UIDVALIDITY) and *)
(* change at.                                                              *)
Absent == [gen |-> 0, at |-> 0]
Row == [gen: 0 .. 2, at: Nat]
NoRows == [u \in Uid |-> Absent]
NoMeta == [total |-> 0, gen |-> 0, next |-> 0, modseq |-> 0, fresh |-> FALSE]

On(at) == {u \in Uid : at[u] > 0}
OnServer == On(server.at)
Cached == {u \in Uid : cache[u] # Absent}

\* What a fetch of the headers of U brings.
Headers(U) == [u \in Uid |-> IF u \in U \cap OnServer
                             THEN [gen |-> server.gen, at |-> server.at[u]] ELSE Absent]
RowsOf(got) == {u \in Uid : got[u] # Absent}
With(got) == [u \in Uid |-> IF got[u] # Absent THEN got[u] ELSE cache[u]]

\* The newest n of a set of UIDs.
Newest(U, n) == {u \in U : Cardinality({v \in U : v > u}) < n}

Snapshot == [total |-> Cardinality(OnServer), gen |-> server.gen, next |-> server.next,
             modseq |-> IF condstore THEN server.modseq ELSE 0, fresh |-> FALSE]

NoTask == [pc |-> "off", mine |-> FALSE, st |-> NoMeta, base |-> NoMeta,
           got |-> NoRows, exists |-> 0, list |-> {}]

Init ==
    /\ condstore \in BOOLEAN
    /\ server = [gen |-> 1, next |-> PageSize + 1, modseq |-> 1,
                 at |-> [u \in Uid |-> IF u <= PageSize THEN 1 ELSE 0]]
    /\ cache = NoRows /\ meta = NoMeta
    /\ task = [t \in Tasks |-> NoTask]
    /\ status = "none" /\ watch = "none" /\ filling = FALSE /\ gaveUp = FALSE
    /\ app = [pc |-> "idle", synced |-> FALSE, good |-> FALSE]
    /\ settled = FALSE
    /\ lost = {} /\ crowded = FALSE
    /\ spent = [changes |-> 0, faults |-> 0]

Fault == spent.faults < MaxFaults /\ spent' = [spent EXCEPT !.faults = @ + 1]

(***************************************************************************)
(* The server                                                              *)
(***************************************************************************)
Changes(new) ==
    /\ spent.changes < MaxChanges
    /\ spent' = [spent EXCEPT !.changes = @ + 1]
    /\ server' = [new EXCEPT !.modseq = server.modseq + 1]
    /\ UNCHANGED <<condstore, disk, daemon, screen, past>>

Arrives ==
    /\ server.next <= MaxUid
    /\ Changes([server EXCEPT !.next = @ + 1, !.at[server.next] = server.modseq + 1])

Expunged(u) == u \in OnServer /\ Changes([server EXCEPT !.at[u] = 0])

Flagged(u) == u \in OnServer /\ Changes([server EXCEPT !.at[u] = server.modseq + 1])

\* A new UIDVALIDITY: the messages are numbered from 1 again.
Reissued ==
    LET n == Cardinality(OnServer)
    IN  /\ server.gen = 1
        /\ Changes([server EXCEPT !.gen = 2, !.next = n + 1,
                      !.at = [u \in Uid |-> IF u <= n THEN server.modseq + 1 ELSE 0]])

(***************************************************************************)
(* sync_account                                                            *)
(***************************************************************************)
Runs(t) == task[t].pc # "off"
Step(t, new) == task' = [task EXCEPT ![t] = new]

\* A fetch may skip a message it cannot parse.
Answers(rows) == {rows} \cup {[rows EXCEPT ![u] = Absent] : u \in RowsOf(rows)}
Blames(skipped) == IF skipped THEN Fault ELSE UNCHANGED spent

\* The daily cap is reached: sync_account returns and tells nobody.
CapReached(t) ==
    /\ task[t].pc = "spawned" /\ Fault
    /\ Step(t, NoTask)
    /\ UNCHANGED <<condstore, server, disk, status, watch, filling, gaveUp, screen, past>>

Begins(t) ==
    /\ task[t].pc = "spawned"
    /\ Step(t, [task[t] EXCEPT !.pc = "begun"])
    /\ status' = "syncing"
    /\ UNCHANGED <<condstore, server, disk, watch, filling, gaveUp, screen, past, spent>>

\* check_mailbox_status has answered: a usable cache is brought up to date, any
\* other starts from a page, and rows of another UIDVALIDITY are dropped.
SameGeneration == meta.gen \in {0, server.gen}

Starts(t) ==
    LET delta == Cached # {} /\ SameGeneration /\ meta.next # 0
    IN  /\ task[t].pc = "begun"
        /\ Step(t, [task[t] EXCEPT !.pc = IF delta THEN "new" ELSE "page", !.st = Snapshot,
                                   !.base = IF delta THEN meta ELSE NoMeta])
        /\ IF SameGeneration THEN UNCHANGED <<disk, lost>>
           ELSE cache' = NoRows /\ meta' = NoMeta /\ lost' = {}
        /\ UNCHANGED <<condstore, server, status, watch, filling, gaveUp, screen, crowded, spent>>

\* The cold path: the first page, and _meta.json.
FetchesPage(t) ==
    LET page == Headers(Newest(OnServer, PageSize))
    IN  /\ task[t].pc = "page"
        /\ \E got \in Answers(page) :
             /\ Blames(got # page)
             /\ Step(t, [task[t] EXCEPT !.pc = "headers", !.got = got])
        /\ meta' = task[t].st
        /\ UNCHANGED <<condstore, server, cache, status, watch, filling, gaveUp, screen, past>>

\* The delta path: the headers of the UIDs since the last UIDNEXT, or a page.
Arrived(t) ==
    IF task[t].st.next > task[t].base.next + MaxGap
    THEN Newest(OnServer, PageSize)
    ELSE OnServer \cap task[t].base.next .. task[t].st.next - 1

FetchesNew(t) ==
    LET new == Headers(Arrived(t))
    IN  /\ task[t].pc = "new"
        /\ \E got \in Answers(new) :
             /\ Blames(got # new)
             /\ Step(t, [task[t] EXCEPT !.pc = "flags", !.got = got])
        /\ UNCHANGED <<condstore, server, disk, status, watch, filling, gaveUp, screen, past>>

\* The flags that changed since the modseq in the cache, or without CONDSTORE
\* all of them, are patched into the rows there are.
Changed(t) == {u \in Cached : server.at[u] > task[t].base.modseq}

NoFlagMoved(t) == condstore /\ task[t].st.modseq = task[t].base.modseq

Patches(t, seen) ==
    /\ task[t].pc = "flags"
    /\ Step(t, [task[t] EXCEPT !.pc = "list"])
    /\ cache' = [u \in Uid |-> IF u \in seen THEN [cache[u] EXCEPT !.at = server.at[u]]
                               ELSE cache[u]]
    /\ UNCHANGED <<condstore, server, meta, status, watch, filling, gaveUp, screen, crowded>>

Flags(t) ==
    LET seen == IF NoFlagMoved(t) THEN {} ELSE Changed(t)
    IN  Patches(t, seen) /\ lost' = lost \ seen /\ UNCHANGED spent

\* A failure is only a warning, and what a broken connection leaves out of the
\* answer is not even that; the new modseq is recorded all the same.
FlagsFail(t) ==
    /\ ~NoFlagMoved(t) /\ Fault
    /\ \E seen \in SUBSET Changed(t) :
         /\ Patches(t, seen)
         /\ lost' = (lost \ seen) \cup IF condstore THEN Changed(t) \ seen ELSE {}

MustListOnCount(t) ==                                                \* slip
    task[t].st.total # task[t].base.total + Cardinality(RowsOf(task[t].got))

\* All UIDs are listed when the counts disagree or the last time is six hours ago.
MustList(t) ==
    \/ task[t].st.total # task[t].base.total + Cardinality(RowsOf(task[t].got))
    \/ ~task[t].base.fresh

RecordsLater(t, fresh) ==                                            \* slip
    /\ meta' = [task[t].st EXCEPT !.fresh = fresh,
                                  !.modseq = IF condstore THEN server.modseq ELSE 0]
    /\ Step(t, [task[t] EXCEPT !.pc = "headers", !.base = NoMeta, !.exists = 0])
    /\ UNCHANGED <<condstore, server, status, watch, filling, gaveUp, screen, past>>

Records(t, fresh) ==
    /\ meta' = [task[t].st EXCEPT !.fresh = fresh]
    /\ Step(t, [task[t] EXCEPT !.pc = "headers", !.base = NoMeta, !.exists = 0])
    /\ UNCHANGED <<condstore, server, status, watch, filling, gaveUp, screen, past>>

SkipsListing(t) ==
    /\ task[t].pc = "list" /\ ~MustList(t)
    /\ Records(t, TRUE)
    /\ UNCHANGED <<cache, spent>>

\* search_all_uids selects the mailbox, which tells EXISTS, and fetches 1:*.
Selects(t) ==
    /\ task[t].pc = "list" /\ MustList(t)
    /\ Step(t, [task[t] EXCEPT !.pc = "listing", !.exists = Cardinality(OnServer)])
    /\ UNCHANGED <<condstore, server, disk, status, watch, filling, gaveUp, screen, past, spent>>

TrustedUncounted(t, list) == list = {} => task[t].st.total = 0       \* slip

\* A connection that breaks ends the answer early, without an error.
Trusted(t, list) ==
    /\ Cardinality(list) >= task[t].exists
    /\ list = {} => task[t].st.total = 0

\* What a trusted answer lacks is pruned.  An answer that is not trusted is only a
\* warning: _meta.json is written all the same.
Reconciles(t) ==
    \E k \in 0 .. MaxUid :
      LET list == OnServer \cap 1 .. k
      IN  /\ task[t].pc = "listing"
          /\ Blames(list # OnServer)
          /\ IF Trusted(t, list)
             THEN /\ cache' = [u \in Uid |-> IF u \in list THEN cache[u] ELSE Absent]
                  /\ Records(t, TRUE)
             ELSE Records(t, task[t].base.fresh) /\ UNCHANGED cache

\* write_headers; then the state, and whoever waits, are told.  send() does
\* nothing without a receiver.
Tells(result) ==
    /\ status' = IF result = "good" THEN "idle" ELSE "error"
    /\ watch' = IF watch # "none" /\ app.pc = "waiting" THEN result ELSE watch

Hears(t, good) ==
    app' = [app EXCEPT !.synced = @ \/ (good /\ task[t].mine),
                       !.pc = IF @ = "waiting" THEN "answered" ELSE @,
                       !.good = IF app.pc = "waiting" THEN good ELSE @]

\* sidecar_shortfall and backfill_mailbox's own two tests.
Short(t, rows) == task[t].st.total > Cardinality(RowsOf(rows))

Ends(t) ==
    LET rows  == With(task[t].got)
        fills == Short(t, rows) /\ ~gaveUp /\ ~filling
    IN  /\ task[t].pc = "headers"
        /\ cache' = rows
        /\ Tells("good") /\ Hears(t, TRUE)
        /\ filling' = (filling \/ fills)
        /\ Step(t, IF fills THEN [NoTask EXCEPT !.pc = "fill"] ELSE NoTask)
        /\ UNCHANGED <<condstore, server, meta, gaveUp, settled, past, spent>>

\* write_headers stops half way, at an error or a crash.
Partly(t) ==
    \E U \in SUBSET IF task[t].pc \in {"headers", "write"} THEN RowsOf(task[t].got) ELSE {} :
      cache' = [u \in Uid |-> IF u \in U THEN task[t].got[u] ELSE cache[u]]

\* No session, a request that fails, a disk that is full.
Fails(t) ==
    /\ task[t].pc \in {"begun", "page", "new", "list", "listing", "headers"}
    /\ Fault
    /\ Partly(t)
    /\ Tells("bad") /\ Hears(t, FALSE)
    /\ Step(t, NoTask)
    /\ UNCHANGED <<condstore, server, meta, filling, gaveUp, settled, past>>

(***************************************************************************)
(* backfill_mailbox                                                        *)
(***************************************************************************)
FillEndsMarked(t, empty) ==                                          \* slip
    /\ Step(t, NoTask)
    /\ filling' = (filling /\ empty)
    /\ gaveUp' = (gaveUp \/ empty)

FillEnds(t, empty) ==
    /\ Step(t, NoTask)
    /\ filling' = FALSE
    /\ gaveUp' = (gaveUp \/ empty)

FillLists(t) ==
    LET missing == OnServer \ Cached
    IN  /\ task[t].pc = "fill"
        /\ IF missing = {} THEN FillEnds(t, TRUE)
           ELSE /\ Step(t, [task[t] EXCEPT !.pc = "fetch", !.list = missing])
                /\ UNCHANGED <<filling, gaveUp>>
        /\ UNCHANGED <<condstore, server, disk, status, watch, screen, past, spent>>

FillFetches(t) ==
    LET missing == Headers(task[t].list)
    IN  /\ task[t].pc = "fetch"
        /\ \E got \in Answers(missing) :
             /\ Blames(got # missing)
             /\ IF RowsOf(got) = {} THEN FillEnds(t, TRUE)
                ELSE /\ Step(t, [task[t] EXCEPT !.pc = "write", !.list = {}, !.got = got])
                     /\ UNCHANGED <<filling, gaveUp>>
        /\ UNCHANGED <<condstore, server, disk, status, watch, screen, past>>

FillWrites(t) ==
    /\ task[t].pc = "write"
    /\ cache' = With(task[t].got)
    /\ FillEnds(t, FALSE)
    /\ UNCHANGED <<condstore, server, meta, status, watch, screen, past, spent>>

FillFails(t) ==
    /\ task[t].pc \in {"fill", "fetch", "write"}
    /\ Fault /\ Partly(t) /\ FillEnds(t, TRUE)
    /\ UNCHANGED <<condstore, server, meta, status, watch, screen, past>>

\* The daemon dies, between two headers it writes perhaps, and is started again.
DaemonDies ==
    /\ Fault
    /\ \E t \in Tasks : Runs(t) /\ Partly(t)
    /\ task' = [t \in Tasks |-> NoTask]
    /\ status' = "none" /\ watch' = "none" /\ filling' = FALSE /\ gaveUp' = FALSE
    /\ app' = [app EXCEPT !.pc = IF @ = "waiting" THEN "idle" ELSE @]
    /\ UNCHANGED <<condstore, server, meta, settled, past>>

(***************************************************************************)
(* The activation                                                          *)
(***************************************************************************)
\* The mailbox is shown for the first time after a launch: its set of UIDs is
\* unproven.  (A descriptor brings the earlier one back.)
Opens ==
    /\ app.pc = "idle"
    /\ settled' = FALSE
    /\ UNCHANGED <<condstore, server, disk, daemon, app, past, spent>>

\* mailboxIsUnchanged, which ends the activation if the set is proven.
Unchanged ==
    /\ meta.total > 0 /\ Cardinality(Cached) >= meta.total
    /\ meta.gen = server.gen
    /\ IF condstore THEN meta.modseq = server.modseq
       ELSE meta.next = server.next /\ meta.total = Cardinality(OnServer)

\* sync.now spawns the task and returns.
Asks(t) ==
    /\ app.pc = "idle"
    /\ ~(settled /\ Unchanged)
    /\ ~Runs(t)
    /\ task' = [x \in Tasks |-> IF x = t THEN [NoTask EXCEPT !.pc = "spawned", !.mine = TRUE]
                                ELSE [task[x] EXCEPT !.mine = FALSE]]
    /\ crowded' = (crowded \/ \E x \in Tasks : Runs(x))
    /\ app' = [pc |-> "wait", synced |-> FALSE, good |-> FALSE]
    /\ UNCHANGED <<condstore, server, disk, status, watch, filling, gaveUp, settled, lost, spent>>

\* wait_for_sync: the value in the channel, or else the state, answers at once.
Answered(good) == app' = [app EXCEPT !.pc = "answered", !.good = good]
Gone == app' = [app EXCEPT !.pc = "idle"]

Waits ==
    /\ app.pc = "wait"
    /\ watch' = IF watch = "none" THEN "empty" ELSE watch
    /\ CASE watch \in {"good", "bad"} -> Answered(watch = "good")
         [] watch \in {"none", "empty"} /\ status = "idle" -> Answered(TRUE)
         [] watch \in {"none", "empty"} /\ status = "error" -> Gone
         [] OTHER -> app' = [app EXCEPT !.pc = "waiting"]
    /\ UNCHANGED <<condstore, server, disk, task, status, filling, gaveUp, settled, past, spent>>

WaitTimesOut ==
    /\ app.pc = "waiting"
    /\ IF status = "idle" THEN Answered(TRUE) ELSE Gone
    /\ UNCHANGED <<condstore, server, disk, daemon, settled, past, spent>>

\* After a success the newest rows of the cache are read again: as many as the
\* mailbox had messages prove the set complete.
Reads ==
    /\ app.pc = "answered"
    /\ app' = [app EXCEPT !.pc = "idle", !.good = FALSE, !.synced = FALSE]
    /\ settled' = IF app.good /\ Cached # {} /\ meta # NoMeta
                  THEN Cardinality(Newest(Cached, PageSize)) >= meta.total ELSE settled
    /\ UNCHANGED <<condstore, server, disk, daemon, past, spent>>

\* Six hours go by: a timestamp, on disk or in a task's copy, has expired.
ReconcileComesDue ==
    /\ meta.fresh \/ \E t \in Tasks : task[t].base.fresh
    /\ meta' = [meta EXCEPT !.fresh = FALSE]
    /\ task' = [t \in Tasks |-> [task[t] EXCEPT !.base.fresh = FALSE]]
    /\ UNCHANGED <<condstore, server, cache, status, watch, filling, gaveUp, screen, past, spent>>

-----------------------------------------------------------------------------
Serves(t) ==
    \/ Begins(t) \/ Starts(t) \/ FetchesPage(t) \/ FetchesNew(t) \/ Flags(t)
    \/ SkipsListing(t) \/ Selects(t) \/ Reconciles(t) \/ Ends(t)
    \/ FillLists(t) \/ FillFetches(t) \/ FillWrites(t)

Misses(t) ==
    \/ CapReached(t) \/ FlagsFail(t) \/ Fails(t) \/ FillFails(t)

Activation == (\E t \in Tasks : Asks(t)) \/ Waits \/ WaitTimesOut \/ Reads

Next ==
    \/ Arrives \/ Reissued \/ \E u \in Uid : Expunged(u) \/ Flagged(u)
    \/ \E t \in Tasks : Serves(t) \/ Misses(t)
    \/ DaemonDies
    \/ Opens \/ Activation \/ ReconcileComesDue

Spec == Init /\ [][Next]_headerSync

\* The daemon's requests return, the activation goes on, time passes, and the
\* program is launched again now and then.
FairSpec ==
    /\ Spec
    /\ \A t \in Tasks : WF_headerSync(Serves(t))
    /\ WF_headerSync(Activation)
    /\ WF_headerSync(ReconcileComesDue)
    /\ WF_headerSync(Opens)

-----------------------------------------------------------------------------
Rows == [Uid -> Row]
Metas == [total: Nat, gen: 0 .. 2, next: Nat, modseq: Nat, fresh: BOOLEAN]
PC == {"off", "spawned", "begun", "page", "new", "flags", "list", "listing", "headers",
       "fill", "fetch", "write"}

(* Type invariant.  The mark `backfilling` is set by a task that goes on to *)
(* clear it: "Always clear in-flight first; the gave-up mark is separate"  *)
(* (sync_engine.rs:534).                                                   *)
TypeOK ==
    /\ condstore \in BOOLEAN
    /\ server \in [gen: 1 .. 2, next: Nat, modseq: Nat, at: [Uid -> Nat]]
    /\ cache \in Rows /\ meta \in Metas
    /\ task \in [Tasks -> [pc: PC, mine: BOOLEAN, st: Metas, base: Metas, got: Rows,
                           exists: Nat, list: SUBSET Uid]]
    /\ status \in {"none", "idle", "syncing", "error"}
    /\ watch \in {"none", "empty", "good", "bad"}
    /\ {filling, gaveUp, settled, crowded} \subseteq BOOLEAN /\ lost \subseteq Uid
    /\ app \in [pc: {"idle", "wait", "waiting", "answered"}, synced: BOOLEAN, good: BOOLEAN]
    /\ spent \in [{"changes", "faults"} -> Nat]
    /\ filling = \E t \in Tasks : task[t].pc \in {"fill", "fetch", "write"}

(* With CONDSTORE no change of flags falls between two syncs: a row the    *)
(* cache has older than the server has it changed after the modseq that    *)
(* the next CHANGEDSINCE will ask from.  do_sync records the HIGHESTMODSEQ *)
(* of the STATUS it began with, not a later one, because messages arrive   *)
(* and change while it fetches (sync_engine.rs:347, 407-427, 475).  Not so *)
(* for the UIDs that an answer to CHANGEDSINCE left out, because it failed *)
(* (413, only logged) or broke off (imap/mod.rs:842-847, taken as whole),  *)
(* nor where two tasks wrote at once.                                      *)
FlagsNotLost ==
    condstore /\ ~crowded =>
      \A u \in (Cached \cap OnServer) \ lost :
        cache[u].gen = server.gen /\ cache[u].at < server.at[u] => server.at[u] > meta.modseq

(* A message that is on the server stays in the cache through every        *)
(* reconcile, however short the list of UIDs: a connection that breaks     *)
(* during UID FETCH 1:* gives a list that looks like mass deletion         *)
(* (imap/mod.rs:928-947, sync_engine.rs:440-465).                          *)
NothingLivePruned ==
    [][meta.gen = server.gen /\ meta'.gen = server.gen /\ ~crowded =>
         \A u \in Cached \ Cached' : cache[u].gen = server.gen => u \notin OnServer]_headerSync

NoGhost == \A u \in Cached : u \in OnServer /\ cache[u].gen = server.gen
FlagsRight == \A u \in (Cached \cap OnServer) \ lost : cache[u].at = server.at[u]

(* When the mailbox changes no more, the cache comes to hold it as it is:  *)
(* no row of a message that is gone (an arrival and an expunge that cancel *)
(* in the counts, a reconcile that failed), no flag of old, but of the UID *)
(* that an answer left out, and every message, unless the backfill has     *)
(* given up (sync_engine.rs:429-473, 513-552).                             *)
CacheConverges ==
    <>[](\/ crowded
         \/ NoGhost /\ FlagsRight /\ (gaveUp \/ OnServer \subseteq Cached))

(* What the activation reads after a wait that succeeded was written by    *)
(* the sync it asked for: "Wait for a sync to complete for a specific      *)
(* account" (sync_engine.rs:144), "The daemon just did a real IMAP sync    *)
(* and this is a re-read of what it wrote" (activateAccount.js).           *)
WaitSeesItsSync == app.pc = "answered" /\ app.good => app.synced
=============================================================================
