---------------------------- MODULE DaemonProofs ----------------------------
(***************************************************************************)
(* Theorems about the sync of a mailbox, HeaderSync, as MCDaemon puts it   *)
(* beside the pool, for any numbers of UIDs, requests, changes and faults: *)
(* types, that no change of flags is missed, that nothing live is pruned.  *)
(***************************************************************************)
EXTENDS MCDaemon, FiniteSetTheorems, TLAPS

-----------------------------------------------------------------------------
(* Types.                                                                  *)

Filling == {"fill", "fetch", "write"}

(* The mark `backfilling` admits one backfill at a time.                   *)
OneFills ==
    \A t, x \in Syncs : sync[t].pc \in Filling /\ sync[x].pc \in Filling => t = x

Requests == [pc : H!PC, mine : BOOLEAN, st : H!Metas, base : H!Metas, got : H!Rows,
             exists : Nat, list : SUBSET H!Uid]

TypeInv == H!TypeOK /\ OneFills

LEMMA Parameters ==
    /\ MaxUid \in Nat \ {0} /\ PageSize \in Nat \ {0} /\ MaxGap \in Nat \ {0}
    /\ MaxChanges \in Nat /\ MaxFaults \in Nat
BY SyncAssumption DEF H!HeaderAssumption

(* The instance's Cardinality is the library's.                            *)
LEMMA Counts == ASSUME NEW S PROVE H!Cardinality(S) = Cardinality(S)
BY DEF H!Cardinality, Cardinality

LEMMA UidsFinite ==
    ASSUME NEW U, U \subseteq H!Uid
    PROVE  IsFiniteSet(U) /\ Cardinality(U) \in Nat /\ H!Cardinality(U) \in Nat
<1>1. IsFiniteSet(H!Uid)
  BY Parameters, FS_Interval DEF H!Uid
<1> QED
  BY <1>1, FS_Subset, FS_CardinalityType, Counts

LEMMA OnServerFinite ==
    H!OnServer \subseteq H!Uid /\ H!Cardinality(H!OnServer) \in Nat
BY UidsFinite DEF H!OnServer, H!On

LEMMA NothingType == H!NoRows \in H!Rows /\ H!NoMeta \in H!Metas /\ H!NoTask \in Requests
BY DEF H!NoRows, H!NoMeta, H!NoTask, H!Rows, H!Row, H!Absent, H!Metas, H!PC, Requests

LEMMA HeadersType == ASSUME H!TypeOK, NEW U PROVE H!Headers(U) \in H!Rows
BY DEF H!TypeOK, H!Headers, H!Rows, H!Row, H!Absent

LEMMA AnswersType ==
    ASSUME NEW rows \in H!Rows, NEW got \in H!Answers(rows) PROVE got \in H!Rows
BY DEF H!Answers, H!Rows, H!Row, H!Absent

LEMMA SnapshotType == ASSUME H!TypeOK PROVE H!Snapshot \in H!Metas
<1>1. (IF condstore THEN server.modseq ELSE 0) \in Nat
  BY DEF H!TypeOK
<1>2. server.gen \in 0 .. 2 /\ server.next \in Nat
  BY DEF H!TypeOK
<1> QED
  BY <1>1, <1>2, OnServerFinite DEF H!Snapshot, H!Metas

LEMMA WithType ==
    ASSUME H!TypeOK, NEW got \in H!Rows PROVE H!With(got) \in H!Rows
BY DEF H!TypeOK, H!With, H!Rows

LEMMA PatchedType ==
    ASSUME H!TypeOK, NEW t \in Syncs, NEW seen, H!Patches(t, seen) PROVE cache' \in H!Rows
<1>2. \A u \in H!Uid : cache[u] \in H!Row /\ server.at[u] \in Nat
  BY DEF H!TypeOK, H!Rows
<1>1. \A u \in H!Uid : [cache[u] EXCEPT !.at = server.at[u]] \in H!Row
  BY <1>2 DEF H!Row
<1> QED
  BY <1>1, <1>2 DEF H!Patches, H!Rows

LEMMA PartlyType ==
    ASSUME H!TypeOK, NEW t \in Syncs, H!Partly(t) PROVE cache' \in H!Rows
BY DEF H!TypeOK, H!Partly, H!Rows

LEMMA TasksType == ASSUME H!TypeOK PROVE sync \in [Syncs -> Requests]
BY DEF H!TypeOK, Requests

(* One task steps and the others stay where they are.                      *)
LEMMA StepEffect ==
    ASSUME H!TypeOK, NEW t \in Syncs, NEW new, H!Step(t, new)
    PROVE  /\ sync'[t] = new /\ \A x \in Syncs \ {t} : sync'[x] = sync[x]
           /\ new \in Requests => sync' \in [Syncs -> Requests]
BY TasksType DEF H!Step

(* What the tasks' steps leave of the types: the fields of the daemon that *)
(* no step of the given kind touches.                                      *)
Servers == [gen : 1 .. 2, next : Nat, modseq : Nat, at : [H!Uid -> Nat]]

Spends == [{"changes", "faults"} -> Nat]

LEMMA FaultType ==
    ASSUME H!TypeOK, H!Fault \/ UNCHANGED spent PROVE spent' \in Spends
BY DEF H!TypeOK, H!Fault, Spends

LEMMA ServerMoves ==
    ASSUME H!TypeOK,
           H!Arrives \/ H!Reissued \/ \E u \in H!Uid : H!Expunged(u) \/ H!Flagged(u)
    PROVE  /\ server' \in Servers /\ spent' \in Spends
           /\ UNCHANGED <<condstore, cache, meta, sync, status, watch, filling, gaveUp,
                          app, settled, lost, crowded>>
           /\ server'.modseq = server.modseq + 1
           /\ \/ /\ server'.gen = server.gen
                 /\ server'.next = server.next \/ server'.next = server.next + 1
                 /\ \A u \in H!Uid : server'.at[u] # server.at[u] =>
                      \/ server'.at[u] = 0
                      \/ /\ server'.at[u] = server.modseq + 1
                         /\ server.at[u] > 0 \/ (u = server.next /\ server'.next = u + 1)
              \/ /\ server.gen = 1 /\ server'.gen = 2 /\ server'.next >= 1
                 /\ \A u \in H!Uid : \/ server'.at[u] = 0
                                     \/ /\ server'.at[u] = server.modseq + 1
                                        /\ u < server'.next
<1>s. server \in Servers /\ server.modseq + 1 \in Nat /\ server.next + 1 \in Nat
  BY DEF H!TypeOK, Servers
<1>1. CASE H!Arrives
  <2>1. server' = [server EXCEPT !.next = server.next + 1,
                                 !.at[server.next] = server.modseq + 1,
                                 !.modseq = server.modseq + 1]
    BY <1>1, <1>s DEF H!Arrives, H!Changes, Servers
  <2>2. server' \in Servers
    BY <2>1, <1>s DEF Servers
  <2>3. /\ server'.next = server.next + 1 /\ server'.modseq = server.modseq + 1
        /\ server'.gen = server.gen
        /\ \A u \in H!Uid : server'.at[u] =
             IF u = server.next THEN server.modseq + 1 ELSE server.at[u]
    BY <2>1, <1>s DEF Servers
  <2>4. /\ spent' \in Spends
        /\ UNCHANGED <<condstore, cache, meta, sync, status, watch, filling, gaveUp,
                       app, settled, lost, crowded>>
    BY <1>1 DEF H!Arrives, H!Changes, H!disk, H!daemon, H!screen, H!past, H!TypeOK, Spends
  <2> QED
    BY <2>2, <2>3, <2>4
<1>2. CASE H!Reissued
  <2> DEFINE n == H!Cardinality(H!OnServer)
             at == [u \in H!Uid |-> IF u <= n THEN server.modseq + 1 ELSE 0]
  <2>0. H!Changes([server EXCEPT !.gen = 2, !.next = n + 1, !.at = at])
    BY <1>2 DEF H!Reissued
  <2>2. n \in Nat /\ n + 1 \in Nat
    BY OnServerFinite
  <2>3. at \in [H!Uid -> Nat]
    BY <1>s
  <2> HIDE DEF n, at
  <2>1. server' = [gen |-> 2, next |-> n + 1, modseq |-> server.modseq + 1, at |-> at]
    BY <2>0, <1>s DEF H!Changes, Servers
  <2>4. /\ server' \in Servers /\ server'.gen = 2 /\ server'.next = n + 1
        /\ server'.at = at /\ server'.modseq = server.modseq + 1
    BY <2>1, <2>2, <2>3, <1>s DEF Servers
  <2>5. \A u \in H!Uid : at[u] = 0 \/ (at[u] = server.modseq + 1 /\ u < n + 1)
    <3> SUFFICES ASSUME NEW u \in H!Uid PROVE at[u] = 0 \/ (at[u] = server.modseq + 1 /\ u < n + 1)
      OBVIOUS
    <3>1. u \in Int
      BY Parameters DEF H!Uid
    <3> QED
      BY <2>2, <3>1 DEF at
  <2>6. /\ spent' \in Spends /\ server.gen = 1
        /\ UNCHANGED <<condstore, cache, meta, sync, status, watch, filling, gaveUp,
                       app, settled, lost, crowded>>
    BY <1>2 DEF H!Reissued, H!Changes, H!disk, H!daemon, H!screen, H!past, H!TypeOK, Spends
  <2> QED
    BY <2>2, <2>4, <2>5, <2>6
<1>3. CASE \E u \in H!Uid : H!Expunged(u) \/ H!Flagged(u)
  <2>1. PICK u \in H!Uid : H!Expunged(u) \/ H!Flagged(u)
    BY <1>3
  <2> DEFINE k == IF H!Expunged(u) THEN 0 ELSE server.modseq + 1
  <2>2. server' = [server EXCEPT !.at = [server.at EXCEPT ![u] = k],
                                 !.modseq = server.modseq + 1]
    <3>1. CASE H!Expunged(u)
      BY <3>1, <1>s DEF H!Expunged, H!Changes, Servers
    <3>2. CASE ~H!Expunged(u)
      BY <2>1, <3>2, <1>s DEF H!Flagged, H!Changes, Servers
    <3> QED
      BY <3>1, <3>2
  <2>0. k \in {0, server.modseq + 1} /\ k \in Nat
    BY <1>s
  <2> HIDE DEF k
  <2>3. server' \in Servers
    BY <2>0, <2>2, <1>s DEF Servers
  <2>4. /\ server'.next = server.next /\ server'.modseq = server.modseq + 1
        /\ server'.gen = server.gen
        /\ \A v \in H!Uid : server'.at[v] = IF v = u THEN k ELSE server.at[v]
    BY <2>2, <1>s DEF Servers
  <2>5. /\ server.at[u] > 0 /\ \E new : H!Changes(new)
    BY <2>1 DEF H!Expunged, H!Flagged, H!OnServer, H!On
  <2>6. /\ spent' \in Spends
        /\ UNCHANGED <<condstore, cache, meta, sync, status, watch, filling, gaveUp,
                       app, settled, lost, crowded>>
    BY <2>5 DEF H!Changes, H!disk, H!daemon, H!screen, H!past, H!TypeOK, Spends
  <2> QED
    BY <2>0, <2>3, <2>4, <2>5, <2>6
<1> QED
  BY <1>1, <1>2, <1>3
(* What a step of one task does to the mark `backfilling`.                 *)
Marks(t) ==
    \/ filling' = filling /\ (sync'[t].pc \in Filling <=> sync[t].pc \in Filling)
    \/ sync[t].pc \in Filling /\ sync'[t].pc \notin Filling /\ filling' = FALSE
    \/ filling = FALSE /\ filling' = TRUE /\ sync'[t].pc \in Filling

LEMMA MarksKept ==
    ASSUME TypeInv, NEW t \in Syncs, Marks(t), \A x \in Syncs \ {t} : sync'[x] = sync[x]
    PROVE  OneFills' /\ filling' = \E x \in Syncs : sync'[x].pc \in Filling
<1>1. filling = \E x \in Syncs : sync[x].pc \in Filling
  BY DEF TypeInv, H!TypeOK, Filling
<1>2. OneFills'
  BY <1>1 DEF TypeInv, OneFills, Marks
<1>3. CASE filling' = filling /\ (sync'[t].pc \in Filling <=> sync[t].pc \in Filling)
  BY <1>1, <1>2, <1>3
<1>4. CASE sync[t].pc \in Filling /\ sync'[t].pc \notin Filling /\ filling' = FALSE
  BY <1>4 DEF TypeInv, OneFills
<1>5. CASE filling = FALSE /\ filling' = TRUE /\ sync'[t].pc \in Filling
  <2>1. \E x \in Syncs : sync'[x].pc \in Filling
    BY <1>5
  <2> QED
    BY <1>2, <1>5, <2>1
<1> QED
  BY <1>2, <1>3, <1>4, <1>5 DEF Marks

Apps == [pc : {"idle", "wait", "waiting", "answered"}, synced : BOOLEAN, good : BOOLEAN]
States == {"none", "idle", "syncing", "error"}
Answering == {"none", "empty", "good", "bad"}

LEMMA TellsType ==
    ASSUME H!TypeOK, NEW t \in Syncs, NEW good \in BOOLEAN,
           H!Tells(IF good THEN "good" ELSE "bad"), H!Hears(t, good)
    PROVE  status' \in States /\ watch' \in Answering /\ app' \in Apps
<1>1. app \in Apps /\ sync[t].mine \in BOOLEAN /\ watch \in Answering
  BY TasksType DEF H!TypeOK, Apps, Requests, Answering
<1>2. status' \in States /\ watch' \in Answering
  BY <1>1 DEF H!Tells, States, Answering
<1> DEFINE synced == app.synced \/ (good /\ sync[t].mine)
           pc == IF app.pc = "waiting" THEN "answered" ELSE app.pc
           now == IF app.pc = "waiting" THEN good ELSE app.good
<1>3. synced \in BOOLEAN /\ now \in BOOLEAN
      /\ pc \in {"idle", "wait", "waiting", "answered"}
  BY <1>1 DEF Apps
<1>4. app' = [app EXCEPT !.synced = synced, !.pc = pc, !.good = now]
  BY DEF H!Hears
<1> HIDE DEF synced, pc, now
<1>5. app' \in Apps
  BY <1>1, <1>3, <1>4 DEF Apps
<1> QED
  BY <1>2, <1>5

(* The state after a step of task t is well typed, and everything else is  *)
(* as it was.                                                              *)
Steps(t) ==
    /\ sync' \in [Syncs -> Requests] /\ \A x \in Syncs \ {t} : sync'[x] = sync[x]
    /\ cache' \in H!Rows /\ meta' \in H!Metas /\ spent' \in Spends
    /\ status' \in States /\ watch' \in Answering /\ app' \in Apps
    /\ filling' \in BOOLEAN /\ gaveUp' \in BOOLEAN /\ lost' \subseteq H!Uid
    /\ UNCHANGED <<condstore, server, settled, crowded>>
    /\ Marks(t)

(* Part of it that every step leaves to the rest.                          *)
Rest ==
    /\ cache \in H!Rows /\ meta \in H!Metas /\ spent \in Spends
    /\ status \in States /\ watch \in Answering /\ app \in Apps
    /\ filling \in BOOLEAN /\ gaveUp \in BOOLEAN /\ lost \subseteq H!Uid
    /\ condstore \in BOOLEAN /\ crowded \in BOOLEAN /\ settled \in BOOLEAN

LEMMA RestType == ASSUME H!TypeOK PROVE Rest
BY DEF H!TypeOK, Rest, Spends, States, Answering, Apps

(* A task at rest, as it was but for its place, or of a record built anew. *)
LEMMA RequestType ==
    ASSUME H!TypeOK, NEW t \in Syncs
    PROVE  /\ sync[t] \in Requests
           /\ \A pc \in H!PC : [sync[t] EXCEPT !.pc = pc] \in Requests
           /\ \A pc \in H!PC, got \in H!Rows :
                 [sync[t] EXCEPT !.pc = pc, !.got = got] \in Requests
BY TasksType DEF Requests

LEMMA FlagsPatch ==
    ASSUME lost \subseteq H!Uid, NEW t \in Syncs, H!Flags(t) \/ H!FlagsFail(t)
    PROVE  \E seen \in SUBSET H!Uid :
              /\ H!Patches(t, seen) /\ lost' \subseteq H!Uid
              /\ H!Fault \/ UNCHANGED spent
<1>1. CASE H!Flags(t)
  BY <1>1 DEF H!Flags, H!Changed, H!Cached
<1>2. CASE H!FlagsFail(t)
  <2>1. H!Changed(t) \subseteq H!Uid /\ H!Fault
    BY <1>2 DEF H!FlagsFail, H!Changed, H!Cached
  <2>2. PICK seen \in SUBSET H!Changed(t) :
           /\ H!Patches(t, seen)
           /\ lost' = (lost \ seen) \cup IF condstore THEN H!Changed(t) \ seen ELSE {}
    BY <1>2 DEF H!FlagsFail
  <2> QED
    BY <2>1, <2>2
<1> QED
  BY <1>1, <1>2

LEMMA SyncSteps ==
    ASSUME TypeInv, NEW t \in Syncs,
           H!CapReached(t) \/ H!Begins(t) \/ H!Starts(t) \/ H!FetchesPage(t)
           \/ H!FetchesNew(t) \/ H!Flags(t) \/ H!FlagsFail(t)
    PROVE  Steps(t)
<1> H!TypeOK /\ Rest /\ sync[t] \in Requests
  BY RestType, RequestType DEF TypeInv
<1> USE DEF H!disk, H!screen, H!past
<1>1. CASE H!CapReached(t)
  <2>1. sync'[t] = H!NoTask /\ sync[t].pc = "spawned"
    BY <1>1, StepEffect DEF H!CapReached
  <2>2. Marks(t)
    BY <1>1, <2>1 DEF H!CapReached, H!NoTask, Marks, Filling
  <2> QED
    BY <1>1, <2>2, StepEffect, NothingType, FaultType DEF H!CapReached, Steps, Rest
<1>2. CASE H!Begins(t)
  <2> DEFINE new == [sync[t] EXCEPT !.pc = "begun"]
  <2>1. H!Step(t, new) /\ sync[t].pc = "spawned"
    BY <1>2 DEF H!Begins
  <2>2. new \in Requests /\ new.pc = "begun"
    BY DEF H!PC, Requests
  <2> HIDE DEF new
  <2>3. Marks(t)
    BY <1>2, <2>1, <2>2, StepEffect DEF H!Begins, Marks, Filling
  <2> QED
    BY <1>2, <2>1, <2>2, <2>3, StepEffect DEF H!Begins, Steps, Rest, States
<1>3. CASE H!Starts(t)
  <2> DEFINE delta == H!Cached # {} /\ H!SameGeneration /\ meta.next # 0
             base == IF delta THEN meta ELSE H!NoMeta
             new == [sync[t] EXCEPT !.pc = IF delta THEN "new" ELSE "page",
                                    !.st = H!Snapshot, !.base = base]
  <2>1. H!Step(t, new) /\ sync[t].pc = "begun"
    BY <1>3 DEF H!Starts
  <2>2. base \in H!Metas /\ H!Snapshot \in H!Metas
    BY NothingType, SnapshotType DEF Rest
  <2>3. new \in Requests /\ new.pc \in {"new", "page"}
    <3> HIDE DEF delta, base
    <3> QED
      BY <2>2 DEF Requests, H!PC
  <2> HIDE DEF new, delta, base
  <2>4. Marks(t)
    BY <1>3, <2>1, <2>3, StepEffect DEF H!Starts, Marks, Filling
  <2>5. cache' \in H!Rows /\ meta' \in H!Metas
    BY <1>3, NothingType DEF H!Starts, Rest
  <2> QED
    BY <1>3, <2>1, <2>3, <2>4, <2>5, StepEffect DEF H!Starts, Steps, Rest
<1>4. CASE H!FetchesPage(t)
  <2> DEFINE page == H!Headers(H!Newest(H!OnServer, PageSize))
  <2>1. PICK got \in H!Answers(page) :
           /\ H!Blames(got # page)
           /\ H!Step(t, [sync[t] EXCEPT !.pc = "headers", !.got = got])
    BY <1>4 DEF H!FetchesPage
  <2>2. got \in H!Rows
    BY HeadersType, AnswersType
  <2> DEFINE new == [sync[t] EXCEPT !.pc = "headers", !.got = got]
  <2>3. new \in Requests /\ new.pc = "headers"
    BY <2>2 DEF Requests, H!PC
  <2> HIDE DEF page, new
  <2>4. H!Step(t, new) /\ sync[t].pc = "page"
    BY <1>4, <2>1 DEF new, H!FetchesPage
  <2>5. Marks(t)
    BY <1>4, <2>3, <2>4, StepEffect DEF H!FetchesPage, Marks, Filling
  <2>6. spent' \in Spends /\ meta' \in H!Metas
    BY <1>4, <2>1, FaultType DEF H!Blames, H!FetchesPage, Requests
  <2> QED
    BY <1>4, <2>3, <2>4, <2>5, <2>6, StepEffect DEF H!FetchesPage, Steps, Rest
<1>5. CASE H!FetchesNew(t)
  <2> DEFINE arrived == H!Headers(H!Arrived(t))
  <2>1. PICK got \in H!Answers(arrived) :
           /\ H!Blames(got # arrived)
           /\ H!Step(t, [sync[t] EXCEPT !.pc = "flags", !.got = got])
    BY <1>5 DEF H!FetchesNew
  <2>2. got \in H!Rows
    BY HeadersType, AnswersType
  <2> DEFINE new == [sync[t] EXCEPT !.pc = "flags", !.got = got]
  <2>3. new \in Requests /\ new.pc = "flags"
    BY <2>2 DEF Requests, H!PC
  <2> HIDE DEF arrived, new
  <2>4. H!Step(t, new) /\ sync[t].pc = "new"
    BY <1>5, <2>1 DEF new, H!FetchesNew
  <2>5. Marks(t)
    BY <1>5, <2>3, <2>4, StepEffect DEF H!FetchesNew, Marks, Filling
  <2>6. spent' \in Spends
    BY <2>1, FaultType DEF H!Blames
  <2> QED
    BY <1>5, <2>3, <2>4, <2>5, <2>6, StepEffect DEF H!FetchesNew, Steps, Rest
<1>6. CASE H!Flags(t) \/ H!FlagsFail(t)
  <2>0. PICK seen \in SUBSET H!Uid :
           H!Patches(t, seen) /\ lost' \subseteq H!Uid /\ (H!Fault \/ UNCHANGED spent)
    BY <1>6, FlagsPatch DEF Rest
  <2> DEFINE new == [sync[t] EXCEPT !.pc = "list"]
  <2>1. H!Step(t, new) /\ sync[t].pc = "flags"
    BY <2>0 DEF H!Patches
  <2>2. new \in Requests /\ new.pc = "list"
    BY DEF H!PC, Requests
  <2> HIDE DEF new
  <2>3. Marks(t)
    BY <2>0, <2>1, <2>2, StepEffect DEF H!Patches, Marks, Filling
  <2>4. cache' \in H!Rows /\ spent' \in Spends /\ lost' \subseteq H!Uid
    BY <2>0, PatchedType, FaultType
  <2> QED
    BY <2>0, <2>1, <2>2, <2>3, <2>4, StepEffect DEF H!Patches, Steps, Rest
<1> QED
  BY <1>1, <1>2, <1>3, <1>4, <1>5, <1>6
LEMMA SyncEnds ==
    ASSUME TypeInv, NEW t \in Syncs,
           H!SkipsListing(t) \/ H!Selects(t) \/ H!Reconciles(t) \/ H!Ends(t) \/ H!Fails(t)
    PROVE  Steps(t)
<1> H!TypeOK /\ Rest /\ sync[t] \in Requests
  BY RestType, RequestType DEF TypeInv
<1> USE DEF H!disk, H!screen, H!past
<1>1. ASSUME NEW fresh \in BOOLEAN, H!Records(t, fresh), sync[t].pc \in {"list", "listing"},
             cache' \in H!Rows, spent' \in Spends
      PROVE  Steps(t)
  <2> DEFINE new == [sync[t] EXCEPT !.pc = "headers", !.base = H!NoMeta, !.exists = 0]
  <2>1. H!Step(t, new) /\ meta' = [sync[t].st EXCEPT !.fresh = fresh]
    BY <1>1 DEF H!Records
  <2>2. new \in Requests /\ new.pc = "headers" /\ meta' \in H!Metas
    BY <1>1, <2>1, NothingType DEF H!PC, H!Metas, Requests
  <2> HIDE DEF new
  <2>3. Marks(t)
    BY <1>1, <2>1, <2>2, StepEffect DEF H!Records, Marks, Filling
  <2> QED
    BY <1>1, <2>1, <2>2, <2>3, StepEffect DEF H!Records, Steps, Rest
<1>2. CASE H!SkipsListing(t)
  BY <1>1, <1>2 DEF H!SkipsListing, Rest
<1>3. CASE H!Selects(t)
  <2> DEFINE new == [sync[t] EXCEPT !.pc = "listing", !.exists = H!Cardinality(H!OnServer)]
  <2>1. H!Step(t, new) /\ sync[t].pc = "list"
    BY <1>3 DEF H!Selects
  <2>2. new \in Requests /\ new.pc = "listing"
    BY OnServerFinite DEF H!PC, Requests
  <2> HIDE DEF new
  <2>3. Marks(t)
    BY <1>3, <2>1, <2>2, StepEffect DEF H!Selects, Marks, Filling
  <2> QED
    BY <1>3, <2>1, <2>2, <2>3, StepEffect DEF H!Selects, Steps, Rest
<1>4. CASE H!Reconciles(t)
  <2>1. PICK k \in 0 .. MaxUid :
          LET list == H!OnServer \cap 1 .. k
          IN  /\ sync[t].pc = "listing" /\ H!Blames(list # H!OnServer)
              /\ IF H!Trusted(t, list)
                 THEN /\ cache' = [u \in H!Uid |-> IF u \in list THEN cache[u] ELSE H!Absent]
                      /\ H!Records(t, TRUE)
                 ELSE H!Records(t, sync[t].base.fresh) /\ UNCHANGED cache
    BY <1>4 DEF H!Reconciles
  <2>2. spent' \in Spends
    BY <2>1, FaultType DEF H!Blames
  <2>3. cache' \in H!Rows
    <3>1. H!Absent \in H!Row /\ \A u \in H!Uid : cache[u] \in H!Row
      BY DEF Rest, H!Rows, H!Row, H!Absent
    <3>2. [u \in H!Uid |-> IF u \in H!OnServer \cap 1 .. k THEN cache[u] ELSE H!Absent]
            \in H!Rows
      BY <3>1 DEF H!Rows
    <3> QED
      BY <2>1, <3>2 DEF Rest
  <2>4. sync[t].base.fresh \in BOOLEAN
    BY DEF Requests, H!Metas
  <2> QED
    BY <1>1, <2>1, <2>2, <2>3, <2>4
<1>5. CASE H!Ends(t)
  <2> DEFINE fills == H!Short(t, H!With(sync[t].got)) /\ ~gaveUp /\ ~filling
             new == IF fills THEN [H!NoTask EXCEPT !.pc = "fill"] ELSE H!NoTask
  <2>1. /\ H!Step(t, new) /\ sync[t].pc = "headers" /\ filling' = (filling \/ fills)
        /\ cache' = H!With(sync[t].got)
    BY <1>5 DEF H!Ends
  <2>2. new \in Requests /\ new.pc = IF fills THEN "fill" ELSE "off"
    BY NothingType DEF H!NoTask, H!PC, Requests
  <2>3. fills => filling = FALSE
    BY DEF Rest
  <2> HIDE DEF new, fills
  <2>4. Marks(t)
    BY <2>1, <2>2, <2>3, StepEffect DEF Marks, Filling, Rest
  <2>5. cache' \in H!Rows
    BY <2>1, WithType DEF Requests
  <2>6. status' \in States /\ watch' \in Answering /\ app' \in Apps
    <3>1. H!Tells(IF TRUE THEN "good" ELSE "bad") /\ H!Hears(t, TRUE)
      BY <1>5 DEF H!Ends
    <3> QED
      BY <3>1, TellsType
  <2>7. filling' \in BOOLEAN
    BY <2>1 DEF Rest, fills
  <2> QED
    BY <1>5, <2>1, <2>2, <2>4, <2>5, <2>6, <2>7, StepEffect DEF H!Ends, Steps, Rest
<1>6. CASE H!Fails(t)
  <2>1. /\ sync'[t] = H!NoTask /\ H!Step(t, H!NoTask)
        /\ sync[t].pc \in {"begun", "page", "new", "list", "listing", "headers"}
    BY <1>6, StepEffect DEF H!Fails
  <2>2. Marks(t)
    BY <1>6, <2>1 DEF H!Fails, H!NoTask, Marks, Filling
  <2>3. cache' \in H!Rows /\ spent' \in Spends
    BY <1>6, PartlyType, FaultType DEF H!Fails
  <2>4. status' \in States /\ watch' \in Answering /\ app' \in Apps
    <3>1. H!Tells(IF FALSE THEN "good" ELSE "bad") /\ H!Hears(t, FALSE)
      BY <1>6 DEF H!Fails
    <3> QED
      BY <3>1, TellsType
  <2> QED
    BY <1>6, <2>1, <2>2, <2>3, <2>4, StepEffect, NothingType DEF H!Fails, Steps, Rest
<1> QED
  BY <1>2, <1>3, <1>4, <1>5, <1>6

LEMMA FillSteps ==
    ASSUME TypeInv, NEW t \in Syncs,
           H!FillLists(t) \/ H!FillFetches(t) \/ H!FillWrites(t) \/ H!FillFails(t)
    PROVE  Steps(t)
<1> H!TypeOK /\ Rest /\ sync[t] \in Requests
  BY RestType, RequestType DEF TypeInv
<1> USE DEF H!disk, H!screen, H!past
<1>1. ASSUME NEW empty \in BOOLEAN, H!FillEnds(t, empty), sync[t].pc \in Filling,
             cache' \in H!Rows, spent' \in Spends,
             UNCHANGED <<condstore, server, meta, status, watch, app, settled, lost, crowded>>
      PROVE  Steps(t)
  <2>1. sync'[t] = H!NoTask /\ filling' = FALSE /\ gaveUp' \in BOOLEAN
    BY <1>1, StepEffect DEF H!FillEnds, Rest
  <2>2. Marks(t)
    BY <1>1, <2>1 DEF H!NoTask, Marks, Filling
  <2> QED
    BY <1>1, <2>1, <2>2, StepEffect, NothingType DEF H!FillEnds, Steps, Rest
<1>2. CASE H!FillLists(t)
  <2> DEFINE missing == H!OnServer \ H!Cached
             new == [sync[t] EXCEPT !.pc = "fetch", !.list = missing]
  <2>1. sync[t].pc = "fill"
        /\ UNCHANGED <<condstore, server, cache, meta, status, watch, app, settled, lost,
                       crowded, spent>>
    BY <1>2 DEF H!FillLists
  <2>2. CASE H!FillEnds(t, TRUE)
    BY <1>1, <2>1, <2>2 DEF Rest, Filling
  <2>3. CASE H!Step(t, new) /\ UNCHANGED <<filling, gaveUp>>
    <3>1. new \in Requests /\ new.pc = "fetch"
      BY OnServerFinite DEF H!PC, Requests
    <3> HIDE DEF new
    <3>2. Marks(t)
      BY <2>1, <2>3, <3>1, StepEffect DEF Marks, Filling
    <3> QED
      BY <2>1, <2>3, <3>1, <3>2, StepEffect DEF Steps, Rest
  <2> QED
    BY <1>2, <2>2, <2>3 DEF H!FillLists
<1>3. CASE H!FillFetches(t)
  <2> DEFINE missing == H!Headers(sync[t].list)
  <2>1. PICK got \in H!Answers(missing) :
           /\ H!Blames(got # missing)
           /\ IF H!RowsOf(got) = {} THEN H!FillEnds(t, TRUE)
              ELSE /\ H!Step(t, [sync[t] EXCEPT !.pc = "write", !.list = {}, !.got = got])
                   /\ UNCHANGED <<filling, gaveUp>>
    BY <1>3 DEF H!FillFetches
  <2>2. got \in H!Rows /\ spent' \in Spends
    BY <2>1, HeadersType, AnswersType, FaultType DEF H!Blames
  <2> DEFINE new == [sync[t] EXCEPT !.pc = "write", !.list = {}, !.got = got]
  <2>3. sync[t].pc = "fetch"
        /\ UNCHANGED <<condstore, server, cache, meta, status, watch, app, settled, lost, crowded>>
    BY <1>3 DEF H!FillFetches
  <2>4. CASE H!FillEnds(t, TRUE)
    BY <1>1, <2>2, <2>3, <2>4 DEF Rest, Filling
  <2>5. CASE H!Step(t, new) /\ UNCHANGED <<filling, gaveUp>>
    <3>1. new \in Requests /\ new.pc = "write"
      BY <2>2 DEF H!PC, Requests
    <3> HIDE DEF new
    <3>2. Marks(t)
      BY <2>3, <2>5, <3>1, StepEffect DEF Marks, Filling
    <3> QED
      BY <2>2, <2>3, <2>5, <3>1, <3>2, StepEffect DEF Steps, Rest
  <2> QED
    BY <2>1, <2>4, <2>5
<1>4. CASE H!FillWrites(t)
  <2>1. cache' \in H!Rows
    BY <1>4, WithType DEF H!FillWrites, Requests
  <2> QED
    BY <1>1, <1>4, <2>1 DEF H!FillWrites, Rest, Filling
<1>5. CASE H!FillFails(t)
  <2>1. cache' \in H!Rows /\ spent' \in Spends
    BY <1>5, PartlyType, FaultType DEF H!FillFails
  <2> QED
    BY <1>1, <1>5, <2>1 DEF H!FillFails, Filling
<1> QED
  BY <1>2, <1>3, <1>4, <1>5

LEMMA TaskSteps ==
    ASSUME TypeInv, NEW t \in Syncs, H!Serves(t) \/ H!Misses(t) PROVE Steps(t)
BY SyncSteps, SyncEnds, FillSteps DEF H!Serves, H!Misses

(* Every reachable state of the sync is well typed, step by step.          *)
LEMMA SyncInitType == H!Init => TypeInv
<1> SUFFICES ASSUME H!Init PROVE TypeInv
  OBVIOUS
<1>1. server \in Servers
  <2>1. server = [gen |-> 1, next |-> PageSize + 1, modseq |-> 1,
                  at |-> [u \in H!Uid |-> IF u <= PageSize THEN 1 ELSE 0]]
    BY DEF H!Init
  <2> QED
    BY <2>1, Parameters DEF Servers
<1>2. sync = [t \in Syncs |-> H!NoTask] /\ sync \in [Syncs -> Requests]
  BY NothingType DEF H!Init
<1>3. \A t \in Syncs : sync[t].pc = "off"
  BY <1>2 DEF H!NoTask
<1>4. Rest
  <2>1. spent \in Spends
    <3>1. [changes |-> 0, faults |-> 0] \in [{"changes", "faults"} -> Nat]
      OBVIOUS
    <3> QED
      BY <3>1 DEF H!Init, Spends
  <2>2. app \in Apps
    BY DEF H!Init, Apps
  <2> QED
    BY <2>1, <2>2, NothingType DEF H!Init, Rest, States, Answering
<1>5. filling = FALSE
  BY DEF H!Init
<1> QED
  BY <1>1, <1>2, <1>3, <1>4, <1>5
     DEF TypeInv, H!TypeOK, OneFills, Filling, Servers, Requests, Rest, States, Answering,
         Apps, Spends

(* What the parts of a state say of its type.                              *)
LEMMA Typed ==
    ASSUME server \in Servers, sync \in [Syncs -> Requests], Rest, OneFills,
           filling = \E t \in Syncs : sync[t].pc \in Filling
    PROVE  TypeInv
BY DEF TypeInv, H!TypeOK, Servers, Requests, Rest, States, Answering, Apps, Spends, Filling

LEMMA ActivationSteps ==
    ASSUME TypeInv,
           H!Opens \/ H!Waits \/ H!WaitTimesOut \/ H!Reads
    PROVE  /\ app' \in Apps /\ watch' \in Answering /\ settled' \in BOOLEAN
           /\ UNCHANGED <<condstore, server, cache, meta, sync, status, filling, gaveUp, lost,
                          crowded, spent>>
<1> H!TypeOK /\ Rest
  BY RestType DEF TypeInv
<1> USE DEF H!disk, H!daemon, H!screen, H!past
<1>1. CASE H!Opens
  BY <1>1 DEF H!Opens, Rest
<1>2. CASE H!Waits
  <2>1. watch' \in Answering
    BY <1>2 DEF H!Waits, Rest, Answering
  <2>2. \/ \E good \in BOOLEAN : H!Answered(good)
        \/ H!Gone \/ app' = [app EXCEPT !.pc = "waiting"]
    BY <1>2 DEF H!Waits, Rest, Answering
  <2>3. app' \in Apps
    BY <2>2 DEF H!Answered, H!Gone, Rest, Apps
  <2> QED
    BY <1>2, <2>1, <2>3 DEF H!Waits, Rest
<1>3. CASE H!WaitTimesOut
  <2>1. H!Answered(TRUE) \/ H!Gone
    BY <1>3 DEF H!WaitTimesOut
  <2>2. app' \in Apps
    BY <2>1 DEF H!Answered, H!Gone, Rest, Apps
  <2> QED
    BY <1>3, <2>2 DEF H!WaitTimesOut, Rest
<1>4. CASE H!Reads
  <2>1. app' \in Apps
    BY <1>4 DEF H!Reads, Rest, Apps
  <2>2. settled' \in BOOLEAN
    <3>1. H!Newest(H!Cached, PageSize) \subseteq H!Uid
      BY DEF H!Newest, H!Cached
    <3>2. H!Cardinality(H!Newest(H!Cached, PageSize)) \in Nat /\ meta.total \in Nat
      BY <3>1, UidsFinite DEF Rest, H!Metas
    <3> DEFINE complete == H!Cardinality(H!Newest(H!Cached, PageSize)) >= meta.total
    <3>3. complete \in BOOLEAN
      BY <3>2
    <3>4. settled' = complete \/ settled' = settled
      BY <1>4 DEF H!Reads
    <3> QED
      BY <3>3, <3>4 DEF Rest
  <2> QED
    BY <1>4, <2>1, <2>2 DEF H!Reads, Rest
<1> QED
  BY <1>1, <1>2, <1>3, <1>4

LEMMA AsksType ==
    ASSUME TypeInv, NEW t \in Syncs, H!Asks(t)
    PROVE  /\ sync' \in [Syncs -> Requests] /\ app' \in Apps /\ crowded' \in BOOLEAN
           /\ sync'[t].pc = "spawned" /\ sync[t].pc = "off"
           /\ \A x \in Syncs \ {t} : sync'[x] = [sync[x] EXCEPT !.mine = FALSE]
           /\ UNCHANGED <<condstore, server, cache, meta, status, watch, filling, gaveUp,
                          settled, lost, spent>>
<1> H!TypeOK /\ Rest
  BY RestType DEF TypeInv
<1> DEFINE new == [H!NoTask EXCEPT !.pc = "spawned", !.mine = TRUE]
<1>1. /\ sync' = [x \in Syncs |-> IF x = t THEN new ELSE [sync[x] EXCEPT !.mine = FALSE]]
      /\ sync[t].pc = "off"
  BY DEF H!Asks, H!Runs
<1>2. new \in Requests /\ new.pc = "spawned"
  BY NothingType DEF H!NoTask, Requests, H!PC
<1>3. \A x \in Syncs : [sync[x] EXCEPT !.mine = FALSE] \in Requests
  BY TasksType DEF Requests
<1> HIDE DEF new
<1>4. app' \in Apps
  BY DEF H!Asks, Apps
<1> QED
  BY <1>1, <1>2, <1>3, <1>4 DEF H!Asks, H!disk, Rest

LEMMA DueType ==
    ASSUME TypeInv, H!ReconcileComesDue
    PROVE  /\ sync' \in [Syncs -> Requests] /\ meta' \in H!Metas
           /\ meta' = [meta EXCEPT !.fresh = FALSE]
           /\ \A x \in Syncs : sync'[x] = [sync[x] EXCEPT !.base.fresh = FALSE]
           /\ UNCHANGED <<condstore, server, cache, status, watch, filling, gaveUp, app,
                          settled, lost, crowded, spent>>
<1> H!TypeOK /\ Rest
  BY RestType DEF TypeInv
<1>1. \A x \in Syncs : [sync[x] EXCEPT !.base.fresh = FALSE] \in Requests
  <2> SUFFICES ASSUME NEW x \in Syncs PROVE [sync[x] EXCEPT !.base.fresh = FALSE] \in Requests
    OBVIOUS
  <2>1. sync[x] \in Requests /\ [sync[x].base EXCEPT !.fresh = FALSE] \in H!Metas
    BY TasksType DEF Requests, H!Metas
  <2> QED
    BY <2>1 DEF Requests
<1>2. [meta EXCEPT !.fresh = FALSE] \in H!Metas
  BY DEF Rest, H!Metas
<1> QED
  BY <1>1, <1>2 DEF H!ReconcileComesDue, H!screen, H!past

LEMMA DiesType ==
    ASSUME TypeInv, H!DaemonDies
    PROVE  /\ sync' = [t \in Syncs |-> H!NoTask] /\ cache' \in H!Rows
           /\ spent' \in Spends /\ app' \in Apps /\ \E t \in Syncs : H!Runs(t) /\ H!Partly(t)
           /\ status' = "none" /\ watch' = "none" /\ filling' = FALSE /\ gaveUp' = FALSE
           /\ UNCHANGED <<condstore, server, meta, settled, lost, crowded>>
<1> H!TypeOK /\ Rest
  BY RestType DEF TypeInv
<1>1. PICK t \in Syncs : H!Runs(t) /\ H!Partly(t)
  BY DEF H!DaemonDies
<1>2. app' \in Apps
  BY DEF H!DaemonDies, Rest, Apps
<1> QED
  BY <1>1, <1>2, PartlyType, FaultType DEF H!DaemonDies, H!past

LEMMA SyncNextType == TypeInv /\ [H!Next]_(H!headerSync) => TypeInv'
<1> SUFFICES ASSUME TypeInv, [H!Next]_(H!headerSync) PROVE TypeInv'
  OBVIOUS
<1> H!TypeOK /\ Rest /\ server \in Servers /\ sync \in [Syncs -> Requests] /\ OneFills
    /\ filling = \E t \in Syncs : sync[t].pc \in Filling
  BY RestType, TasksType DEF TypeInv, H!TypeOK, Servers, Filling
<1> SUFFICES /\ server' \in Servers /\ sync' \in [Syncs -> Requests] /\ Rest' /\ OneFills'
             /\ filling' = \E t \in Syncs : sync'[t].pc \in Filling
  BY DEF TypeInv, H!TypeOK, Servers, Requests, Rest, States, Answering, Apps, Spends, Filling
<1>1. CASE H!Arrives \/ H!Reissued \/ \E u \in H!Uid : H!Expunged(u) \/ H!Flagged(u)
  BY <1>1, ServerMoves DEF Rest, OneFills
<1>2. CASE \E t \in Syncs : H!Serves(t) \/ H!Misses(t)
  <2>1. PICK t \in Syncs : Steps(t)
    BY <1>2, TaskSteps
  <2>2. OneFills' /\ filling' = \E x \in Syncs : sync'[x].pc \in Filling
    BY <2>1, MarksKept DEF Steps
  <2> QED
    BY <2>1, <2>2 DEF Steps, Rest
<1>3. CASE H!DaemonDies
  <2>1. \A t \in Syncs : sync'[t] = H!NoTask /\ sync'[t].pc = "off"
    BY <1>3, DiesType DEF H!NoTask
  <2>2. sync' \in [Syncs -> Requests]
    BY <1>3, DiesType, NothingType
  <2> QED
    BY <1>3, <2>1, <2>2, DiesType DEF Rest, OneFills, Filling, States, Answering
<1>4. CASE H!Opens \/ H!Waits \/ H!WaitTimesOut \/ H!Reads
  BY <1>4, ActivationSteps DEF Rest, OneFills
<1>5. CASE \E t \in Syncs : H!Asks(t)
  <2>1. PICK t \in Syncs : H!Asks(t)
    BY <1>5
  <2>2. \A x \in Syncs : sync'[x].pc \in Filling <=> sync[x].pc \in Filling
    <3>1. sync[t].pc \notin Filling /\ sync'[t].pc \notin Filling
      BY <2>1, AsksType DEF Filling
    <3>2. \A x \in Syncs \ {t} : sync'[x].pc = sync[x].pc
      BY <2>1, AsksType DEF Requests
    <3> QED
      BY <3>1, <3>2
  <2> QED
    BY <2>1, <2>2, AsksType DEF Rest, OneFills
<1>6. CASE H!ReconcileComesDue
  <2>1. \A x \in Syncs : sync'[x].pc = sync[x].pc
    BY <1>6, DueType DEF Requests
  <2> QED
    BY <1>6, <2>1, DueType DEF Rest, OneFills
<1>7. CASE UNCHANGED H!headerSync
  BY <1>7 DEF H!headerSync, H!disk, H!daemon, H!screen, H!past, Rest, OneFills
<1> QED
  BY <1>1, <1>2, <1>3, <1>4, <1>5, <1>6, <1>7 DEF H!Next, H!Activation

(* Every value the sync keeps, in the daemon and on disk, stays of its     *)
(* kind, and `backfilling` is set exactly while one task fills the cache.  *)
(* (sync_engine.rs:513-552)                                                *)
THEOREM SyncTyping == H!Spec => []SyncTypeOK
<1>1. TypeInv => SyncTypeOK
  BY DEF TypeInv, SyncTypeOK
<1> QED
  BY <1>1, SyncInitType, SyncNextType, PTL DEF H!Spec
-----------------------------------------------------------------------------
(* What a step of a task does to the rows, to _meta.json and to what the   *)
(* task holds: seven kinds of step.                                        *)

Fetched(u) == [gen |-> server.gen, at |-> server.at[u]]

(* It ends, or turns to the backfill, and may have written what it held.   *)
Leaves(t) ==
    /\ sync[t].pc # "off"
    /\ sync'[t].pc = "off" \/ (sync'[t].pc = "fill" /\ sync[t].pc = "headers")
    /\ sync'[t].st = H!NoMeta /\ sync'[t].got = H!NoRows
    /\ \A u \in H!Uid :
          \/ cache'[u] = cache[u]
          \/ /\ sync[t].pc \in {"headers", "write"} /\ sync[t].got[u] # H!Absent
             /\ cache'[u] = sync[t].got[u]
    /\ UNCHANGED <<meta, lost>>

(* It only goes on: sync_account starts, or the backfill has listed.       *)
GoesOn(t) ==
    /\ <<sync[t].pc, sync'[t].pc>> \in {<<"spawned", "begun">>, <<"fill", "fetch">>}
    /\ sync'[t].st = sync[t].st /\ sync'[t].got = sync[t].got
    /\ UNCHANGED <<cache, meta, lost>>

(* STATUS is there: a usable cache is kept, rows of another UIDVALIDITY go.*)
Chooses(t) ==
    /\ sync[t].pc = "begun" /\ sync'[t].st = H!Snapshot /\ sync'[t].got = sync[t].got
    /\ \/ /\ sync'[t].pc = "new" /\ sync'[t].base = meta
          /\ meta.next # 0 /\ UNCHANGED <<cache, meta, lost>>
       \/ /\ sync'[t].pc = "page" /\ H!SameGeneration
          /\ H!Cached = {} \/ meta.next = 0
          /\ UNCHANGED <<cache, meta, lost>>
       \/ /\ sync'[t].pc = "page" /\ ~H!SameGeneration
          /\ cache' = H!NoRows /\ meta' = H!NoMeta

(* Headers arrive; with the first page _meta.json is written.              *)
Receives(t) ==
    /\ <<sync[t].pc, sync'[t].pc>> \in
          {<<"page", "headers">>, <<"new", "flags">>, <<"fetch", "write">>}
    /\ sync'[t].st = sync[t].st /\ sync'[t].base = sync[t].base
    /\ \A u \in H!Uid : \/ sync'[t].got[u] = H!Absent
                        \/ server.at[u] > 0 /\ sync'[t].got[u] = Fetched(u)
    /\ meta' = IF sync[t].pc = "page" THEN sync[t].st ELSE meta
    /\ UNCHANGED <<cache, lost>>

(* The changed flags arrive; those an answer leaves out are lost.          *)
Patches(t) ==
    /\ sync[t].pc = "flags" /\ sync'[t].pc = "list"
    /\ sync'[t].st = sync[t].st /\ sync'[t].got = sync[t].got /\ meta' = meta
    /\ \/ /\ condstore /\ sync[t].st.modseq = sync[t].base.modseq
          /\ lost' = lost /\ \A u \in H!Uid : cache'[u] = cache[u]
       \/ \A u \in H!Uid :
             \/ /\ cache[u] # H!Absent
                /\ cache'[u].at = server.at[u] /\ cache'[u].gen = cache[u].gen
             \/ /\ cache'[u] = cache[u]
                /\ condstore => \/ u \in lost'
                                \/ /\ u \notin lost
                                   /\ \/ cache[u] = H!Absent
                                      \/ ~(server.at[u] > sync[t].base.modseq)

(* SELECT has told EXISTS.                                                 *)
Counted(t) ==
    /\ sync[t].pc = "list" /\ sync'[t].pc = "listing"
    /\ sync'[t].st = sync[t].st /\ sync'[t].got = sync[t].got
    /\ sync'[t].exists = H!Cardinality(H!OnServer)
    /\ UNCHANGED <<cache, meta, lost>>

(* _meta.json is written; rows are pruned that a trusted list has not.     *)
Recorded(t) ==
    /\ sync[t].pc \in {"list", "listing"} /\ sync'[t].pc = "headers"
    /\ sync'[t].st = sync[t].st /\ sync'[t].got = sync[t].got
    /\ \E fresh \in BOOLEAN : meta' = [sync[t].st EXCEPT !.fresh = fresh]
    /\ lost' = lost
    /\ \/ cache' = cache
       \/ /\ sync[t].pc = "listing"
          /\ \E k \in 0 .. MaxUid :
               /\ H!Cardinality(H!OnServer \cap 1 .. k) >= sync[t].exists
               /\ \A u \in H!Uid :
                     cache'[u] = IF u \in H!OnServer \cap 1 .. k THEN cache[u] ELSE H!Absent

LEMMA AnswersAre ==
    ASSUME H!TypeOK, NEW U, NEW got \in H!Answers(H!Headers(U))
    PROVE  \A u \in H!Uid : \/ got[u] = H!Absent
                            \/ server.at[u] > 0 /\ got[u] = Fetched(u)
BY DEF H!Answers, H!Headers, H!OnServer, H!On, H!Absent, Fetched

LEMMA PartlyIs ==
    ASSUME H!TypeOK, NEW t \in Syncs, H!Partly(t)
    PROVE  \A u \in H!Uid :
              \/ cache'[u] = cache[u]
              \/ /\ sync[t].pc \in {"headers", "write"} /\ sync[t].got[u] # H!Absent
                 /\ cache'[u] = sync[t].got[u]
BY DEF H!Partly, H!RowsOf

LEMMA SeenAre ==
    ASSUME lost \subseteq H!Uid, NEW t \in Syncs, H!Flags(t) \/ H!FlagsFail(t)
    PROVE  \E seen \in SUBSET H!Uid :
              /\ H!Patches(t, seen) /\ seen \subseteq H!Changed(t)
              /\ \/ /\ condstore /\ sync[t].st.modseq = sync[t].base.modseq
                    /\ seen = {} /\ lost' = lost
                 \/ lost' = (lost \ seen) \cup IF condstore THEN H!Changed(t) \ seen ELSE {}
<1>0. H!Changed(t) \subseteq H!Uid
  BY DEF H!Changed, H!Cached
<1>1. CASE H!Flags(t) /\ H!NoFlagMoved(t)
  <2>1. H!Patches(t, {}) /\ lost' = lost \ {}
    BY <1>1 DEF H!Flags
  <2> QED
    BY <1>1, <2>1 DEF H!NoFlagMoved
<1>2. CASE H!Flags(t) /\ ~H!NoFlagMoved(t)
  <2>1. H!Patches(t, H!Changed(t)) /\ lost' = lost \ H!Changed(t)
    BY <1>2 DEF H!Flags
  <2>2. lost' = (lost \ H!Changed(t))
                 \cup IF condstore THEN H!Changed(t) \ H!Changed(t) ELSE {}
    BY <2>1
  <2> QED
    BY <1>0, <2>1, <2>2
<1>3. CASE H!FlagsFail(t)
  <2>1. PICK seen \in SUBSET H!Changed(t) :
           /\ H!Patches(t, seen)
           /\ lost' = (lost \ seen) \cup IF condstore THEN H!Changed(t) \ seen ELSE {}
    BY <1>3 DEF H!FlagsFail
  <2> QED
    BY <1>0, <2>1
<1> QED
  BY <1>1, <1>2, <1>3

LEMMA StepKinds ==
    ASSUME TypeInv, NEW t \in Syncs, H!Serves(t) \/ H!Misses(t)
    PROVE  \/ Leaves(t) \/ GoesOn(t) \/ Chooses(t) \/ Receives(t) \/ Patches(t)
           \/ Counted(t) \/ Recorded(t)
<1> H!TypeOK /\ Rest /\ sync[t] \in Requests
  BY RestType, RequestType DEF TypeInv
<1> USE DEF H!disk, H!screen, H!past
<1>1. CASE H!CapReached(t) \/ H!Fails(t) \/ H!FillFails(t)
  <2>1. /\ sync'[t] = H!NoTask /\ UNCHANGED <<meta, lost>> /\ (H!Partly(t) \/ cache' = cache)
        /\ sync[t].pc # "off"
    BY <1>1, StepEffect DEF H!CapReached, H!Fails, H!FillFails, H!FillEnds
  <2> QED
    BY <2>1, PartlyIs DEF Leaves, H!NoTask
<1>2. CASE H!Begins(t)
  <2>1. sync'[t] = [sync[t] EXCEPT !.pc = "begun"] /\ sync[t].pc = "spawned"
        /\ UNCHANGED <<cache, meta, lost>>
    BY <1>2, StepEffect DEF H!Begins
  <2> QED
    BY <2>1 DEF GoesOn, Requests
<1>3. CASE H!Starts(t)
  <2> DEFINE delta == H!Cached # {} /\ H!SameGeneration /\ meta.next # 0
             base == IF delta THEN meta ELSE H!NoMeta
             pc == IF delta THEN "new" ELSE "page"
  <2>1. /\ sync'[t] = [sync[t] EXCEPT !.pc = pc, !.st = H!Snapshot, !.base = base]
        /\ sync[t].pc = "begun"
        /\ IF H!SameGeneration THEN UNCHANGED <<cache, meta, lost>>
           ELSE cache' = H!NoRows /\ meta' = H!NoMeta
    BY <1>3, StepEffect DEF H!Starts
  <2>2. /\ sync'[t].pc = pc /\ sync'[t].st = H!Snapshot /\ sync'[t].base = base
        /\ sync'[t].got = sync[t].got
    <3> HIDE DEF pc, base
    <3> QED
      BY <2>1 DEF Requests
  <2> QED
    BY <2>1, <2>2 DEF Chooses
<1>4. CASE H!FetchesPage(t)
  <2>1. PICK got \in H!Answers(H!Headers(H!Newest(H!OnServer, PageSize))) :
           H!Step(t, [sync[t] EXCEPT !.pc = "headers", !.got = got])
    BY <1>4 DEF H!FetchesPage
  <2>0. sync'[t] = [sync[t] EXCEPT !.pc = "headers", !.got = got]
    BY <2>1, StepEffect
  <2>2. /\ sync'[t].pc = "headers" /\ sync'[t].st = sync[t].st
        /\ sync'[t].base = sync[t].base /\ sync'[t].got = got
    BY <2>0 DEF Requests
  <2> QED
    BY <1>4, <2>2, AnswersAre DEF H!FetchesPage, Receives
<1>5. CASE H!FetchesNew(t)
  <2>1. PICK got \in H!Answers(H!Headers(H!Arrived(t))) :
           H!Step(t, [sync[t] EXCEPT !.pc = "flags", !.got = got])
    BY <1>5 DEF H!FetchesNew
  <2>0. sync'[t] = [sync[t] EXCEPT !.pc = "flags", !.got = got]
    BY <2>1, StepEffect
  <2>2. /\ sync'[t].pc = "flags" /\ sync'[t].st = sync[t].st
        /\ sync'[t].base = sync[t].base /\ sync'[t].got = got
    BY <2>0 DEF Requests
  <2> QED
    BY <1>5, <2>2, AnswersAre DEF H!FetchesNew, Receives
<1>6. CASE H!Flags(t) \/ H!FlagsFail(t)
  <2> DEFINE none == condstore /\ sync[t].st.modseq = sync[t].base.modseq
  <2>1. PICK seen \in SUBSET H!Uid :
           /\ H!Patches(t, seen) /\ seen \subseteq H!Changed(t)
           /\ \/ none /\ seen = {} /\ lost' = lost
              \/ lost' = (lost \ seen) \cup IF condstore THEN H!Changed(t) \ seen ELSE {}
    BY <1>6, SeenAre DEF Rest
  <2>2. sync'[t] = [sync[t] EXCEPT !.pc = "list"] /\ sync[t].pc = "flags" /\ meta' = meta
    BY <2>1, StepEffect DEF H!Patches
  <2>3. /\ sync'[t].pc = "list" /\ sync'[t].st = sync[t].st /\ sync'[t].got = sync[t].got
    BY <2>2 DEF Requests
  <2>4. \A u \in H!Uid : cache'[u] = IF u \in seen THEN [cache[u] EXCEPT !.at = server.at[u]]
                                     ELSE cache[u]
    BY <2>1 DEF H!Patches
  <2>5. \A u \in H!Uid :
           LET new == [cache[u] EXCEPT !.at = server.at[u]]
           IN  new.at = server.at[u] /\ new.gen = cache[u].gen
    BY DEF Rest, H!Rows, H!Row
  <2>6. \A u \in H!Uid : u \in H!Changed(t) <=>
           cache[u] # H!Absent /\ server.at[u] > sync[t].base.modseq
    BY DEF H!Changed, H!Cached
  <2>7. CASE none /\ seen = {} /\ lost' = lost
    BY <2>2, <2>3, <2>4, <2>7 DEF Patches
  <2>8. CASE lost' = (lost \ seen) \cup IF condstore THEN H!Changed(t) \ seen ELSE {}
    <3> SUFFICES ASSUME NEW u \in H!Uid
                 PROVE  \/ /\ cache[u] # H!Absent
                           /\ cache'[u].at = server.at[u] /\ cache'[u].gen = cache[u].gen
                        \/ /\ cache'[u] = cache[u]
                           /\ condstore => \/ u \in lost'
                                           \/ /\ u \notin lost
                                              /\ \/ cache[u] = H!Absent
                                                 \/ ~(server.at[u] > sync[t].base.modseq)
      BY <2>2, <2>3 DEF Patches
    <3>1. CASE u \in seen
      BY <2>1, <2>4, <2>5, <2>6, <3>1
    <3>2. CASE u \notin seen
      BY <2>4, <2>6, <2>8, <3>2
    <3> QED
      BY <3>1, <3>2
  <2> QED
    BY <2>1, <2>7, <2>8
<1>7. CASE H!Selects(t)
  <2> DEFINE n == H!Cardinality(H!OnServer)
  <2>1. sync'[t] = [sync[t] EXCEPT !.pc = "listing", !.exists = n] /\ sync[t].pc = "list"
        /\ UNCHANGED <<cache, meta, lost>>
    BY <1>7, StepEffect DEF H!Selects
  <2> HIDE DEF n
  <2>2. /\ sync'[t].pc = "listing" /\ sync'[t].exists = n
        /\ sync'[t].st = sync[t].st /\ sync'[t].got = sync[t].got
    BY <2>1 DEF Requests
  <2> QED
    BY <2>1, <2>2 DEF Counted, n
<1>8. CASE H!SkipsListing(t) \/ H!Reconciles(t)
  <2>1. ASSUME NEW fresh \in BOOLEAN, H!Records(t, fresh)
        PROVE  /\ sync'[t].pc = "headers" /\ sync'[t].st = sync[t].st
               /\ sync'[t].got = sync[t].got /\ lost' = lost
               /\ meta' = [sync[t].st EXCEPT !.fresh = fresh]
    <3>1. sync'[t] = [sync[t] EXCEPT !.pc = "headers", !.base = H!NoMeta, !.exists = 0]
      BY <2>1, StepEffect DEF H!Records
    <3> QED
      BY <2>1, <3>1 DEF H!Records, Requests
  <2>2. CASE H!SkipsListing(t)
    BY <2>1, <2>2 DEF H!SkipsListing, Recorded
  <2>3. CASE H!Reconciles(t)
    <3>1. PICK k \in 0 .. MaxUid :
            LET list == H!OnServer \cap 1 .. k
            IN  /\ sync[t].pc = "listing"
                /\ IF H!Trusted(t, list)
                   THEN /\ cache' = [u \in H!Uid |-> IF u \in list THEN cache[u] ELSE H!Absent]
                        /\ H!Records(t, TRUE)
                   ELSE H!Records(t, sync[t].base.fresh) /\ UNCHANGED cache
      BY <2>3 DEF H!Reconciles
    <3>2. CASE H!Trusted(t, H!OnServer \cap 1 .. k)
      <4>1. \A u \in H!Uid :
               cache'[u] = IF u \in H!OnServer \cap 1 .. k THEN cache[u] ELSE H!Absent
        BY <3>1, <3>2
      <4>2. H!Cardinality(H!OnServer \cap 1 .. k) >= sync[t].exists
        BY <3>2 DEF H!Trusted
      <4>3. H!Records(t, TRUE) /\ sync[t].pc = "listing"
        BY <3>1, <3>2
      <4> QED
        BY <2>1, <4>1, <4>2, <4>3 DEF Recorded
    <3>3. CASE ~H!Trusted(t, H!OnServer \cap 1 .. k)
      <4>1. H!Records(t, sync[t].base.fresh) /\ cache' = cache /\ sync[t].pc = "listing"
        BY <3>1, <3>3
      <4>2. sync[t].base.fresh \in BOOLEAN
        BY DEF Requests, H!Metas
      <4> QED
        BY <2>1, <4>1, <4>2 DEF Recorded
    <3> QED
      BY <3>2, <3>3
  <2> QED
    BY <1>8, <2>2, <2>3
<1>9. CASE H!Ends(t) \/ H!FillWrites(t)
  <2>1. \/ sync'[t] = H!NoTask
        \/ sync'[t] = [H!NoTask EXCEPT !.pc = "fill"] /\ sync[t].pc = "headers"
    BY <1>9, StepEffect DEF H!Ends, H!FillWrites, H!FillEnds
  <2>2. /\ sync[t].pc \in {"headers", "write"} /\ cache' = H!With(sync[t].got)
        /\ UNCHANGED <<meta, lost>>
    BY <1>9 DEF H!Ends, H!FillWrites
  <2>3. \A u \in H!Uid :
           cache'[u] = IF sync[t].got[u] # H!Absent THEN sync[t].got[u] ELSE cache[u]
    BY <2>2 DEF H!With
  <2> QED
    BY <2>1, <2>2, <2>3 DEF Leaves, H!NoTask
<1>10. CASE H!FillLists(t)
  <2> DEFINE missing == H!OnServer \ H!Cached
  <2>1. sync[t].pc = "fill" /\ UNCHANGED <<cache, meta, lost>>
        /\ \/ sync'[t] = H!NoTask
           \/ sync'[t] = [sync[t] EXCEPT !.pc = "fetch", !.list = missing]
    BY <1>10, StepEffect DEF H!FillLists, H!FillEnds
  <2> HIDE DEF missing
  <2>2. CASE sync'[t] = H!NoTask
    BY <2>1, <2>2 DEF Leaves, H!NoTask
  <2>3. CASE sync'[t] = [sync[t] EXCEPT !.pc = "fetch", !.list = missing]
    BY <2>1, <2>3 DEF GoesOn, Requests
  <2> QED
    BY <2>1, <2>2, <2>3
<1>11. CASE H!FillFetches(t)
  <2>1. PICK got \in H!Answers(H!Headers(sync[t].list)) :
           \/ sync'[t] = H!NoTask
           \/ sync'[t] = [sync[t] EXCEPT !.pc = "write", !.list = {}, !.got = got]
    BY <1>11, StepEffect DEF H!FillFetches, H!FillEnds
  <2>2. sync[t].pc = "fetch" /\ UNCHANGED <<cache, meta, lost>>
    BY <1>11 DEF H!FillFetches
  <2>3. CASE sync'[t] = H!NoTask
    BY <2>2, <2>3 DEF Leaves, H!NoTask
  <2>4. CASE sync'[t] = [sync[t] EXCEPT !.pc = "write", !.list = {}, !.got = got]
    <3>1. /\ sync'[t].pc = "write" /\ sync'[t].st = sync[t].st
          /\ sync'[t].base = sync[t].base /\ sync'[t].got = got
      BY <2>4 DEF Requests
    <3> QED
      BY <2>2, <3>1, AnswersAre DEF Receives
  <2> QED
    BY <2>1, <2>3, <2>4
<1> QED
  BY <1>1, <1>2, <1>3, <1>4, <1>5, <1>6, <1>7, <1>8, <1>9, <1>10, <1>11 DEF H!Serves, H!Misses
-----------------------------------------------------------------------------
(* What was seen of the server lies in its past: no row and no record is   *)
(* ahead of it, and a UID of the present generation is below UIDNEXT.      *)

Known(row, u) == row.gen <= server.gen /\ (row.gen = server.gen => u < server.next)
Past(m) == m.gen <= server.gen /\ m.modseq <= server.modseq

PastInv ==
    /\ server.next >= 1 /\ Past(meta)
    /\ \A u \in H!Uid : /\ server.at[u] <= server.modseq
                        /\ server.at[u] > 0 => u < server.next
                        /\ Known(cache[u], u)
    /\ \A t \in Syncs : /\ Past(sync[t].st)
                        /\ \A u \in H!Uid : Known(sync[t].got[u], u)

(* Where no two tasks were under way, one is.                              *)
OneRuns ==
    ~crowded => \A t, x \in Syncs : sync[t].pc # "off" /\ sync[x].pc # "off" => t = x

(* A row that the server has since changed, after mod.                     *)
Safe(srv, row, u, mod) ==
    srv.at[u] > 0 /\ row.gen = srv.gen /\ row.at < srv.at[u] => srv.at[u] > mod

(* The rows of the cache answer for the modseq in _meta.json until a task  *)
(* has asked for the changes, and from then on for the one it will record. *)
Holds(t) ==
    LET c == sync[t]
    IN  /\ c.pc \in {"page", "new", "flags", "list", "listing", "headers"} => c.st.next # 0
        /\ c.pc \in {"headers", "fill", "fetch", "write"} => meta.next # 0
        /\ c.pc = "page" => H!Cached = {}
        /\ c.pc \in {"new", "flags"} => c.base.modseq = meta.modseq
        /\ c.pc \in {"list", "listing"} =>
             \A u \in H!Uid \ lost : Safe(server, cache[u], u, c.st.modseq)
        /\ c.pc \in {"flags", "list", "listing", "headers"} =>
             \A u \in H!Uid : Safe(server, c.got[u], u, c.st.modseq)
        /\ c.pc = "headers" => c.st.modseq = meta.modseq
        /\ c.pc = "write" => \A u \in H!Uid : Safe(server, c.got[u], u, meta.modseq)

FlagInv ==
    condstore /\ ~crowded =>
      /\ meta.next = 0 => H!Cached = {}
      /\ \A u \in H!Uid \ lost : Safe(server, cache[u], u, meta.modseq)
      /\ \A t \in Syncs : Holds(t)

(* While the list of UIDs is awaited, EXISTS counts what the cache knows.  *)
Listed(t) ==
    sync[t].pc = "listing" /\ meta.gen = server.gen =>
      \A u \in H!Uid : server.at[u] > 0 /\ cache[u].gen = server.gen =>
        Cardinality(H!OnServer \cap 1 .. u) <= sync[t].exists

ListInv == ~crowded => \A t \in Syncs : Listed(t)
LEMMA RowTypes ==
    ASSUME H!TypeOK, NEW u \in H!Uid
    PROVE  /\ cache[u].gen \in 0 .. 2 /\ cache[u].at \in Nat
           /\ \A t \in Syncs : sync[t].got[u].gen \in 0 .. 2 /\ sync[t].got[u].at \in Nat
           /\ server.at[u] \in Nat /\ u \in Nat /\ u >= 1
<1>1. cache[u] \in H!Row /\ \A t \in Syncs : sync[t].got[u] \in H!Row
  BY TasksType DEF H!TypeOK, H!Rows, Requests
<1> QED
  BY <1>1, Parameters DEF H!Row, H!TypeOK, H!Uid

LEMMA RecordTypes ==
    ASSUME H!TypeOK
    PROVE  /\ server.gen \in 1 .. 2 /\ server.next \in Nat /\ server.modseq \in Nat
           /\ meta.gen \in 0 .. 2 /\ meta.next \in Nat /\ meta.modseq \in Nat
           /\ \A t \in Syncs : /\ sync[t].st.gen \in 0 .. 2 /\ sync[t].st.next \in Nat
                               /\ sync[t].st.modseq \in Nat /\ sync[t].base.modseq \in Nat
                               /\ sync[t].exists \in Nat /\ sync[t].st \in H!Metas
<1>1. meta \in H!Metas
      /\ \A t \in Syncs : sync[t].st \in H!Metas /\ sync[t].base \in H!Metas
                          /\ sync[t].exists \in Nat
  BY TasksType DEF H!TypeOK, Requests
<1> QED
  BY <1>1 DEF H!Metas, H!TypeOK

LEMMA Nothings ==
    /\ H!Absent.gen = 0 /\ H!Absent.at = 0
    /\ \A u \in H!Uid : H!NoRows[u] = H!Absent
    /\ H!NoMeta.gen = 0 /\ H!NoMeta.next = 0 /\ H!NoMeta.modseq = 0
    /\ H!NoTask.pc = "off" /\ H!NoTask.st = H!NoMeta /\ H!NoTask.got = H!NoRows
BY DEF H!Absent, H!NoRows, H!NoMeta, H!NoTask

LEMMA SnapshotIs ==
    ASSUME H!TypeOK
    PROVE  /\ H!Snapshot.gen = server.gen /\ H!Snapshot.next = server.next
           /\ H!Snapshot.modseq = IF condstore THEN server.modseq ELSE 0
BY DEF H!Snapshot

LEMMA PastInit == H!Init => PastInv
<1> SUFFICES ASSUME H!Init PROVE PastInv
  OBVIOUS
<1> TypeInv /\ H!TypeOK
  BY SyncInitType DEF TypeInv
<1>1. /\ server.next = PageSize + 1 /\ server.modseq = 1 /\ server.gen = 1
      /\ \A u \in H!Uid : server.at[u] = IF u <= PageSize THEN 1 ELSE 0
  BY DEF H!Init
<1>2. cache = H!NoRows /\ meta = H!NoMeta /\ \A t \in Syncs : sync[t] = H!NoTask
  BY DEF H!Init
<1>3. \A u \in H!Uid : /\ server.at[u] <= server.modseq
                       /\ server.at[u] > 0 => u < server.next
  BY <1>1, Parameters, RowTypes
<1> QED
  BY <1>1, <1>2, <1>3, Nothings, Parameters DEF PastInv, Past, Known

(* A step of a task changes nothing on the server, and what it writes it   *)
(* held, or has from the server.                                           *)
LEMMA PastStep ==
    ASSUME TypeInv, PastInv, NEW t \in Syncs, H!Serves(t) \/ H!Misses(t)
    PROVE  PastInv'
<1> H!TypeOK
  BY DEF TypeInv
<1>1. server' = server /\ \A x \in Syncs \ {t} : sync'[x] = sync[x]
  BY TaskSteps DEF Steps
<1> SUFFICES /\ Past(meta') /\ Past(sync'[t].st)
             /\ \A u \in H!Uid : Known(cache'[u], u) /\ Known(sync'[t].got[u], u)
  BY <1>1 DEF PastInv, Past, Known
<1>2. /\ Past(meta) /\ Past(sync[t].st) /\ Past(H!NoMeta) /\ Past(H!Snapshot)
      /\ \A fresh \in BOOLEAN : Past([sync[t].st EXCEPT !.fresh = fresh])
  BY RecordTypes, Nothings, SnapshotIs DEF PastInv, Past, H!Metas
<1>3. \A u \in H!Uid : /\ Known(cache[u], u) /\ Known(sync[t].got[u], u)
                       /\ Known(H!Absent, u)
                       /\ server.at[u] > 0 => Known(Fetched(u), u)
  BY RecordTypes, Nothings DEF PastInv, Known, Fetched
<1>4. CASE Leaves(t)
  BY <1>2, <1>3, <1>4, Nothings DEF Leaves
<1>5. CASE GoesOn(t) \/ Counted(t)
  BY <1>2, <1>3, <1>5 DEF GoesOn, Counted
<1>6. CASE Chooses(t)
  BY <1>2, <1>3, <1>6, Nothings DEF Chooses
<1>7. CASE Receives(t)
  BY <1>2, <1>3, <1>7 DEF Receives
<1>8. CASE Patches(t)
  <2>1. \A u \in H!Uid : cache'[u] = cache[u] \/ cache'[u].gen = cache[u].gen
    BY <1>8 DEF Patches
  <2> QED
    BY <1>2, <1>3, <1>8, <2>1 DEF Patches, Known
<1>9. CASE Recorded(t)
  <2>1. \A u \in H!Uid : cache'[u] = cache[u] \/ cache'[u] = H!Absent
    BY <1>9 DEF Recorded
  <2> QED
    BY <1>2, <1>3, <1>9, <2>1 DEF Recorded
<1> QED
  BY <1>4, <1>5, <1>6, <1>7, <1>8, <1>9, StepKinds

(* A crash writes what some task held, and leaves no task.                 *)
LEMMA DiesEffect ==
    ASSUME TypeInv, H!DaemonDies
    PROVE  \E t \in Syncs :
             /\ sync[t].pc # "off"
             /\ \A u \in H!Uid :
                  \/ cache'[u] = cache[u]
                  \/ /\ sync[t].pc \in {"headers", "write"} /\ sync[t].got[u] # H!Absent
                     /\ cache'[u] = sync[t].got[u]
BY DiesType, PartlyIs DEF TypeInv, H!Runs

(* The steps that leave rows, records and the places of tasks alone.       *)
Idles ==
    /\ UNCHANGED <<condstore, server, cache, lost, crowded>>
    /\ \A x \in Syncs :
          /\ sync'[x].pc = sync[x].pc /\ sync'[x].st = sync[x].st
          /\ sync'[x].got = sync[x].got /\ sync'[x].exists = sync[x].exists
          /\ sync'[x].base.modseq = sync[x].base.modseq
    /\ meta'.gen = meta.gen /\ meta'.next = meta.next /\ meta'.modseq = meta.modseq

LEMMA IdleSteps ==
    ASSUME TypeInv,
           H!Opens \/ H!Waits \/ H!WaitTimesOut \/ H!Reads \/ H!ReconcileComesDue
           \/ UNCHANGED H!headerSync
    PROVE  Idles
<1>1. CASE H!Opens \/ H!Waits \/ H!WaitTimesOut \/ H!Reads
  BY <1>1, ActivationSteps DEF Idles
<1>2. CASE H!ReconcileComesDue
  <2>1. \A x \in Syncs : sync[x] \in Requests /\ sync[x].base \in H!Metas
    BY TasksType DEF TypeInv, Requests
  <2>2. meta \in H!Metas
    BY DEF TypeInv, H!TypeOK
  <2> QED
    BY <1>2, <2>1, <2>2, DueType DEF Idles, Requests, H!Metas
<1>3. CASE UNCHANGED H!headerSync
  BY <1>3 DEF H!headerSync, H!disk, H!daemon, H!screen, H!past, Idles
<1> QED
  BY <1>1, <1>2, <1>3

LEMMA AsksEffect ==
    ASSUME TypeInv, NEW t \in Syncs, H!Asks(t)
    PROVE  /\ sync'[t].pc = "spawned" /\ sync'[t].st = H!NoMeta /\ sync'[t].got = H!NoRows
           /\ \A x \in Syncs \ {t} :
                /\ sync'[x].pc = sync[x].pc /\ sync'[x].st = sync[x].st
                /\ sync'[x].got = sync[x].got /\ sync'[x].exists = sync[x].exists
                /\ sync'[x].base = sync[x].base
           /\ ~crowded' => ~crowded /\ \A x \in Syncs : sync[x].pc = "off"
           /\ UNCHANGED <<condstore, server, cache, meta, lost>>
<1>1. sync'[t] = [H!NoTask EXCEPT !.pc = "spawned", !.mine = TRUE]
  BY DEF H!Asks
<1>2. \A x \in Syncs \ {t} : sync[x] \in Requests /\ sync'[x] = [sync[x] EXCEPT !.mine = FALSE]
  BY AsksType, TasksType DEF TypeInv
<1>3. ~crowded' => ~crowded /\ \A x \in Syncs : sync[x].pc = "off"
  BY DEF H!Asks, H!Runs
<1>4. sync'[t].st = H!NoMeta /\ sync'[t].got = H!NoRows
  BY <1>1 DEF H!NoTask
<1>5. \A x \in Syncs \ {t} :
         /\ sync'[x].pc = sync[x].pc /\ sync'[x].st = sync[x].st
         /\ sync'[x].got = sync[x].got /\ sync'[x].exists = sync[x].exists
         /\ sync'[x].base = sync[x].base
  BY <1>2 DEF Requests
<1> QED
  BY <1>3, <1>4, <1>5, AsksType

LEMMA PastNext == TypeInv /\ PastInv /\ [H!Next]_(H!headerSync) => PastInv'
<1> SUFFICES ASSUME TypeInv, PastInv, [H!Next]_(H!headerSync) PROVE PastInv'
  OBVIOUS
<1> H!TypeOK
  BY DEF TypeInv
<1>1. CASE H!Arrives \/ H!Reissued \/ \E u \in H!Uid : H!Expunged(u) \/ H!Flagged(u)
  <2>1. server'.gen >= server.gen /\ server'.modseq = server.modseq + 1 /\ server'.next >= 1
        /\ (server'.gen = server.gen => server'.next >= server.next)
        /\ UNCHANGED <<cache, meta, sync>>
    BY <1>1, ServerMoves, RecordTypes DEF PastInv
  <2>2. \A u \in H!Uid : /\ server'.at[u] <= server'.modseq
                         /\ server'.at[u] > 0 => u < server'.next
    <3> SUFFICES ASSUME NEW u \in H!Uid
                 PROVE  /\ server'.at[u] <= server'.modseq
                        /\ server'.at[u] > 0 => u < server'.next
      OBVIOUS
    <3>1. /\ server.at[u] <= server.modseq /\ server.modseq \in Nat /\ server.at[u] \in Nat
          /\ server.next \in Nat /\ u \in Nat /\ (server.at[u] > 0 => u < server.next)
      BY RecordTypes, RowTypes DEF PastInv
    <3>2. \/ /\ server'.at[u] = server.at[u] /\ server'.next >= server.next
          \/ server'.at[u] = 0
          \/ /\ server'.at[u] = server.modseq + 1 /\ server'.next >= server.next
             /\ server.at[u] > 0 \/ (u = server.next /\ server'.next = u + 1)
          \/ server'.at[u] = server.modseq + 1 /\ u < server'.next
      BY <1>1, <3>1, ServerMoves
    <3>3. server'.next \in Nat
      BY <1>1, ServerMoves DEF Servers
    <3> QED
      BY <2>1, <3>1, <3>2, <3>3
  <2>3. server'.gen \in Nat /\ server'.next \in Nat
    BY <1>1, ServerMoves DEF Servers
  <2> QED
    BY <2>1, <2>2, <2>3, RecordTypes, RowTypes DEF PastInv, Past, Known
<1>2. CASE \E t \in Syncs : H!Serves(t) \/ H!Misses(t)
  BY <1>2, PastStep
<1>3. CASE H!DaemonDies
  <2>1. \A u \in H!Uid : Known(cache'[u], u)
    BY <1>3, DiesEffect DEF PastInv
  <2>2. server' = server /\ meta' = meta /\ \A t \in Syncs : sync'[t] = H!NoTask
    BY <1>3, DiesType
  <2> QED
    BY <2>1, <2>2, Nothings, RecordTypes DEF PastInv, Past, Known
<1>4. CASE \E t \in Syncs : H!Asks(t)
  BY <1>4, AsksEffect, Nothings, RecordTypes DEF PastInv, Past, Known
<1>5. CASE H!Opens \/ H!Waits \/ H!WaitTimesOut \/ H!Reads \/ H!ReconcileComesDue
           \/ UNCHANGED H!headerSync
  BY <1>5, IdleSteps DEF Idles, PastInv, Past, Known
<1> QED
  BY <1>1, <1>2, <1>3, <1>4, <1>5 DEF H!Next, H!Activation

LEMMA OneRunsInit == H!Init => OneRuns
BY Nothings DEF H!Init, OneRuns

LEMMA OneRunsNext == TypeInv /\ OneRuns /\ [H!Next]_(H!headerSync) => OneRuns'
<1> SUFFICES ASSUME TypeInv, OneRuns, [H!Next]_(H!headerSync) PROVE OneRuns'
  OBVIOUS
<1>1. CASE H!Arrives \/ H!Reissued \/ \E u \in H!Uid : H!Expunged(u) \/ H!Flagged(u)
  BY <1>1, ServerMoves DEF OneRuns, TypeInv
<1>2. CASE \E t \in Syncs : H!Serves(t) \/ H!Misses(t)
  <2>1. PICK t \in Syncs : H!Serves(t) \/ H!Misses(t)
    BY <1>2
  <2>2. crowded' = crowded /\ \A x \in Syncs \ {t} : sync'[x] = sync[x]
    BY <2>1, TaskSteps DEF Steps
  <2>3. sync[t].pc # "off"
    BY <2>1, StepKinds DEF Leaves, GoesOn, Chooses, Receives, Patches, Counted, Recorded
  <2> QED
    BY <2>2, <2>3 DEF OneRuns
<1>3. CASE H!DaemonDies
  BY <1>3, DiesType, Nothings DEF OneRuns
<1>4. CASE \E t \in Syncs : H!Asks(t)
  BY <1>4, AsksEffect DEF OneRuns
<1>5. CASE H!Opens \/ H!Waits \/ H!WaitTimesOut \/ H!Reads \/ H!ReconcileComesDue
           \/ UNCHANGED H!headerSync
  BY <1>5, IdleSteps DEF Idles, OneRuns
<1> QED
  BY <1>1, <1>2, <1>3, <1>4, <1>5 DEF H!Next, H!Activation
LEMMA PastFacts ==
    ASSUME TypeInv, PastInv
    PROVE  /\ meta.modseq <= server.modseq /\ meta.gen <= server.gen /\ server.next >= 1
           /\ \A t \in Syncs : sync[t].st.modseq <= server.modseq
           /\ \A u \in H!Uid : /\ cache[u].gen <= server.gen
                               /\ cache[u].gen = server.gen => u < server.next
                               /\ \A t \in Syncs : sync[t].got[u].gen <= server.gen
BY DEF PastInv, Past, Known

(* A change on the server takes a modseq that no record has.               *)
LEMMA SafeMoves ==
    ASSUME TypeInv, PastInv,
           H!Arrives \/ H!Reissued \/ \E u \in H!Uid : H!Expunged(u) \/ H!Flagged(u)
    PROVE  \A u \in H!Uid, row \in H!Row, mod \in Nat :
              mod <= server.modseq /\ row.gen <= server.gen /\ Safe(server, row, u, mod)
                => Safe(server', row, u, mod)
<1> H!TypeOK
  BY DEF TypeInv
<1> SUFFICES ASSUME NEW u \in H!Uid, NEW row \in H!Row, NEW mod \in Nat,
                    mod <= server.modseq, row.gen <= server.gen, Safe(server, row, u, mod)
             PROVE  Safe(server', row, u, mod)
  OBVIOUS
<1>1. row.gen \in Nat /\ row.at \in Nat /\ server.modseq \in Nat /\ server.gen \in 1 .. 2
  BY RecordTypes DEF H!Row
<1>2. CASE server'.at[u] = server.modseq + 1
  BY <1>1, <1>2 DEF Safe
<1>3. CASE server'.at[u] = 0
  BY <1>3 DEF Safe
<1>4. CASE server'.at[u] = server.at[u] /\ server'.gen = server.gen
  BY <1>4 DEF Safe
<1> QED
  BY <1>2, <1>3, <1>4, ServerMoves

LEMMA SafeRows ==
    ASSUME TypeInv, PastInv, NEW u \in H!Uid, NEW mod \in Nat
    PROVE  Safe(server, H!Absent, u, mod) /\ Safe(server, Fetched(u), u, mod)
BY Nothings, RecordTypes, RowTypes DEF Safe, Fetched, TypeInv

LEMMA FlagInit == H!Init => FlagInv
<1> SUFFICES ASSUME H!Init PROVE FlagInv
  OBVIOUS
<1>1. TypeInv /\ PastInv
  BY SyncInitType, PastInit
<1>2. cache = H!NoRows /\ meta = H!NoMeta /\ \A t \in Syncs : sync[t] = H!NoTask
  BY DEF H!Init
<1>3. H!Cached = {} /\ \A u \in H!Uid : cache[u] = H!Absent
  BY <1>2, Nothings DEF H!Cached
<1>4. \A t \in Syncs : Holds(t)
  BY <1>2, Nothings DEF Holds
<1>5. meta.modseq \in Nat
  BY <1>1, RecordTypes DEF TypeInv
<1> QED
  BY <1>1, <1>3, <1>4, <1>5, SafeRows DEF FlagInv

LEMMA FlagStep ==
    ASSUME TypeInv, PastInv, OneRuns, FlagInv, NEW t \in Syncs, H!Serves(t) \/ H!Misses(t)
    PROVE  FlagInv'
<1> H!TypeOK
  BY DEF TypeInv
<1>1. server' = server /\ condstore' = condstore /\ crowded' = crowded
      /\ \A x \in Syncs \ {t} : sync'[x] = sync[x]
  BY TaskSteps DEF Steps
<1>2. sync[t].pc # "off"
  BY StepKinds DEF Leaves, GoesOn, Chooses, Receives, Patches, Counted, Recorded
<1>0. ~crowded => \A x \in Syncs \ {t} : Holds(x)'
  <2> SUFFICES ASSUME ~crowded, NEW x \in Syncs \ {t} PROVE Holds(x)'
    OBVIOUS
  <2>1. sync'[x].pc = "off"
    BY <1>1, <1>2 DEF OneRuns
  <2> QED
    BY <2>1 DEF Holds
<1> SUFFICES ASSUME condstore, ~crowded
             PROVE  /\ meta'.next = 0 => \A u \in H!Uid : cache'[u] = H!Absent
                    /\ \A u \in H!Uid \ lost' : Safe(server, cache'[u], u, meta'.modseq)
                    /\ Holds(t)'
  BY <1>0, <1>1 DEF FlagInv, H!Cached
<1>3. /\ meta.next = 0 => \A u \in H!Uid : cache[u] = H!Absent
      /\ \A u \in H!Uid \ lost : Safe(server, cache[u], u, meta.modseq)
      /\ Holds(t)
  BY <1>2 DEF FlagInv, H!Cached
<1>4. CASE Leaves(t)
  <2>1. \A u \in H!Uid \ lost' : Safe(server, cache'[u], u, meta'.modseq)
    BY <1>3, <1>4 DEF Leaves, Holds
  <2>2. meta'.next = 0 => \A u \in H!Uid : cache'[u] = H!Absent
    BY <1>3, <1>4 DEF Leaves, Holds
  <2>3. Holds(t)'
    BY <1>3, <1>4 DEF Leaves, Holds
  <2> QED
    BY <2>1, <2>2, <2>3
<1>5. CASE GoesOn(t)
  BY <1>3, <1>5 DEF GoesOn, Holds
<1>6. CASE Chooses(t)
  <2>1. sync'[t].st.next # 0 /\ sync'[t].pc \in {"new", "page"}
    BY <1>6, SnapshotIs, PastFacts, RecordTypes DEF Chooses
  <2>2. CASE sync'[t].pc = "new" /\ sync'[t].base = meta /\ UNCHANGED <<cache, meta, lost>>
    BY <1>3, <2>1, <2>2 DEF Holds
  <2>3. CASE sync'[t].pc = "page" /\ H!SameGeneration
    <3>1. UNCHANGED <<cache, meta, lost>> /\ \A u \in H!Uid : cache[u] = H!Absent
      BY <1>3, <1>6, <2>3 DEF Chooses, H!Cached
    <3>2. (H!Cached = {})'
      BY <3>1 DEF H!Cached
    <3> QED
      BY <1>3, <2>1, <2>3, <3>1, <3>2 DEF Holds
  <2>4. CASE sync'[t].pc = "page" /\ cache' = H!NoRows /\ meta' = H!NoMeta
    <3>1. \A u \in H!Uid : cache'[u] = H!Absent
      BY <2>4, Nothings
    <3>2. (H!Cached = {})' /\ meta'.modseq \in Nat
      BY <2>4, <3>1, Nothings DEF H!Cached
    <3> QED
      BY <2>1, <2>4, <3>1, <3>2, SafeRows DEF Holds
  <2> QED
    BY <1>6, <2>2, <2>3, <2>4 DEF Chooses
<1>7. CASE Receives(t)
  <2>1. \A u \in H!Uid, mod \in Nat : Safe(server, sync'[t].got[u], u, mod)
    BY <1>7, SafeRows DEF Receives
  <2>2. CASE sync[t].pc = "page"
    <3>1. sync'[t].pc = "headers" /\ meta' = sync[t].st /\ sync'[t].st = sync[t].st
          /\ cache' = cache /\ lost' = lost
      BY <1>7, <2>2 DEF Receives
    <3>2. \A u \in H!Uid : cache[u] = H!Absent
      BY <1>3, <2>2 DEF Holds, H!Cached
    <3>3. meta'.next # 0 /\ meta'.modseq \in Nat
      BY <1>3, <2>2, <3>1, RecordTypes DEF Holds
    <3> QED
      BY <1>1, <2>1, <3>1, <3>2, <3>3, SafeRows DEF Holds
  <2>3. CASE sync[t].pc \in {"new", "fetch"}
    <3>1. /\ sync[t].pc = "new" => sync'[t].pc = "flags"
          /\ sync[t].pc = "fetch" => sync'[t].pc = "write"
          /\ sync'[t].st = sync[t].st /\ sync'[t].base = sync[t].base
          /\ UNCHANGED <<cache, meta, lost>>
      BY <1>7, <2>3 DEF Receives
    <3>2. meta.modseq \in Nat /\ sync[t].st.modseq \in Nat
      BY RecordTypes
    <3> QED
      BY <1>1, <1>3, <2>1, <2>3, <3>1, <3>2 DEF Holds
  <2> QED
    BY <1>7, <2>2, <2>3 DEF Receives
<1>8. CASE Patches(t)
  <2>1. /\ sync[t].pc = "flags" /\ sync'[t].pc = "list" /\ meta' = meta
        /\ sync'[t].st = sync[t].st /\ sync'[t].got = sync[t].got
    BY <1>8 DEF Patches
  <2>2. /\ sync[t].base.modseq = meta.modseq /\ sync[t].st.next # 0
        /\ \A u \in H!Uid : Safe(server, sync[t].got[u], u, sync[t].st.modseq)
    BY <1>3, <2>1 DEF Holds
  <2>3. \A u \in H!Uid \ lost' : /\ Safe(server, cache'[u], u, sync[t].st.modseq)
                                 /\ Safe(server, cache'[u], u, meta.modseq)
    <3> SUFFICES ASSUME NEW u \in H!Uid, u \notin lost'
                 PROVE  /\ Safe(server, cache'[u], u, sync[t].st.modseq)
                        /\ Safe(server, cache'[u], u, meta.modseq)
      OBVIOUS
    <3>1. /\ u \notin lost => Safe(server, cache[u], u, meta.modseq)
          /\ server.at[u] \in Nat
          /\ meta.modseq \in Nat /\ sync[t].st.modseq \in Nat /\ cache[u].at \in Nat
      BY <1>3, RecordTypes, RowTypes
    <3>2. CASE lost' = lost /\ cache'[u] = cache[u] /\ sync[t].st.modseq = sync[t].base.modseq
      BY <2>2, <3>1, <3>2
    <3>3. CASE cache'[u].at = server.at[u]
      BY <3>1, <3>3 DEF Safe
    <3>4. CASE cache'[u] = cache[u] /\ cache[u] = H!Absent
      BY <3>1, <3>4, SafeRows
    <3>5. CASE /\ cache'[u] = cache[u] /\ u \notin lost
               /\ ~(server.at[u] > sync[t].base.modseq)
      BY <2>2, <3>1, <3>5 DEF Safe
    <3> QED
      BY <1>8, <3>2, <3>3, <3>4, <3>5 DEF Patches
  <2>4. \A u \in H!Uid : cache[u] = H!Absent => cache'[u] = cache[u]
    BY <1>8 DEF Patches
  <2> QED
    BY <1>1, <1>3, <2>1, <2>2, <2>3, <2>4 DEF Holds
<1>9. CASE Counted(t)
  BY <1>1, <1>3, <1>9 DEF Counted, Holds
<1>10. CASE Recorded(t)
  <2>1. /\ sync[t].pc \in {"list", "listing"} /\ sync'[t].pc = "headers"
        /\ sync'[t].st = sync[t].st /\ sync'[t].got = sync[t].got
    BY <1>10 DEF Recorded
  <2>2. meta'.next = sync[t].st.next /\ meta'.modseq = sync[t].st.modseq
    BY <1>10, RecordTypes DEF Recorded, H!Metas
  <2>3. \A u \in H!Uid : cache'[u] = cache[u] \/ cache'[u] = H!Absent
    BY <1>10 DEF Recorded
  <2>5. lost' = lost /\ sync[t].st.modseq \in Nat
    BY <1>10, RecordTypes DEF Recorded
  <2>6. \A u \in H!Uid \ lost : Safe(server, cache[u], u, sync[t].st.modseq)
    BY <1>3, <2>1 DEF Holds
  <2>4. \A u \in H!Uid \ lost' : Safe(server, cache'[u], u, sync[t].st.modseq)
    BY <2>3, <2>5, <2>6, SafeRows
  <2> QED
    BY <1>1, <1>3, <2>1, <2>2, <2>4, <2>5 DEF Holds
<1> QED
  BY <1>4, <1>5, <1>6, <1>7, <1>8, <1>9, <1>10, StepKinds

LEMMA FlagNext ==
    TypeInv /\ PastInv /\ OneRuns /\ FlagInv /\ [H!Next]_(H!headerSync) => FlagInv'
<1> SUFFICES ASSUME TypeInv, PastInv, OneRuns, FlagInv, [H!Next]_(H!headerSync)
             PROVE  FlagInv'
  OBVIOUS
<1> H!TypeOK
  BY DEF TypeInv
<1>1. CASE H!Arrives \/ H!Reissued \/ \E u \in H!Uid : H!Expunged(u) \/ H!Flagged(u)
  <2>1. UNCHANGED <<condstore, cache, meta, sync, lost, crowded>>
    BY <1>1, ServerMoves
  <2>2. /\ \A u \in H!Uid : cache[u] \in H!Row
        /\ \A t \in Syncs, u \in H!Uid : sync[t].got[u] \in H!Row
    BY TasksType DEF H!TypeOK, Requests, H!Rows
  <2> DEFINE kept(row, u, mod) == Safe(server, row, u, mod) => Safe(server', row, u, mod)
  <2>3. \A u \in H!Uid :
           /\ kept(cache[u], u, meta.modseq)
           /\ \A t \in Syncs : /\ kept(cache[u], u, sync[t].st.modseq)
                               /\ kept(sync[t].got[u], u, sync[t].st.modseq)
                               /\ kept(sync[t].got[u], u, meta.modseq)
    BY <1>1, <2>2, SafeMoves, PastFacts, RecordTypes
  <2>4. ASSUME NEW t \in Syncs, Holds(t) PROVE Holds(t)'
    BY <2>1, <2>3, <2>4 DEF Holds, H!Cached
  <2> QED
    BY <2>1, <2>3, <2>4 DEF FlagInv, H!Cached
<1>2. CASE \E t \in Syncs : H!Serves(t) \/ H!Misses(t)
  BY <1>2, FlagStep
<1>3. CASE H!DaemonDies
  <2>1. PICK t \in Syncs :
          /\ sync[t].pc # "off"
          /\ \A u \in H!Uid :
               \/ cache'[u] = cache[u]
               \/ /\ sync[t].pc \in {"headers", "write"} /\ sync[t].got[u] # H!Absent
                  /\ cache'[u] = sync[t].got[u]
    BY <1>3, DiesEffect
  <2>2. /\ UNCHANGED <<condstore, server, meta, lost, crowded>>
        /\ \A x \in Syncs : sync'[x].pc = "off"
    BY <1>3, DiesType, Nothings
  <2> SUFFICES ASSUME condstore, ~crowded PROVE FlagInv'
    BY <2>2 DEF FlagInv
  <2>3. /\ meta.next = 0 => \A u \in H!Uid : cache[u] = H!Absent
        /\ \A u \in H!Uid \ lost : Safe(server, cache[u], u, meta.modseq)
        /\ Holds(t)
    BY DEF FlagInv, H!Cached
  <2>4. \A u \in H!Uid \ lost : Safe(server, cache'[u], u, meta.modseq)
    BY <2>1, <2>3 DEF Holds
  <2>5. meta.next = 0 => \A u \in H!Uid : cache'[u] = H!Absent
    BY <2>1, <2>3 DEF Holds
  <2>6. \A x \in Syncs : Holds(x)'
    BY <2>2 DEF Holds
  <2> QED
    BY <2>2, <2>4, <2>5, <2>6 DEF FlagInv, H!Cached
<1>4. CASE \E t \in Syncs : H!Asks(t)
  <2>1. PICK t \in Syncs : H!Asks(t)
    BY <1>4
  <2>2. UNCHANGED <<condstore, server, cache, meta, lost>>
    BY <2>1, AsksEffect
  <2>3. ASSUME ~crowded' PROVE ~crowded /\ \A x \in Syncs : sync'[x].pc \in {"off", "spawned"}
    BY <2>1, <2>3, AsksEffect
  <2>4. ASSUME NEW x \in Syncs, sync'[x].pc \in {"off", "spawned"} PROVE Holds(x)'
    BY <2>4 DEF Holds
  <2> QED
    BY <2>2, <2>3, <2>4 DEF FlagInv, H!Cached
<1>5. CASE H!Opens \/ H!Waits \/ H!WaitTimesOut \/ H!Reads \/ H!ReconcileComesDue
           \/ UNCHANGED H!headerSync
  <2>1. Idles
    BY <1>5, IdleSteps
  <2>2. ASSUME NEW t \in Syncs, Holds(t) PROVE Holds(t)'
    BY <2>1, <2>2 DEF Idles, Holds, H!Cached
  <2> QED
    BY <2>1, <2>2 DEF Idles, FlagInv, H!Cached
<1> QED
  BY <1>1, <1>2, <1>3, <1>4, <1>5 DEF H!Next, H!Activation
(* No change of flags falls between two syncs: where the server has        *)
(* CONDSTORE, a row it has changed since is one that the next CHANGEDSINCE *)
(* will bring, but for the UIDs that an answer to it left out, and unless  *)
(* two tasks wrote at once.                                                *)
(* (sync_engine.rs:347, 407-427, 475)                                      *)
THEOREM NoFlagMissed == H!Spec => []FlagsNotLost
<1>1. FlagInv => FlagsNotLost
  BY DEF FlagInv, Safe, FlagsNotLost, H!FlagsNotLost, H!OnServer, H!On, H!Cached
<1> QED
  BY <1>1, SyncInitType, SyncNextType, PastInit, PastNext, OneRunsInit, OneRunsNext,
     FlagInit, FlagNext, PTL DEF H!Spec

-----------------------------------------------------------------------------
(* Reconciles.                                                             *)

LEMMA ListInit == H!Init => ListInv
<1> SUFFICES ASSUME H!Init, NEW t \in Syncs PROVE Listed(t)
  BY DEF ListInv
<1> QED
  BY Nothings DEF H!Init, Listed

LEMMA ListStep ==
    ASSUME TypeInv, OneRuns, ListInv, NEW t \in Syncs, H!Serves(t) \/ H!Misses(t)
    PROVE  ListInv'
<1>1. /\ server' = server /\ crowded' = crowded /\ H!OnServer' = H!OnServer
      /\ \A x \in Syncs \ {t} : sync'[x] = sync[x]
  BY TaskSteps DEF Steps, H!OnServer, H!On
<1>2. sync[t].pc # "off"
  BY StepKinds DEF Leaves, GoesOn, Chooses, Receives, Patches, Counted, Recorded
<1> SUFFICES ASSUME ~crowded, NEW x \in Syncs PROVE Listed(x)'
  BY <1>1 DEF ListInv
<1>3. CASE x # t
  <2>1. sync'[x].pc = "off"
    BY <1>1, <1>2, <1>3 DEF OneRuns
  <2> QED
    BY <2>1 DEF Listed
<1>4. CASE x = t /\ Counted(t)
  <2>1. sync'[t].exists = Cardinality(H!OnServer)
    BY <1>4, Counts DEF Counted
  <2>2. \A u \in H!Uid : Cardinality(H!OnServer \cap 1 .. u) <= Cardinality(H!OnServer)
    BY OnServerFinite, UidsFinite, FS_Subset
  <2> QED
    BY <1>1, <1>4, <2>1, <2>2 DEF Listed
<1>5. CASE x = t /\ ~Counted(t)
  <2>1. sync'[t].pc # "listing"
    BY <1>5, StepKinds DEF Leaves, GoesOn, Chooses, Receives, Patches, Recorded
  <2> QED
    BY <1>5, <2>1 DEF Listed
<1> QED
  BY <1>3, <1>4, <1>5

LEMMA ListNext ==
    TypeInv /\ PastInv /\ OneRuns /\ ListInv /\ [H!Next]_(H!headerSync) => ListInv'
<1> SUFFICES ASSUME TypeInv, PastInv, OneRuns, ListInv, [H!Next]_(H!headerSync)
             PROVE  ListInv'
  OBVIOUS
<1> H!TypeOK
  BY DEF TypeInv
<1>1. CASE H!Arrives \/ H!Reissued \/ \E u \in H!Uid : H!Expunged(u) \/ H!Flagged(u)
  <2>1. UNCHANGED <<cache, meta, sync, crowded>>
    BY <1>1, ServerMoves
  <2> SUFFICES ASSUME ~crowded, NEW t \in Syncs, sync[t].pc = "listing",
                      meta.gen = server'.gen, NEW u \in H!Uid, server'.at[u] > 0,
                      cache[u].gen = server'.gen
               PROVE  Cardinality(H!OnServer' \cap 1 .. u) <= sync[t].exists
    BY <2>1 DEF ListInv, Listed
  <2>2. server'.gen = server.gen
    BY <1>1, ServerMoves, PastFacts, RecordTypes
  <2>3. u < server.next
    BY <2>2, PastFacts
  <2>4. \A v \in H!Uid : server'.at[v] > 0 => server.at[v] > 0 \/ v = server.next
    <3> SUFFICES ASSUME NEW v \in H!Uid, server'.at[v] > 0
                 PROVE  server.at[v] > 0 \/ v = server.next
      OBVIOUS
    <3>1. \/ server'.at[v] = server.at[v] \/ server'.at[v] = 0
          \/ server.at[v] > 0 \/ v = server.next
      BY <1>1, <2>2, ServerMoves
    <3> QED
      BY <3>1
  <2>5. server.at[u] > 0
    BY <2>3, <2>4, RowTypes, RecordTypes
  <2>6. H!OnServer' \cap 1 .. u \subseteq H!OnServer \cap 1 .. u
    BY <2>3, <2>4, RowTypes, RecordTypes DEF H!OnServer, H!On
  <2>7. Cardinality(H!OnServer' \cap 1 .. u) <= Cardinality(H!OnServer \cap 1 .. u)
    <3>1. IsFiniteSet(H!OnServer \cap 1 .. u)
      BY OnServerFinite, UidsFinite
    <3> QED
      BY <2>6, <3>1, FS_Subset
  <2>8. Cardinality(H!OnServer \cap 1 .. u) <= sync[t].exists
    BY <2>2, <2>5 DEF ListInv, Listed
  <2>9. /\ H!OnServer' \cap 1 .. u \subseteq H!Uid /\ H!OnServer \cap 1 .. u \subseteq H!Uid
    BY OnServerFinite DEF H!OnServer, H!On
  <2>10. /\ Cardinality(H!OnServer' \cap 1 .. u) \in Nat
         /\ Cardinality(H!OnServer \cap 1 .. u) \in Nat /\ sync[t].exists \in Nat
    BY <2>9, UidsFinite, RecordTypes
  <2> QED
    BY <2>7, <2>8, <2>10
<1>2. CASE \E t \in Syncs : H!Serves(t) \/ H!Misses(t)
  BY <1>2, ListStep
<1>3. CASE H!DaemonDies
  BY <1>3, DiesType, Nothings DEF ListInv, Listed
<1>4. CASE \E t \in Syncs : H!Asks(t)
  <2>1. ASSUME ~crowded' PROVE \A x \in Syncs : sync'[x].pc # "listing"
    BY <1>4, <2>1, AsksEffect
  <2> QED
    BY <2>1 DEF ListInv, Listed
<1>5. CASE H!Opens \/ H!Waits \/ H!WaitTimesOut \/ H!Reads \/ H!ReconcileComesDue
           \/ UNCHANGED H!headerSync
  BY <1>5, IdleSteps DEF Idles, ListInv, Listed, H!OnServer, H!On
<1> QED
  BY <1>1, <1>2, <1>3, <1>4, <1>5 DEF H!Next, H!Activation

(* A list that misses a row the server has is shorter than EXISTS was.     *)
LEMMA TooShort ==
    ASSUME TypeInv, ListInv, ~crowded, meta.gen = server.gen, NEW t \in Syncs,
           sync[t].pc = "listing", NEW u \in H!Uid, server.at[u] > 0,
           cache[u].gen = server.gen, NEW k \in 0 .. MaxUid,
           H!Cardinality(H!OnServer \cap 1 .. k) >= sync[t].exists
    PROVE  u \in 1 .. k
<1> H!TypeOK
  BY DEF TypeInv
<1> SUFFICES ASSUME u \notin 1 .. k PROVE FALSE
  OBVIOUS
<1> DEFINE list == H!OnServer \cap 1 .. k
           upto == H!OnServer \cap 1 .. u
<1>1. list \subseteq upto \ {u} /\ u \in upto
  BY RowTypes, Parameters DEF H!OnServer, H!On
<1>2. IsFiniteSet(upto) /\ Cardinality(upto) \in Nat /\ Cardinality(list) \in Nat
  BY OnServerFinite, UidsFinite
<1>3. IsFiniteSet(upto \ {u}) /\ Cardinality(upto \ {u}) = Cardinality(upto) - 1
  BY <1>1, <1>2, FS_RemoveElement
<1>4. Cardinality(list) <= Cardinality(upto \ {u})
  BY <1>1, <1>3, FS_Subset
<1>5. Cardinality(upto) <= sync[t].exists /\ Cardinality(list) >= sync[t].exists
  BY Counts DEF ListInv, Listed
<1>6. sync[t].exists \in Nat
  BY RecordTypes
<1> QED
  BY <1>2, <1>3, <1>4, <1>5, <1>6

LEMMA NoneLivePruned ==
    ASSUME TypeInv, ListInv, [H!Next]_(H!headerSync), ~crowded,
           meta.gen = server.gen, NEW u \in H!Uid, cache[u] # H!Absent,
           cache[u].gen = server.gen, cache'[u] = H!Absent
    PROVE  ~(server.at[u] > 0)
<1> H!TypeOK
  BY DEF TypeInv
<1>1. CASE \E t \in Syncs : H!Serves(t) \/ H!Misses(t)
  <2>1. PICK t \in Syncs : H!Serves(t) \/ H!Misses(t)
    BY <1>1
  <2>2. CASE Leaves(t) \/ GoesOn(t) \/ Receives(t) \/ Counted(t)
    BY <2>2 DEF Leaves, GoesOn, Receives, Counted
  <2>3. CASE Chooses(t)
    BY <2>3 DEF Chooses, H!SameGeneration
  <2>4. CASE Patches(t)
    <3>1. cache'[u].gen = cache[u].gen
      BY <2>4 DEF Patches
    <3> QED
      BY <3>1, Nothings, RecordTypes
  <2>5. CASE Recorded(t)
    <3>1. PICK k \in 0 .. MaxUid :
            /\ sync[t].pc = "listing"
            /\ H!Cardinality(H!OnServer \cap 1 .. k) >= sync[t].exists
            /\ cache'[u] = IF u \in H!OnServer \cap 1 .. k THEN cache[u] ELSE H!Absent
      BY <2>5 DEF Recorded
    <3> SUFFICES ASSUME server.at[u] > 0 PROVE FALSE
      OBVIOUS
    <3>2. u \in 1 .. k
      BY <3>1, TooShort
    <3> QED
      BY <3>1, <3>2 DEF H!OnServer, H!On
  <2> QED
    BY <2>1, <2>2, <2>3, <2>4, <2>5, StepKinds
<1>2. CASE H!DaemonDies
  BY <1>2, DiesEffect
<1>3. CASE \/ H!Arrives \/ H!Reissued \/ \E v \in H!Uid : H!Expunged(v) \/ H!Flagged(v)
  BY <1>3, ServerMoves
<1>4. CASE \E t \in Syncs : H!Asks(t)
  BY <1>4, AsksEffect
<1>5. CASE H!Opens \/ H!Waits \/ H!WaitTimesOut \/ H!Reads \/ H!ReconcileComesDue
           \/ UNCHANGED H!headerSync
  BY <1>5, IdleSteps DEF Idles
<1> QED
  BY <1>1, <1>2, <1>3, <1>4, <1>5 DEF H!Next, H!Activation

(* No reconcile prunes a message that is on the server, however early a    *)
(* broken connection ends the list: a list that misses one of the rows of  *)
(* the cache is shorter than EXISTS, although messages may have arrived    *)
(* and others gone since.  (imap/mod.rs:928-947, sync_engine.rs:440-465)   *)
THEOREM LiveRowsStay == H!Spec => NothingLivePruned
<1>1. TypeInv /\ ListInv /\ [H!Next]_(H!headerSync) =>
        [meta.gen = server.gen /\ meta'.gen = server.gen /\ ~crowded =>
           \A u \in H!Cached \ H!Cached' :
              cache[u].gen = server.gen => u \notin H!OnServer]_(H!headerSync)
  BY NoneLivePruned DEF H!Cached, H!OnServer, H!On
<1> QED
  BY <1>1, SyncInitType, SyncNextType, PastInit, PastNext, OneRunsInit, OneRunsNext,
     ListInit, ListNext, PTL DEF H!Spec, NothingLivePruned, H!NothingLivePruned

-----------------------------------------------------------------------------
(* The pool and the sync side by side.                                     *)

LEMMA PoolAlone == [PoolStep \/ SyncStep]_JobVars => [Next]_vars
BY DEF PoolStep, SyncStep, JobVars

LEMMA SyncAlone == [PoolStep \/ SyncStep]_JobVars => [H!Next]_(H!headerSync)
BY DEF PoolStep, SyncStep, JobVars, syncVars, H!headerSync, H!disk, H!daemon, H!screen,
       H!past

(* The daemon with its pool implements both specifications, so that what   *)
(* ImapPoolProofs proves of the pool and the theorems above of a sync hold *)
(* of the two together.  (pool.rs, sync_engine.rs)                         *)
THEOREM DaemonImplements == JobSpec => Spec /\ H!Spec
<1>1. JobInit => Init /\ H!Init
  BY DEF JobInit
<1> QED
  BY <1>1, PoolAlone, SyncAlone, PTL DEF JobSpec, Spec, H!Spec

(* The three facts about a sync, of the daemon with its pool: types, no    *)
(* change of flags missed, nothing live pruned.  (sync_engine.rs:340-480)  *)
THEOREM DaemonKeepsTheCache ==
    JobSpec => []SyncTypeOK /\ []FlagsNotLost /\ NothingLivePruned
BY DaemonImplements, SyncTyping, NoFlagMissed, LiveRowsStay, PTL
=============================================================================
