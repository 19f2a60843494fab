-------------------------- MODULE MigrationProofs --------------------------
(***************************************************************************)
(* Theorems about Migration, for any folders, messages, resumes and        *)
(* faults: the types, that a folder called completed has been copied, that *)
(* a cancelled run copies one message more at most, and that nothing is    *)
(* copied twice by runs that do not overlap.                               *)
(***************************************************************************)
EXTENDS Migration, TLAPS

-----------------------------------------------------------------------------
(* Types, and where a run stands: from the list on it has a folder, and    *)
(* with a message in hand it is one of the folder's.                       *)

Within == {"message", "held", "send", "retry"}

Located(run) ==
    /\ run.pc \in Within \cup {"pausedAt", "list"} => run.f \in MFolders
    /\ run.pc \in Within => run.i >= 1
    /\ run.pc \in Within \ {"message"} => run.i <= Size[run.f]

TypeInv == TypeOK /\ \A r \in RunIds : Located(runs[r])

LEMMA MsgsAre ==
    ASSUME MigrationAssumption
    PROVE  /\ \A f \in MFolders, j \in Nat : j >= 1 /\ j <= Size[f] => <<f, j>> \in Msgs
           /\ \A m \in Msgs : /\ m = <<m[1], m[2]>> /\ m[1] \in MFolders /\ m[2] \in Nat
                              /\ m[2] >= 1 /\ m[2] <= Size[m[1]]
BY DEF Msgs, MigrationAssumption

LEMMA InHandIs ==
    ASSUME MigrationAssumption, TypeInv, NEW r \in RunIds, runs[r].pc \in Within \ {"message"}
    PROVE  InHand(r) \in Msgs
<1>1. runs[r].f \in MFolders /\ runs[r].i \in Nat /\ runs[r].i >= 1 /\ runs[r].i <= Size[runs[r].f]
  BY DEF TypeInv, TypeOK, Located, MigrationRun, Within
<1> QED
  BY <1>1, MsgsAre DEF InHand

LEMMA Puts ==
    ASSUME TypeInv, NEW r \in RunIds, NEW run \in MigrationRun, Located(run), Becomes(r, run)
    PROVE  /\ runs' \in [RunIds -> MigrationRun] /\ \A q \in RunIds : Located(runs'[q])
           /\ runs'[r] = run /\ \A q \in RunIds \ {r} : runs'[q] = runs[q]
BY DEF TypeInv, TypeOK, Becomes

(* What the loop makes of a run is a run.                                  *)
LEMMA RunTyped ==
    ASSUME MigrationAssumption, NEW run \in MigrationRun, Located(run)
    PROVE  /\ \A s \in Status \ {"none"}, f \in MFolders, pc \in {"list", "done"} :
                [run EXCEPT !.pc = pc, !.map[f] = s] \in MigrationRun
           /\ run.pc \in Within => AfterOk(run) \in MigrationRun /\ Located(AfterOk(run))
           /\ run.pc \in Within => AfterBad(run) \in MigrationRun /\ Located(AfterBad(run))
<1>1. run.i + 1 \in Nat /\ run.ok + 1 \in Nat /\ run.bad + 1 \in Nat
  BY DEF MigrationRun
<1>a. ASSUME NEW n \in Nat, NEW k \in Nat
      PROVE  /\ [run EXCEPT !.pc = "message", !.i = n, !.ok = k, !.anyOk = TRUE] \in MigrationRun
             /\ [run EXCEPT !.pc = "message", !.i = n, !.bad = k, !.anyBad = TRUE] \in MigrationRun
  BY DEF MigrationRun
<1>b. ASSUME NEW run2 \in MigrationRun, run.pc \in Within, run2.pc = "message", run2.f = run.f,
             run2.i = run.i + 1
      PROVE  Located(run2)
  BY <1>b, <1>1 DEF Located, Within, MigrationRun
<1>2. run.pc \in Within => AfterOk(run) \in MigrationRun /\ Located(AfterOk(run))
  <2>1. AfterOk(run) \in MigrationRun
    BY <1>1, <1>a DEF AfterOk
  <2>2. AfterOk(run).pc = "message" /\ AfterOk(run).f = run.f /\ AfterOk(run).i = run.i + 1
    BY DEF AfterOk, MigrationRun
  <2> QED
    BY <1>b, <2>1, <2>2
<1>3. run.pc \in Within => AfterBad(run) \in MigrationRun /\ Located(AfterBad(run))
  <2>1. AfterBad(run) \in MigrationRun
    BY <1>1, <1>a DEF AfterBad
  <2>2. AfterBad(run).pc = "message" /\ AfterBad(run).f = run.f /\ AfterBad(run).i = run.i + 1
    BY DEF AfterBad, MigrationRun
  <2> QED
    BY <1>b, <2>1, <2>2
<1>4. ASSUME NEW s \in Status \ {"none"}, NEW f \in MFolders, NEW pc \in {"list", "done"}
      PROVE  [run EXCEPT !.pc = pc, !.map[f] = s] \in MigrationRun
  <2>1. [run.map EXCEPT ![f] = s] \in [MFolders -> Status]
    BY DEF MigrationRun
  <2> QED
    BY <2>1 DEF MigrationRun
<1> QED
  BY <1>2, <1>3, <1>4

LEMMA InitType ==
    ASSUME MigrationAssumption, Init PROVE TypeInv
<1>1. 1 \in RunIds /\ MFolders # {} /\ NFolders + 1 \in Nat /\ 1 \in 1 .. NFolders + 1
  BY DEF MigrationAssumption, RunIds, MFolders
<1>2. AllPending \in [MFolders -> Status] /\ Nothing.map \in [MFolders -> Status]
  BY DEF AllPending, Nothing, Saved, Status
<1>3. \A pc \in {"folder", "off"}, token \in BOOLEAN :
         /\ NewRun(pc, AllPending, token) \in MigrationRun
         /\ Located(NewRun(pc, AllPending, token))
  BY <1>1, <1>2 DEF NewRun, MigrationRun, Located, Within
<1>4. runs \in [RunIds -> MigrationRun] /\ \A r \in RunIds : Located(runs[r])
  <2>1. PICK token \in BOOLEAN :
          runs = [r \in RunIds |-> IF r = 1 THEN NewRun("folder", AllPending, token)
                                   ELSE NewRun("off", AllPending, TRUE)]
    BY DEF Init, Tokens
  <2> QED
    BY <1>3, <2>1
<1>5. file \in [status: {"none", "running", "paused", "completed", "failed"},
                map: [MFolders -> Status]]
  BY <1>2 DEF Init, Nothing, Saved
<1>6. copies \in [Msgs -> Nat] /\ faults \in 0 .. MaxFaults
  BY DEF Init, MigrationAssumption
<1> QED
  BY <1>1, <1>4, <1>5, <1>6 DEF TypeInv, TypeOK, Init

-----------------------------------------------------------------------------
(* The shapes a step gives its run, and the file a finished run leaves.    *)

Files == [status: {"none", "running", "paused", "completed", "failed"},
          map: [MFolders -> Status]]

LEMMA MapPut ==
    ASSUME NEW run \in MigrationRun, NEW f \in MFolders, NEW s \in Status
    PROVE  /\ [run EXCEPT !.map[f] = s] \in MigrationRun
           /\ [run EXCEPT !.map[f] = s].map = [run.map EXCEPT ![f] = s]
           /\ \A x \in {"pc", "f", "i", "ids", "ok", "bad", "late"} :
                [run EXCEPT !.map[f] = s][x] = run[x]
<1>1. run.map \in [MFolders -> Status]
  BY DEF MigrationRun
<1>2. PICK map \in [MFolders -> Status] : map = [run.map EXCEPT ![f] = s]
  BY <1>1
<1>3. [run EXCEPT !.map[f] = s] = [run EXCEPT !.map = map]
  BY <1>2
<1>4. [run EXCEPT !.map = map] \in MigrationRun
  BY DEF MigrationRun
<1> QED
  BY <1>2, <1>3, <1>4 DEF MigrationRun

LEMMA FlagsKept ==
    ASSUME NEW run \in MigrationRun, NEW f, NEW s
    PROVE  /\ [run EXCEPT !.map[f] = s].pause = run.pause
           /\ [run EXCEPT !.map[f] = s].cancel = run.cancel
           /\ [run EXCEPT !.map[f] = s].limit = run.limit
           /\ [run EXCEPT !.map[f] = s].anyOk = run.anyOk
           /\ [run EXCEPT !.map[f] = s].anyBad = run.anyBad
BY DEF MigrationRun

LEMMA FileTyped ==
    ASSUME NEW run \in MigrationRun
    PROVE  AtTheEnd(run) \in Files /\ Saved("running", run.map) \in Files
           /\ Saved("paused", run.map) \in Files
BY DEF AtTheEnd, FinalStatus, Saved, Nothing, Files, Status, MigrationRun

LEMMA RunShapes ==
    ASSUME MigrationAssumption, NEW run \in MigrationRun, Located(run)
    PROVE  /\ \A pc \in {"done", "dead", "folder", "quit"} :
                [run EXCEPT !.pc = pc] \in MigrationRun /\ Located([run EXCEPT !.pc = pc])
           /\ \A pc \in {"pausedAt", "list", "message", "held", "send", "retry"} :
                /\ [run EXCEPT !.pc = pc] \in MigrationRun
                /\ run.f \in MFolders /\ (pc \in Within => run.i >= 1)
                     /\ (pc \in Within \ {"message"} => run.i <= Size[run.f])
                   => Located([run EXCEPT !.pc = pc])
           /\ run.f \in MFolders =>
                /\ [run EXCEPT !.f = @ + 1] \in MigrationRun
                /\ [run EXCEPT !.pc = "folder", !.f = @ + 1] \in MigrationRun
                /\ Located([run EXCEPT !.pc = "folder", !.f = @ + 1])
                /\ run.pc = "folder" => Located([run EXCEPT !.f = @ + 1])
           /\ \A ids \in SUBSET MessageIds, i \in Nat :
                LET q == [run EXCEPT !.pc = "message", !.i = i, !.ok = 0, !.bad = 0, !.ids = ids]
                IN  q \in MigrationRun /\ (run.f \in MFolders /\ i >= 1 => Located(q))
           /\ run.pc \in Within =>
                LET q == [run EXCEPT !.pc = "message", !.i = @ + 1]
                IN  q \in MigrationRun /\ Located(q)
<1>t. run.i \in Nat /\ run.f \in Nat /\ (run.f \in MFolders => run.f + 1 \in 1 .. NFolders + 1)
      /\ NFolders \in Nat
  BY DEF MigrationRun, MFolders, MigrationAssumption
<1>1. ASSUME NEW pc \in {"done", "dead", "folder", "quit"}
      PROVE  [run EXCEPT !.pc = pc] \in MigrationRun /\ Located([run EXCEPT !.pc = pc])
  BY DEF MigrationRun, Located, Within
<1>2. ASSUME NEW pc \in {"pausedAt", "list", "message", "held", "send", "retry"}
      PROVE  /\ [run EXCEPT !.pc = pc] \in MigrationRun
             /\ run.f \in MFolders /\ (pc \in Within => run.i >= 1)
                  /\ (pc \in Within \ {"message"} => run.i <= Size[run.f])
                => Located([run EXCEPT !.pc = pc])
  <2>1. [run EXCEPT !.pc = pc] \in MigrationRun
    BY DEF MigrationRun
  <2>2. /\ [run EXCEPT !.pc = pc].pc = pc /\ [run EXCEPT !.pc = pc].f = run.f
        /\ [run EXCEPT !.pc = pc].i = run.i
    BY DEF MigrationRun
  <2> QED
    BY <2>1, <2>2 DEF Located
<1>3. ASSUME run.f \in MFolders
      PROVE  /\ [run EXCEPT !.f = @ + 1] \in MigrationRun
             /\ [run EXCEPT !.pc = "folder", !.f = @ + 1] \in MigrationRun
             /\ Located([run EXCEPT !.pc = "folder", !.f = @ + 1])
             /\ run.pc = "folder" => Located([run EXCEPT !.f = @ + 1])
  <2>1. ASSUME NEW n \in 1 .. NFolders + 1
        PROVE  /\ [run EXCEPT !.f = n] \in MigrationRun /\ [run EXCEPT !.f = n].pc = run.pc
               /\ [run EXCEPT !.pc = "folder", !.f = n] \in MigrationRun
               /\ [run EXCEPT !.pc = "folder", !.f = n].pc = "folder"
    BY DEF MigrationRun
  <2>2. /\ [run EXCEPT !.f = run.f + 1] \in MigrationRun
        /\ [run EXCEPT !.f = run.f + 1].pc = run.pc
        /\ [run EXCEPT !.pc = "folder", !.f = run.f + 1] \in MigrationRun
        /\ [run EXCEPT !.pc = "folder", !.f = run.f + 1].pc = "folder"
    BY <1>t, <1>3, <2>1
  <2> QED
    BY <2>2 DEF Located, Within
<1>4. ASSUME NEW ids \in SUBSET MessageIds, NEW i \in Nat,
             NEW q, q = [run EXCEPT !.pc = "message", !.i = i, !.ok = 0, !.bad = 0, !.ids = ids]
      PROVE  q \in MigrationRun /\ (run.f \in MFolders /\ i >= 1 => Located(q))
  <2>1. q \in MigrationRun
    BY <1>4 DEF MigrationRun
  <2>2. q.pc = "message" /\ q.i = i /\ q.f = run.f
    BY <1>4 DEF MigrationRun
  <2> QED
    BY <2>1, <2>2 DEF Located, Within
<1>5. ASSUME run.pc \in Within, NEW q, q = [run EXCEPT !.pc = "message", !.i = @ + 1]
      PROVE  q \in MigrationRun /\ Located(q)
  <2>1. ASSUME NEW n \in Nat
        PROVE  [run EXCEPT !.pc = "message", !.i = n] \in MigrationRun
    BY DEF MigrationRun
  <2>2. run.i + 1 \in Nat
    BY <1>t
  <2>3. q \in MigrationRun
    BY <1>5, <2>1, <2>2
  <2>4. q.pc = "message" /\ q.i = run.i + 1 /\ q.f = run.f
    BY <1>5 DEF MigrationRun
  <2> QED
    BY <1>t, <1>5, <2>3, <2>4 DEF Located, Within
<1> QED
  BY <1>1, <1>2, <1>3, <1>4, <1>5

LEMMA Stored ==
    ASSUME MigrationAssumption, TypeInv, NEW r \in RunIds,
           NEW q \in MigrationRun, Located(q), Becomes(r, q),
           UNCHANGED <<transport, newest>>, file' \in Files,
           copies' \in [Msgs -> Nat], failed' \subseteq Msgs, unlisted' \subseteq Msgs,
           doubt' \subseteq Msgs, faults' \in 0 .. MaxFaults
    PROVE  TypeInv'
<1>1. runs' \in [RunIds -> MigrationRun] /\ \A x \in RunIds : Located(runs'[x])
  BY Puts
<1>2. (\A x \in RunIds : Located(runs[x]))'
  BY <1>1 DEF Located
<1>3. UNION {failed', unlisted', doubt'} \subseteq Msgs
  OBVIOUS
<1> QED
  BY <1>1, <1>2, <1>3 DEF TypeInv, TypeOK, Files

LEMMA FaultyType ==
    ASSUME MigrationAssumption, TypeInv, Faulty PROVE faults' \in 0 .. MaxFaults
BY DEF TypeInv, TypeOK, Faulty, MigrationAssumption

LEMMA FolderHeadType ==
    ASSUME MigrationAssumption, TypeInv, NEW r \in RunIds, FolderHead(r)
    PROVE  TypeInv'
<1> DEFINE run == runs[r]
<1>t. /\ run \in MigrationRun /\ Located(run) /\ file \in Files
      /\ copies \in [Msgs -> Nat] /\ failed \subseteq Msgs /\ unlisted \subseteq Msgs
      /\ doubt \subseteq Msgs /\ faults \in 0 .. MaxFaults
  BY DEF TypeInv, TypeOK, Files
<1>f. run.pc = "folder" /\ (run.f <= NFolders => run.f \in MFolders)
      /\ UNCHANGED <<transport, newest, copies, failed, unlisted, doubt, faults>>
  BY <1>t DEF FolderHead, MigrationRun, MFolders, MigrationAssumption
<1>s. \A s \in {"cancelled", "in_progress"} : s \in Status
  BY DEF Status
<1> HIDE DEF run
<1>1. CASE run.f > NFolders /\ Finishes(r, run)
  <2>1. Becomes(r, [run EXCEPT !.pc = "done"]) /\ file' \in Files
    BY <1>1, <1>t, FileTyped DEF Finishes
  <2>2. [run EXCEPT !.pc = "done"] \in MigrationRun /\ Located([run EXCEPT !.pc = "done"])
    BY <1>t, RunShapes
  <2> QED
    BY <1>t, <1>f, <2>1, <2>2, Stored
<1>2. CASE run.f <= NFolders /\ Becomes(r, [run EXCEPT !.f = @ + 1]) /\ file' = file
  <2>1. [run EXCEPT !.f = @ + 1] \in MigrationRun /\ Located([run EXCEPT !.f = @ + 1])
    BY <1>2, <1>t, <1>f, RunShapes
  <2> QED
    BY <1>2, <1>t, <1>f, <2>1, Stored
<1>3. CASE run.f <= NFolders /\ Finishes(r, [run EXCEPT !.map[run.f] = "cancelled"])
  <2> DEFINE q == [run EXCEPT !.map[run.f] = "cancelled"]
  <2>1. q \in MigrationRun /\ q.pc = run.pc
    BY <1>3, <1>t, <1>f, <1>s, MapPut
  <2>2. Located(q)
    BY <1>f, <2>1 DEF Located, Within
  <2>3. Becomes(r, [q EXCEPT !.pc = "done"]) /\ file' \in Files
    BY <1>3, <2>1, FileTyped DEF Finishes
  <2> HIDE DEF q
  <2>4. [q EXCEPT !.pc = "done"] \in MigrationRun /\ Located([q EXCEPT !.pc = "done"])
    BY <2>1, <2>2, RunShapes
  <2> QED
    BY <1>t, <1>f, <2>3, <2>4, Stored
<1>4. CASE /\ run.f <= NFolders /\ Becomes(r, [run EXCEPT !.pc = "pausedAt"])
           /\ file' = Saved("paused", run.map)
  <2>1. [run EXCEPT !.pc = "pausedAt"] \in MigrationRun /\ Located([run EXCEPT !.pc = "pausedAt"])
    BY <1>4, <1>t, <1>f, RunShapes DEF Within
  <2>2. file' \in Files
    BY <1>4, <1>t, FileTyped
  <2> QED
    BY <1>4, <1>t, <1>f, <2>1, <2>2, Stored
<1>5. CASE /\ run.f <= NFolders
           /\ Becomes(r, [run EXCEPT !.pc = "list", !.map[run.f] = "in_progress"]) /\ file' = file
  <2> DEFINE p == [run EXCEPT !.pc = "list"]
             q == [p EXCEPT !.map[p.f] = "in_progress"]
  <2>1. p \in MigrationRun /\ p.f = run.f /\ p.pc = "list"
    BY <1>t DEF MigrationRun
  <2>2. q \in MigrationRun /\ q.pc = p.pc /\ q.f = p.f /\ q = [p EXCEPT !.map[p.f] = "in_progress"]
    <3> HIDE DEF p
    <3> QED
      BY <1>5, <1>f, <1>s, <2>1, MapPut
  <2>3. Becomes(r, q)
    BY <1>5, <1>t, <2>1
  <2>4. Located(q)
    BY <1>5, <1>f, <2>1, <2>2 DEF Located, Within
  <2> QED
    BY <1>5, <1>t, <1>f, <2>2, <2>3, <2>4, Stored
<1> QED
  BY <1>1, <1>2, <1>3, <1>4, <1>5 DEF FolderHead, run

LEMMA ListType ==
    ASSUME MigrationAssumption, TypeInv, NEW r \in RunIds,
           \/ PausedFolderCancelled(r) \/ Lists(r) \/ ListsBlind(r) \/ ListsNothing(r)
           \/ FolderFails(r) \/ Dies(r)
    PROVE  TypeInv'
<1> DEFINE run == runs[r]
<1>t. /\ run \in MigrationRun /\ Located(run) /\ file \in Files
      /\ copies \in [Msgs -> Nat] /\ failed \subseteq Msgs /\ unlisted \subseteq Msgs
      /\ doubt \subseteq Msgs /\ faults \in 0 .. MaxFaults
  BY DEF TypeInv, TypeOK, Files
<1>k. KnownThere(run.f) \subseteq MessageIds /\ {} \subseteq MessageIds
      /\ \A ids : Overlooked(run.f, ids) \subseteq Msgs
  BY DEF KnownThere, MessageIds, Overlooked
<1>l. run.pc \in {"list", "pausedAt"} => run.f \in MFolders
  BY <1>t DEF Located
<1>s. "in_progress" \in Status /\ "failed" \in Status
  BY DEF Status
<1> HIDE DEF run
<1>1. CASE PausedFolderCancelled(r)
  <2> DEFINE p == [run EXCEPT !.pc = "list"]
             q == [p EXCEPT !.map[p.f] = "in_progress"]
  <2>1. p \in MigrationRun /\ p.f = run.f /\ p.pc = "list" /\ run.f \in MFolders
    BY <1>1, <1>t, <1>l DEF MigrationRun, PausedFolderCancelled, run
  <2>2. q \in MigrationRun /\ q.pc = p.pc /\ q.f = p.f /\ q = [p EXCEPT !.map[p.f] = "in_progress"]
    <3> HIDE DEF p
    <3> QED
      BY <1>s, <2>1, MapPut
  <2>3. Becomes(r, q)
    BY <1>1, <1>t, <2>1 DEF PausedFolderCancelled, run
  <2>4. Located(q)
    BY <2>1, <2>2 DEF Located, Within
  <2> QED
    BY <1>1, <1>t, <2>2, <2>3, <2>4, Stored DEF PausedFolderCancelled
<1>e. ASSUME NEW ids \in SUBSET MessageIds, NEW i \in Nat, i >= 1, run.pc = "list",
             Enters(r, ids, i)
      PROVE  \E q \in MigrationRun : Located(q) /\ Becomes(r, q)
  <2> DEFINE q == [run EXCEPT !.pc = "message", !.i = i, !.ok = 0, !.bad = 0, !.ids = ids]
  <2>1. q \in MigrationRun /\ Located(q)
    BY <1>e, <1>t, <1>l, RunShapes
  <2>2. Becomes(r, q)
    BY <1>e DEF Enters, run
  <2> QED
    BY <2>1, <2>2
<1>2. CASE Lists(r)
  <2>1. run.pc = "list" /\ Enters(r, KnownThere(run.f), 1)
    BY <1>2 DEF Lists, run
  <2>2. \E q \in MigrationRun : Located(q) /\ Becomes(r, q)
    BY <1>k, <1>e, <2>1
  <2> QED
    BY <1>2, <1>t, <2>2, Stored DEF Lists
<1>3. CASE ListsBlind(r)
  <2>1. PICK ids \in SUBSET KnownThere(run.f) :
          run.pc = "list" /\ Enters(r, ids, 1) /\ doubt' = doubt \cup Overlooked(run.f, ids)
    BY <1>3 DEF ListsBlind, run
  <2>2. \E q \in MigrationRun : Located(q) /\ Becomes(r, q)
    BY <1>k, <1>e, <2>1
  <2>3. doubt' \subseteq Msgs
    BY <1>t, <1>k, <2>1
  <2> QED
    BY <1>3, <1>t, <2>2, <2>3, Stored, FaultyType DEF ListsBlind
<1>6. CASE ListsNothing(r)
  <2>1. run.pc = "list" /\ Enters(r, {}, Size[run.f] + 1) /\ unlisted' \subseteq Msgs
    BY <1>6, <1>t DEF ListsNothing, run
  <2>2. Size[run.f] + 1 \in Nat /\ Size[run.f] + 1 >= 1
    BY <1>l, <2>1 DEF MigrationAssumption
  <2>3. \E q \in MigrationRun : Located(q) /\ Becomes(r, q)
    BY <1>k, <1>e, <2>1, <2>2
  <2> QED
    BY <1>6, <1>t, <2>1, <2>3, Stored DEF ListsNothing
<1>4. CASE FolderFails(r)
  <2> DEFINE p == [run EXCEPT !.pc = "folder", !.f = @ + 1]
             q == [p EXCEPT !.map[run.f] = "failed"]
  <2>1. p \in MigrationRun /\ p.pc = "folder" /\ run.f \in MFolders
    <3>1. run.f \in MFolders
      BY <1>4, <1>l DEF FolderFails, run
    <3>2. p \in MigrationRun
      BY <1>t, <3>1, RunShapes
    <3>3. p.pc = "folder"
      BY <1>t DEF MigrationRun
    <3> QED
      BY <3>1, <3>2, <3>3
  <2>2. q \in MigrationRun /\ q.pc = p.pc
    <3> HIDE DEF p
    <3> QED
      BY <1>s, <2>1, MapPut
  <2>3. Becomes(r, q)
    BY <1>4, <1>t DEF FolderFails, run
  <2>4. Located(q)
    BY <2>1, <2>2 DEF Located, Within
  <2> QED
    BY <1>4, <1>t, <2>2, <2>3, <2>4, Stored, FaultyType DEF FolderFails
<1>5. CASE Dies(r)
  <2>1. [run EXCEPT !.pc = "dead"] \in MigrationRun /\ Located([run EXCEPT !.pc = "dead"])
    BY <1>t, RunShapes
  <2>2. Becomes(r, [run EXCEPT !.pc = "dead"])
    BY <1>5 DEF Dies, run
  <2> QED
    BY <1>5, <1>t, <2>1, <2>2, Stored, FaultyType DEF Dies
<1> QED
  BY <1>1, <1>2, <1>3, <1>4, <1>5, <1>6

LEMMA TakenType ==
    ASSUME MigrationAssumption, TypeInv, NEW r \in RunIds,
           runs[r].pc \in Within, runs[r].i <= Size[runs[r].f], Taken(r, runs[r])
    PROVE  \E q \in MigrationRun : Located(q) /\ Becomes(r, q)
<1> DEFINE run == runs[r]
<1>t. run \in MigrationRun /\ Located(run)
  BY DEF TypeInv, TypeOK
<1>1. CASE Id[InHand(r)] \in run.ids
  <2>1. /\ [run EXCEPT !.pc = "message", !.i = @ + 1] \in MigrationRun
        /\ Located([run EXCEPT !.pc = "message", !.i = @ + 1])
    BY <1>t, RunShapes
  <2> QED
    BY <1>1, <2>1 DEF Taken
<1>2. CASE Id[InHand(r)] \notin run.ids
  <2>1. run.f \in MFolders /\ run.i >= 1
    BY <1>t DEF Located
  <2>2. [run EXCEPT !.pc = "send"] \in MigrationRun /\ Located([run EXCEPT !.pc = "send"])
    BY <1>t, <2>1, RunShapes
  <2> QED
    BY <1>2, <2>2 DEF Taken
<1> QED
  BY <1>1, <1>2

LEMMA MessageType ==
    ASSUME MigrationAssumption, TypeInv, NEW r \in RunIds,
           MessageHead(r) \/ HeldCancelled(r) \/ FolderCloses(r)
    PROVE  TypeInv'
<1> DEFINE run == runs[r]
<1>t. /\ run \in MigrationRun /\ Located(run) /\ file \in Files
      /\ copies \in [Msgs -> Nat] /\ failed \subseteq Msgs /\ unlisted \subseteq Msgs
      /\ doubt \subseteq Msgs /\ faults \in 0 .. MaxFaults
  BY DEF TypeInv, TypeOK, Files
<1>i. run.i \in Nat /\ (run.f \in MFolders => Size[run.f] \in Nat)
  BY <1>t DEF MigrationRun, MigrationAssumption
<1>1. CASE MessageHead(r)
  <2>1. run.pc = "message" /\ run.i <= Size[run.f] /\ run.f \in MFolders /\ run.i >= 1
    BY <1>1, <1>t, <1>i DEF MessageHead, Stops, Located, Within
  <2>2. \E q \in MigrationRun : Located(q) /\ Becomes(r, q)
    <3>1. CASE run.pause
      <4>1. [run EXCEPT !.pc = "held"] \in MigrationRun /\ Located([run EXCEPT !.pc = "held"])
        BY <1>t, <2>1, RunShapes
      <4> QED
        BY <1>1, <3>1, <4>1 DEF MessageHead
    <3>2. CASE ~run.pause
      BY <1>1, <2>1, <3>2, TakenType DEF MessageHead, Within
    <3> QED
      BY <3>1, <3>2
  <2> QED
    BY <1>1, <1>t, <2>2, Stored DEF MessageHead
<1>2. CASE HeldCancelled(r)
  <2>1. run.pc = "held" /\ run.i <= Size[run.f] /\ Taken(r, runs[r])
    BY <1>2, <1>t DEF HeldCancelled, Located, Within
  <2>2. \E q \in MigrationRun : Located(q) /\ Becomes(r, q)
    BY <2>1, TakenType DEF Within
  <2> QED
    BY <1>2, <1>t, <2>2, Stored DEF HeldCancelled
<1>3. CASE FolderCloses(r)
  <2> DEFINE q == [run EXCEPT !.map[run.f] = Closed(run)]
  <2>1. run.f \in MFolders /\ Closed(run) \in Status
    BY <1>3, <1>t DEF FolderCloses, Located, Within, Closed, Status
  <2>2. q \in MigrationRun /\ q.pc = run.pc /\ q.f = run.f /\ q.i = run.i /\ q.limit = run.limit
    BY <1>t, <2>1, MapPut, FlagsKept
  <2>3. Located(q)
    BY <1>t, <2>2 DEF Located
  <2>4. IF q.limit THEN Finishes(r, q)
        ELSE /\ Becomes(r, [q EXCEPT !.pc = "folder", !.f = @ + 1])
             /\ file' = Saved("running", q.map)
    BY <1>3 DEF FolderCloses
  <2> HIDE DEF q
  <2>5. file' \in Files
    BY <2>2, <2>4, FileTyped DEF Finishes
  <2>6. \E x \in MigrationRun : Located(x) /\ Becomes(r, x)
    <3>1. CASE q.limit
      BY <2>2, <2>3, <2>4, <3>1, RunShapes DEF Finishes
    <3>2. CASE ~q.limit
      BY <2>1, <2>2, <2>3, <2>4, <3>2, RunShapes
    <3> QED
      BY <3>1, <3>2
  <2> QED
    BY <1>3, <1>t, <2>5, <2>6, Stored DEF FolderCloses
<1> QED
  BY <1>1, <1>2, <1>3

LEMMA SendType ==
    ASSUME MigrationAssumption, TypeInv, NEW r \in RunIds,
           Sends(r) \/ SendFails(r) \/ LimitHit(r)
    PROVE  TypeInv'
<1> DEFINE run == runs[r]
<1>t. /\ run \in MigrationRun /\ Located(run) /\ file \in Files
      /\ copies \in [Msgs -> Nat] /\ failed \subseteq Msgs /\ unlisted \subseteq Msgs
      /\ doubt \subseteq Msgs /\ faults \in 0 .. MaxFaults
  BY DEF TypeInv, TypeOK, Files
<1>h. /\ run.pc \in Within \ {"message"} /\ InHand(r) \in Msgs
      /\ run.f \in MFolders /\ run.i >= 1 /\ run.i <= Size[run.f]
  <2>1. run.pc \in Within \ {"message"}
    BY DEF Sends, SendFails, LimitHit, Within
  <2> QED
    BY <1>t, <2>1, InHandIs DEF Located
<1>c. Copied(r) => copies' \in [Msgs -> Nat]
  BY <1>t, <1>h DEF Copied
<1>s. \A pc \in {"retry", "send"} :
         [run EXCEPT !.pc = pc] \in MigrationRun /\ Located([run EXCEPT !.pc = pc])
  BY <1>t, <1>h, RunShapes
<1>b. AfterBad(run) \in MigrationRun /\ Located(AfterBad(run))
  BY <1>t, <1>h, RunTyped
<1>1. CASE Sends(r)
  <2> DEFINE p == AfterOk(run)
             n == p.late + LateBy(run)
  <2>1. p \in MigrationRun /\ Located(p) /\ n \in Nat
    <3>1. p \in MigrationRun /\ Located(p)
      BY <1>t, <1>h, RunTyped
    <3>2. p.late \in Nat
      <4> HIDE DEF p
      <4> QED
        BY <3>1 DEF MigrationRun
    <3> QED
      BY <3>1, <3>2 DEF LateBy
  <2>2. Becomes(r, [p EXCEPT !.late = n])
    BY <1>1 DEF Sends
  <2> HIDE DEF p, n
  <2>3. [p EXCEPT !.late = n] \in MigrationRun /\ Located([p EXCEPT !.late = n])
    <3>1. [p EXCEPT !.late = n] \in MigrationRun
      BY <2>1 DEF MigrationRun
    <3>2. /\ [p EXCEPT !.late = n].pc = p.pc /\ [p EXCEPT !.late = n].f = p.f
          /\ [p EXCEPT !.late = n].i = p.i
      BY <2>1 DEF MigrationRun
    <3> QED
      BY <2>1, <3>1, <3>2 DEF Located
  <2> QED
    BY <1>1, <1>t, <1>c, <2>2, <2>3, Stored DEF Sends
<1>2. CASE SendFails(r)
  <2>1. /\ copies' \in [Msgs -> Nat] /\ doubt' \subseteq Msgs /\ failed' \subseteq Msgs
        /\ faults' \in 0 .. MaxFaults /\ UNCHANGED <<transport, newest, file, unlisted>>
    BY <1>2, <1>t, <1>c, <1>h, FaultyType DEF SendFails
  <2>2. \E q \in MigrationRun : Located(q) /\ Becomes(r, q)
    BY <1>2, <1>s, <1>b DEF SendFails
  <2> QED
    BY <1>t, <2>1, <2>2, Stored
<1>3. CASE LimitHit(r)
  <2> DEFINE p == AfterBad(run)
  <2>1. Becomes(r, [p EXCEPT !.limit = TRUE])
    BY <1>3 DEF LimitHit
  <2>2. [p EXCEPT !.limit = TRUE] \in MigrationRun /\ Located([p EXCEPT !.limit = TRUE])
    <3> HIDE DEF p
    <3>1. [p EXCEPT !.limit = TRUE] \in MigrationRun
      BY <1>b DEF MigrationRun, p
    <3>2. /\ [p EXCEPT !.limit = TRUE].pc = p.pc /\ [p EXCEPT !.limit = TRUE].f = p.f
          /\ [p EXCEPT !.limit = TRUE].i = p.i
      BY <1>b DEF MigrationRun, p
    <3> QED
      BY <1>b, <3>1, <3>2 DEF Located, p
  <2>3. failed' \subseteq Msgs
    BY <1>3, <1>t, <1>h DEF LimitHit
  <2> QED
    BY <1>3, <1>t, <2>1, <2>2, <2>3, Stored, FaultyType DEF LimitHit
<1> QED
  BY <1>1, <1>2, <1>3

LEMMA NewRunTyped ==
    ASSUME MigrationAssumption, NEW map \in [MFolders -> Status], NEW pc \in {"folder", "off"},
           NEW token \in BOOLEAN
    PROVE  NewRun(pc, map, token) \in MigrationRun /\ Located(NewRun(pc, map, token))
<1>1. 1 \in 1 .. NFolders + 1
  BY DEF MigrationAssumption
<1> QED
  BY <1>1 DEF NewRun, MigrationRun, Located, Within

LEMMA CommandType ==
    ASSUME MigrationAssumption, TypeInv, Pause \/ Cancel
    PROVE  TypeInv'
<1> DEFINE run == runs[newest]
<1>t. /\ run \in MigrationRun /\ Located(run) /\ file \in Files /\ newest \in RunIds
      /\ copies \in [Msgs -> Nat] /\ failed \subseteq Msgs /\ unlisted \subseteq Msgs
      /\ doubt \subseteq Msgs /\ faults \in 0 .. MaxFaults
  BY DEF TypeInv, TypeOK, Files
<1>f. ASSUME NEW p \in MigrationRun, Located(p)
      PROVE  [p EXCEPT !.pause = TRUE] \in MigrationRun /\ Located([p EXCEPT !.pause = TRUE])
  <2>1. [p EXCEPT !.pause = TRUE] \in MigrationRun
    BY DEF MigrationRun
  <2>2. /\ [p EXCEPT !.pause = TRUE].pc = p.pc /\ [p EXCEPT !.pause = TRUE].f = p.f
        /\ [p EXCEPT !.pause = TRUE].i = p.i
    BY DEF MigrationRun
  <2> QED
    BY <1>f, <2>1, <2>2 DEF Located
<1>1. CASE Pause
  <2>1. [run EXCEPT !.pause = TRUE] \in MigrationRun /\ Located([run EXCEPT !.pause = TRUE])
    BY <1>f, <1>t
  <2>2. Becomes(newest, [run EXCEPT !.pause = TRUE])
    BY <1>1 DEF Pause
  <2> QED
    BY <1>1, <1>t, <2>1, <2>2, Stored DEF Pause
<1>2. CASE Cancel
  <2> DEFINE q == [run EXCEPT !.cancel = TRUE]
  <2>1. Becomes(newest, q)
    BY <1>2 DEF Cancel
  <2>2. q \in MigrationRun /\ q.pc = run.pc /\ q.f = run.f /\ q.i = run.i
    BY <1>t DEF MigrationRun
  <2>3. Located(q)
    BY <1>t, <2>2 DEF Located
  <2> HIDE DEF q
  <2> QED
    BY <1>2, <1>t, <2>1, <2>2, <2>3, Stored DEF Cancel
<1> QED
  BY <1>1, <1>2

LEMMA AgainType ==
    ASSUME MigrationAssumption, TypeInv, Resume \/ Quits
    PROVE  TypeInv'
<1>t. /\ runs \in [RunIds -> MigrationRun] /\ \A r \in RunIds : Located(runs[r])
      /\ file \in Files /\ newest \in RunIds /\ newest \in Nat /\ MaxRuns \in Nat
  BY DEF TypeInv, TypeOK, Files, RunIds, MigrationAssumption
<1>1. CASE Resume
  <2>1. newest + 1 \in RunIds /\ newest' = newest + 1
    BY <1>1, <1>t DEF Resume, RunIds
  <2>2. Remaining(file.map) \in [MFolders -> Status]
    BY <1>t DEF Remaining, Files, Status
  <2>3. PICK q \in MigrationRun : Located(q) /\ runs' = [runs EXCEPT ![newest + 1] = q]
    BY <1>1, <2>1, <2>2, NewRunTyped DEF Resume, Becomes, Tokens
  <2>4. runs' \in [RunIds -> MigrationRun] /\ \A r \in RunIds : Located(runs'[r])
    BY <1>t, <2>1, <2>3
  <2>5. (\A r \in RunIds : Located(runs[r]))'
    BY <2>4 DEF Located
  <2> QED
    BY <1>1, <2>1, <2>4, <2>5 DEF Resume, TypeInv, TypeOK
<1>2. CASE Quits
  <2>1. \A r \in RunIds : /\ [runs[r] EXCEPT !.pc = "quit"] \in MigrationRun
                          /\ Located([runs[r] EXCEPT !.pc = "quit"])
    BY <1>t, RunShapes
  <2>2. runs' \in [RunIds -> MigrationRun] /\ \A r \in RunIds : Located(runs'[r])
    BY <1>2, <1>t, <2>1 DEF Quits
  <2>3. (\A r \in RunIds : Located(runs[r]))'
    BY <2>2 DEF Located
  <2> QED
    BY <1>2, <2>2, <2>3 DEF Quits, TypeInv, TypeOK
<1> QED
  BY <1>1, <1>2

LEMMA NextType ==
    ASSUME MigrationAssumption, TypeInv, [Next]_migration
    PROVE  TypeInv'
<1>1. CASE UNCHANGED migration
  BY <1>1 DEF migration, TypeInv, TypeOK, Located
<1>2. ASSUME NEW r \in RunIds, Step(r) PROVE TypeInv'
  BY <1>2, FolderHeadType, ListType, MessageType, SendType DEF Step
<1> QED
  BY <1>1, <1>2, CommandType, AgainType DEF Next, System

(* Every reachable state is well typed: no run indexes a folder or a       *)
(* message that is not there.  (run_migration, migrate_folder)             *)
THEOREM Typing == ASSUME MigrationAssumption PROVE Spec => []TypeOK
<1>1. Init => TypeInv
  BY InitType
<1>2. TypeInv /\ [Next]_migration => TypeInv'
  BY NextType
<1>3. TypeInv => TypeOK
  BY DEF TypeInv
<1> QED
  BY <1>1, <1>2, <1>3, PTL DEF Spec

-----------------------------------------------------------------------------
(* What each step makes of its run, as far as the theorems look at it.     *)

Same(r) ==
    /\ runs'[r].ids = runs[r].ids /\ runs'[r].late = runs[r].late
    /\ runs'[r].cancel = runs[r].cancel /\ runs'[r].pause = runs[r].pause

\* The run goes on at the place it had, at the next message, or has none.
Stands(r) == runs'[r].f = runs[r].f /\ runs'[r].i = runs[r].i
GoesOn(r) == runs'[r].f = runs[r].f /\ runs'[r].i = runs[r].i + 1

\* Nothing new is called completed.
NoneCompleted(r) ==
    \A f \in MFolders : runs'[r].map[f] = "completed" => runs[r].map[f] = "completed"

\* The file is as it was, empty, or what the run has.
Keeps(r) == file' = file \/ file' = Nothing \/ file'.map = runs'[r].map

LEMMA Becoming ==
    ASSUME TypeInv, NEW r \in RunIds, NEW q, Becomes(r, q)
    PROVE  runs'[r] = q /\ \A x \in RunIds \ {r} : runs'[x] = runs[x]
BY DEF TypeInv, TypeOK, Becomes

LEMMA FolderHeadEffect ==
    ASSUME MigrationAssumption, TypeInv, NEW r \in RunIds, FolderHead(r)
    PROVE  /\ \A x \in RunIds \ {r} : runs'[x] = runs[x]
           /\ Same(r) /\ NoneCompleted(r) /\ Keeps(r)
           /\ runs[r].pc = "folder" /\ runs'[r].pc \in {"done", "folder", "pausedAt", "list"}
           /\ runs'[r].pc = "pausedAt" => runs[r].pause /\ ~runs[r].cancel
<1> DEFINE run == runs[r]
<1>t. run \in MigrationRun
  BY DEF TypeInv, TypeOK
<1>f. run.pc = "folder" /\ (run.f <= NFolders => run.f \in MFolders)
  BY <1>t DEF FolderHead, MigrationRun, MFolders, MigrationAssumption
<1>e. ASSUME NEW q \in MigrationRun
      PROVE  AtTheEnd(q) = Nothing \/ AtTheEnd(q).map = q.map
  BY DEF AtTheEnd, Saved
<1>s. "cancelled" \in Status /\ "in_progress" \in Status
  BY DEF Status
<1> HIDE DEF run
<1>1. CASE run.f > NFolders /\ Finishes(r, run)
  <2>1. /\ runs'[r] = [run EXCEPT !.pc = "done"] /\ \A x \in RunIds \ {r} : runs'[x] = runs[x]
    BY <1>1, Becoming DEF Finishes
  <2>2. runs'[r].pc = "done" /\ runs'[r].map = run.map /\ runs'[r].ids = run.ids
        /\ runs'[r].late = run.late
    BY <1>t, <2>1 DEF MigrationRun
  <2>3. runs'[r].cancel = run.cancel /\ runs'[r].pause = run.pause
    BY <1>t, <2>1 DEF MigrationRun
  <2> QED
    BY <1>1, <1>t, <1>e, <1>f, <2>1, <2>2, <2>3 DEF Same, NoneCompleted, Keeps, Finishes, run
<1>2. CASE run.f <= NFolders /\ Becomes(r, [run EXCEPT !.f = @ + 1]) /\ file' = file
  <2>1. /\ runs'[r] = [run EXCEPT !.f = @ + 1] /\ \A x \in RunIds \ {r} : runs'[x] = runs[x]
    BY <1>2, Becoming
  <2>2. runs'[r].pc = "folder" /\ runs'[r].map = run.map /\ runs'[r].ids = run.ids
        /\ runs'[r].late = run.late
    BY <1>t, <1>f, <2>1 DEF MigrationRun
  <2>3. runs'[r].cancel = run.cancel /\ runs'[r].pause = run.pause
    BY <1>t, <2>1 DEF MigrationRun
  <2> QED
    BY <1>2, <1>f, <2>1, <2>2, <2>3 DEF Same, NoneCompleted, Keeps, run
<1>3. CASE run.f <= NFolders /\ Finishes(r, [run EXCEPT !.map[run.f] = "cancelled"])
  <2> DEFINE q == [run EXCEPT !.map[run.f] = "cancelled"]
  <2>1. /\ q \in MigrationRun /\ q.pc = run.pc /\ q.ids = run.ids /\ q.late = run.late
        /\ q.map = [run.map EXCEPT ![run.f] = "cancelled"]
    BY <1>3, <1>t, <1>f, <1>s, MapPut
  <2>2. q.cancel = run.cancel /\ q.pause = run.pause
    BY <1>t, FlagsKept
  <2>3. Finishes(r, q)
    BY <1>3
  <2> HIDE DEF q
  <2>4. /\ runs'[r] = [q EXCEPT !.pc = "done"] /\ \A x \in RunIds \ {r} : runs'[x] = runs[x]
    BY <2>3, Becoming DEF Finishes
  <2>5. runs'[r].pc = "done" /\ runs'[r].map = q.map /\ runs'[r].ids = q.ids
        /\ runs'[r].late = q.late
    BY <2>1, <2>4 DEF MigrationRun
  <2>6. runs'[r].cancel = q.cancel /\ runs'[r].pause = q.pause
    BY <2>1, <2>4 DEF MigrationRun
  <2>7. \A f \in MFolders : q.map[f] = "completed" => run.map[f] = "completed"
    BY <1>t, <2>1 DEF MigrationRun
  <2> QED
    BY <1>f, <1>e, <2>1, <2>2, <2>3, <2>4, <2>5, <2>6, <2>7
       DEF Same, NoneCompleted, Keeps, Finishes, run
<1>4. CASE /\ run.f <= NFolders /\ Becomes(r, [run EXCEPT !.pc = "pausedAt"])
           /\ file' = Saved("paused", run.map) /\ run.pause /\ ~run.cancel
  <2>1. /\ runs'[r] = [run EXCEPT !.pc = "pausedAt"] /\ \A x \in RunIds \ {r} : runs'[x] = runs[x]
    BY <1>4, Becoming
  <2>2. runs'[r].pc = "pausedAt" /\ runs'[r].map = run.map /\ runs'[r].ids = run.ids
        /\ runs'[r].late = run.late
    BY <1>t, <2>1 DEF MigrationRun
  <2>3. runs'[r].cancel = run.cancel /\ runs'[r].pause = run.pause
    BY <1>t, <2>1 DEF MigrationRun
  <2> QED
    BY <1>4, <1>f, <2>1, <2>2, <2>3 DEF Same, NoneCompleted, Keeps, Saved, run
<1>5. CASE /\ run.f <= NFolders
           /\ Becomes(r, [run EXCEPT !.pc = "list", !.map[run.f] = "in_progress"]) /\ file' = file
  <2> DEFINE p == [run EXCEPT !.pc = "list"]
             q == [p EXCEPT !.map[p.f] = "in_progress"]
  <2>1. /\ p \in MigrationRun /\ p.f = run.f /\ p.pc = "list" /\ p.map = run.map
        /\ p.ids = run.ids /\ p.late = run.late
    BY <1>t DEF MigrationRun
  <2>2. p.cancel = run.cancel /\ p.pause = run.pause
    BY <1>t DEF MigrationRun
  <2>3. /\ q.pc = p.pc /\ q.ids = p.ids /\ q.late = p.late
        /\ q.map = [p.map EXCEPT ![p.f] = "in_progress"]
        /\ q.cancel = p.cancel /\ q.pause = p.pause
    <3>1. p.f \in MFolders
      BY <1>5, <1>f, <2>1
    <3> HIDE DEF p
    <3> QED
      BY <1>s, <2>1, <3>1, MapPut, FlagsKept
  <2>4. Becomes(r, q)
    BY <1>5, <1>t, <2>1
  <2> HIDE DEF q, p
  <2>5. runs'[r] = q /\ \A x \in RunIds \ {r} : runs'[x] = runs[x]
    BY <2>4, Becoming
  <2>6. \A f \in MFolders : q.map[f] = "completed" => run.map[f] = "completed"
    BY <1>t, <2>1, <2>3 DEF MigrationRun
  <2> QED
    BY <1>5, <1>f, <2>1, <2>2, <2>3, <2>5, <2>6 DEF Same, NoneCompleted, Keeps, run
<1> QED
  BY <1>1, <1>2, <1>3, <1>4, <1>5 DEF FolderHead, run

Alone(r) == \A x \in RunIds \ {r} : runs'[x] = runs[x]
Unmoved == UNCHANGED <<copies, failed, unlisted>>

LEMMA EntersEffect ==
    ASSUME TypeInv, NEW r \in RunIds, NEW ids, NEW i, Enters(r, ids, i)
    PROVE  /\ Alone(r) /\ NoneCompleted(r)
           /\ runs'[r].late = runs[r].late /\ runs'[r].cancel = runs[r].cancel
           /\ runs'[r].pause = runs[r].pause
           /\ runs'[r].pc = "message" /\ runs'[r].i = i /\ runs'[r].f = runs[r].f
           /\ runs'[r].ids = ids
<1> DEFINE run == runs[r]
<1>t. run \in MigrationRun
  BY DEF TypeInv, TypeOK
<1>1. /\ runs'[r] = [run EXCEPT !.pc = "message", !.i = i, !.ok = 0, !.bad = 0, !.ids = ids]
      /\ Alone(r)
  BY Becoming DEF Alone, Enters
<1> HIDE DEF run
<1>2. /\ runs'[r].pc = "message" /\ runs'[r].i = i /\ runs'[r].f = run.f
      /\ runs'[r].ids = ids /\ runs'[r].late = run.late /\ runs'[r].map = run.map
  BY <1>t, <1>1 DEF MigrationRun
<1>3. runs'[r].cancel = run.cancel /\ runs'[r].pause = run.pause
  BY <1>t, <1>1 DEF MigrationRun
<1> QED
  BY <1>1, <1>2, <1>3 DEF NoneCompleted, run

(* A Graph source without its token: an empty folder.                      *)
LEMMA NothingEffect ==
    ASSUME MigrationAssumption, TypeInv, NEW r \in RunIds, ListsNothing(r)
    PROVE  /\ Alone(r) /\ NoneCompleted(r)
           /\ UNCHANGED <<newest, file, copies, failed, doubt>>
           /\ unlisted' = unlisted \cup {m \in Msgs : m[1] = runs[r].f}
           /\ runs'[r].late = runs[r].late /\ runs'[r].cancel = runs[r].cancel
           /\ runs[r].pc = "list" /\ runs'[r].pc = "message" /\ runs'[r].ids = {}
           /\ runs'[r].f = runs[r].f /\ runs'[r].i = Size[runs[r].f] + 1
<1>1. /\ Enters(r, {}, Size[runs[r].f] + 1) /\ runs[r].pc = "list"
      /\ UNCHANGED <<newest, file, copies, failed, doubt>>
      /\ unlisted' = unlisted \cup {m \in Msgs : m[1] = runs[r].f}
  BY DEF ListsNothing
<1> QED
  BY <1>1, EntersEffect

LEMMA ListEffect ==
    ASSUME MigrationAssumption, TypeInv, NEW r \in RunIds,
           \/ PausedFolderCancelled(r) \/ Lists(r) \/ ListsBlind(r) \/ FolderFails(r)
           \/ Dies(r)
    PROVE  /\ Alone(r) /\ NoneCompleted(r) /\ file' = file /\ Unmoved
           /\ doubt \subseteq doubt'
           /\ runs'[r].late = runs[r].late /\ runs'[r].cancel = runs[r].cancel
           /\ runs'[r].pause = runs[r].pause
           /\ \/ /\ runs'[r].pc \in {"list", "folder", "dead"} /\ runs'[r].ids = runs[r].ids
                 /\ runs[r].pc = "pausedAt" => runs[r].cancel
              \/ /\ runs[r].pc = "list" /\ runs'[r].pc = "message" /\ runs'[r].i = 1
                 /\ runs'[r].f = runs[r].f /\ runs'[r].ids \subseteq KnownThere(runs[r].f)
                 /\ doubt' = doubt \cup Overlooked(runs[r].f, runs'[r].ids)
<1> DEFINE run == runs[r]
<1>t. run \in MigrationRun /\ (run.pc \in {"list", "pausedAt"} => run.f \in MFolders)
  BY DEF TypeInv, TypeOK, Located
<1>s. "failed" \in Status /\ "in_progress" \in Status
  BY DEF Status
<1> HIDE DEF run
<1>1. CASE PausedFolderCancelled(r)
  <2> DEFINE p == [run EXCEPT !.pc = "list"]
             q == [p EXCEPT !.map[p.f] = "in_progress"]
  <2>1. /\ p \in MigrationRun /\ p.f = run.f /\ p.pc = "list" /\ p.map = run.map
        /\ p.ids = run.ids /\ p.late = run.late
    BY <1>t DEF MigrationRun
  <2>2. p.cancel = run.cancel /\ p.pause = run.pause
    BY <1>t DEF MigrationRun
  <2>3. /\ q.pc = p.pc /\ q.ids = p.ids /\ q.late = p.late
        /\ q.map = [p.map EXCEPT ![p.f] = "in_progress"]
        /\ q.cancel = p.cancel /\ q.pause = p.pause
    <3>1. p.f \in MFolders
      BY <1>1, <1>t, <2>1 DEF PausedFolderCancelled, run
    <3> HIDE DEF p
    <3> QED
      BY <1>s, <2>1, <3>1, MapPut, FlagsKept
  <2>4. Becomes(r, q)
    BY <1>1, <1>t, <2>1 DEF PausedFolderCancelled, run
  <2> HIDE DEF q, p
  <2>5. runs'[r] = q /\ Alone(r)
    BY <2>4, Becoming DEF Alone
  <2>6. \A f \in MFolders : q.map[f] = "completed" => run.map[f] = "completed"
    BY <1>t, <2>1, <2>3 DEF MigrationRun
  <2>7. run.cancel /\ UNCHANGED <<file, copies, failed, unlisted, doubt>>
    BY <1>1 DEF PausedFolderCancelled, run
  <2> QED
    BY <2>1, <2>2, <2>3, <2>5, <2>6, <2>7 DEF NoneCompleted, Unmoved, run
<1>3. CASE Lists(r)
  <2>1. /\ Enters(r, KnownThere(run.f), 1) /\ run.pc = "list"
        /\ UNCHANGED <<file, copies, failed, unlisted, doubt>>
    BY <1>3 DEF Lists, run
  <2>2. Overlooked(run.f, KnownThere(run.f)) = {}
    BY DEF Overlooked, KnownThere
  <2> QED
    BY <2>1, <2>2, EntersEffect DEF Unmoved, run
<1>4. CASE ListsBlind(r)
  <2>1. PICK ids \in SUBSET KnownThere(run.f) :
          /\ Enters(r, ids, 1) /\ run.pc = "list" /\ UNCHANGED <<file, copies, failed, unlisted>>
          /\ doubt' = doubt \cup Overlooked(run.f, ids)
    BY <1>4 DEF ListsBlind, run
  <2> QED
    BY <2>1, EntersEffect DEF Unmoved, run
<1>5. CASE FolderFails(r)
  <2> DEFINE p == [run EXCEPT !.pc = "folder", !.f = @ + 1]
             q == [p EXCEPT !.map[run.f] = "failed"]
  <2>0. run.f \in MFolders
    BY <1>5, <1>t DEF FolderFails, run
  <2>1. p \in MigrationRun
    BY <1>t, <2>0, RunShapes DEF run, TypeInv
  <2>2. p.pc = "folder" /\ p.map = run.map /\ p.ids = run.ids /\ p.late = run.late
    BY <1>t DEF MigrationRun
  <2>3. p.cancel = run.cancel /\ p.pause = run.pause
    BY <1>t DEF MigrationRun
  <2>4. /\ q.pc = p.pc /\ q.ids = p.ids /\ q.late = p.late
        /\ q.map = [p.map EXCEPT ![run.f] = "failed"]
        /\ q.cancel = p.cancel /\ q.pause = p.pause
    <3> HIDE DEF p
    <3> QED
      BY <1>s, <2>0, <2>1, MapPut, FlagsKept
  <2>5. Becomes(r, q)
    BY <1>5, <1>t DEF FolderFails, run
  <2> HIDE DEF q, p
  <2>6. runs'[r] = q /\ Alone(r)
    BY <2>5, Becoming DEF Alone
  <2>7. \A f \in MFolders : q.map[f] = "completed" => run.map[f] = "completed"
    BY <1>t, <2>2, <2>4 DEF MigrationRun
  <2>8. run.pc = "list" /\ UNCHANGED <<file, copies, failed, unlisted, doubt>>
    BY <1>5 DEF FolderFails, run
  <2> QED
    BY <2>2, <2>3, <2>4, <2>6, <2>7, <2>8 DEF NoneCompleted, Unmoved, run
<1>6. CASE Dies(r)
  <2>1. /\ runs'[r] = [run EXCEPT !.pc = "dead"] /\ Alone(r) /\ run.pc # "pausedAt"
        /\ UNCHANGED <<file, copies, failed, unlisted, doubt>>
    BY <1>6, Becoming DEF Dies, run, Alone
  <2>2. runs'[r].pc = "dead" /\ runs'[r].map = run.map /\ runs'[r].ids = run.ids
        /\ runs'[r].late = run.late
    BY <1>t, <2>1 DEF MigrationRun
  <2>3. runs'[r].cancel = run.cancel /\ runs'[r].pause = run.pause
    BY <1>t, <2>1 DEF MigrationRun
  <2> QED
    BY <2>1, <2>2, <2>3 DEF NoneCompleted, Unmoved, run
<1> QED
  BY <1>1, <1>3, <1>4, <1>5, <1>6

LEMMA TakenEffect ==
    ASSUME TypeInv, NEW r \in RunIds, Taken(r, runs[r])
    PROVE  /\ Alone(r) /\ Same(r) /\ runs'[r].map = runs[r].map
           /\ \/ Id[InHand(r)] \in runs[r].ids /\ runs'[r].pc = "message" /\ GoesOn(r)
              \/ Id[InHand(r)] \notin runs[r].ids /\ runs'[r].pc = "send" /\ Stands(r)
<1> DEFINE run == runs[r]
<1>t. run \in MigrationRun
  BY DEF TypeInv, TypeOK
<1>1. CASE Id[InHand(r)] \in run.ids
  <2>1. runs'[r] = [run EXCEPT !.pc = "message", !.i = @ + 1] /\ Alone(r)
    BY <1>1, Becoming DEF Taken, Alone
  <2> HIDE DEF run
  <2>2. /\ runs'[r].pc = "message" /\ runs'[r].map = run.map /\ runs'[r].ids = run.ids
        /\ runs'[r].late = run.late /\ runs'[r].f = run.f /\ runs'[r].i = run.i + 1
    BY <1>t, <2>1 DEF MigrationRun
  <2>3. runs'[r].cancel = run.cancel /\ runs'[r].pause = run.pause
    BY <1>t, <2>1 DEF MigrationRun
  <2> QED
    BY <1>1, <2>1, <2>2, <2>3 DEF Same, GoesOn, run
<1>2. CASE Id[InHand(r)] \notin run.ids
  <2>1. runs'[r] = [run EXCEPT !.pc = "send"] /\ Alone(r)
    BY <1>2, Becoming DEF Taken, Alone
  <2> HIDE DEF run
  <2>2. /\ runs'[r].pc = "send" /\ runs'[r].map = run.map /\ runs'[r].ids = run.ids
        /\ runs'[r].late = run.late /\ runs'[r].f = run.f /\ runs'[r].i = run.i
    BY <1>t, <2>1 DEF MigrationRun
  <2>3. runs'[r].cancel = run.cancel /\ runs'[r].pause = run.pause
    BY <1>t, <2>1 DEF MigrationRun
  <2> QED
    BY <1>2, <2>1, <2>2, <2>3 DEF Same, Stands, run
<1> QED
  BY <1>1, <1>2

LEMMA HeadEffect ==
    ASSUME MigrationAssumption, TypeInv, NEW r \in RunIds, MessageHead(r) \/ HeldCancelled(r)
    PROVE  /\ Alone(r) /\ Same(r) /\ runs'[r].map = runs[r].map
           /\ UNCHANGED <<file, copies, failed, unlisted, doubt>>
           /\ runs[r].pc \in {"message", "held"}
           /\ runs[r].pc = "message" => ~runs[r].cancel
           /\ runs[r].pc = "held" => runs[r].cancel
           /\ \/ Id[InHand(r)] \in runs[r].ids /\ runs'[r].pc = "message" /\ GoesOn(r)
              \/ Id[InHand(r)] \notin runs[r].ids /\ runs'[r].pc = "send" /\ Stands(r)
              \/ runs[r].pc = "message" /\ runs'[r].pc = "held" /\ Stands(r) /\ runs[r].pause
<1> DEFINE run == runs[r]
<1>t. run \in MigrationRun
  BY DEF TypeInv, TypeOK
<1>1. CASE Taken(r, run)
  BY <1>1, TakenEffect DEF MessageHead, HeldCancelled, Stops
<1>2. CASE run.pause /\ Becomes(r, [run EXCEPT !.pc = "held"]) /\ MessageHead(r)
  <2>1. runs'[r] = [run EXCEPT !.pc = "held"] /\ Alone(r)
    BY <1>2, Becoming DEF Alone
  <2>2. /\ run.pc = "message" /\ ~run.cancel /\ UNCHANGED <<file, copies, failed, unlisted, doubt>>
    BY <1>2 DEF MessageHead, Stops
  <2> HIDE DEF run
  <2>3. /\ runs'[r].pc = "held" /\ runs'[r].map = run.map /\ runs'[r].ids = run.ids
        /\ runs'[r].late = run.late /\ runs'[r].f = run.f /\ runs'[r].i = run.i
    BY <1>t, <2>1 DEF MigrationRun
  <2>4. runs'[r].cancel = run.cancel /\ runs'[r].pause = run.pause
    BY <1>t, <2>1 DEF MigrationRun
  <2> QED
    BY <1>2, <2>1, <2>2, <2>3, <2>4 DEF Same, Stands, run
<1> QED
  BY <1>1, <1>2 DEF MessageHead, HeldCancelled

LEMMA ClosesEffect ==
    ASSUME MigrationAssumption, TypeInv, NEW r \in RunIds, FolderCloses(r)
    PROVE  /\ Alone(r) /\ Same(r) /\ Keeps(r) /\ UNCHANGED <<copies, failed, unlisted, doubt>>
           /\ runs[r].pc = "message" /\ runs'[r].pc \in {"done", "folder"}
           /\ runs'[r].map = [runs[r].map EXCEPT ![runs[r].f] = Closed(runs[r])]
           /\ Stops(runs[r])
<1> DEFINE run == runs[r]
           q == [run EXCEPT !.map[run.f] = Closed(run)]
<1>t. run \in MigrationRun /\ Closed(run) \in Status
  BY DEF TypeInv, TypeOK, Closed, Status
<1>f. run.f \in MFolders
  BY DEF FolderCloses, TypeInv, Located, Within
<1>1. /\ q \in MigrationRun /\ q.ids = run.ids /\ q.late = run.late
      /\ q.map = [run.map EXCEPT ![run.f] = Closed(run)]
      /\ q.cancel = run.cancel /\ q.pause = run.pause
  BY <1>t, <1>f, MapPut, FlagsKept
<1>2. /\ run.pc = "message" /\ Stops(run) /\ UNCHANGED <<copies, failed, unlisted, doubt>>
      /\ IF q.limit THEN Finishes(r, q)
         ELSE /\ Becomes(r, [q EXCEPT !.pc = "folder", !.f = @ + 1])
              /\ file' = Saved("running", q.map)
  BY DEF FolderCloses
<1> HIDE DEF q, run
<1>e. AtTheEnd(q) = Nothing \/ AtTheEnd(q).map = q.map
  BY DEF AtTheEnd, Saved
<1>3. CASE q.limit
  <2>1. runs'[r] = [q EXCEPT !.pc = "done"] /\ Alone(r) /\ file' = AtTheEnd(q)
    BY <1>2, <1>3, Becoming DEF Finishes, Alone
  <2>2. runs'[r].pc = "done" /\ runs'[r].map = q.map /\ runs'[r].ids = q.ids
        /\ runs'[r].late = q.late
    BY <1>1, <2>1 DEF MigrationRun
  <2>3. runs'[r].cancel = q.cancel /\ runs'[r].pause = q.pause
    BY <1>1, <2>1 DEF MigrationRun
  <2> QED
    BY <1>1, <1>2, <1>e, <2>1, <2>2, <2>3 DEF Same, Keeps, run
<1>4. CASE ~q.limit
  <2>1. /\ runs'[r] = [q EXCEPT !.pc = "folder", !.f = @ + 1] /\ Alone(r)
        /\ file' = Saved("running", q.map)
    BY <1>2, <1>4, Becoming DEF Alone
  <2>2. runs'[r].pc = "folder" /\ runs'[r].map = q.map /\ runs'[r].ids = q.ids
        /\ runs'[r].late = q.late
    BY <1>1, <2>1 DEF MigrationRun
  <2>3. runs'[r].cancel = q.cancel /\ runs'[r].pause = q.pause
    BY <1>1, <2>1 DEF MigrationRun
  <2> QED
    BY <1>1, <1>2, <2>1, <2>2, <2>3 DEF Same, Keeps, Saved, run
<1> QED
  BY <1>3, <1>4

LEMMA AfterShapes ==
    ASSUME NEW run \in MigrationRun
    PROVE  /\ AfterOk(run).pc = "message" /\ AfterOk(run).f = run.f
           /\ AfterOk(run).i = run.i + 1 /\ AfterOk(run).map = run.map
           /\ AfterOk(run).ids = run.ids /\ AfterOk(run).late = run.late
           /\ AfterOk(run).cancel = run.cancel /\ AfterOk(run).pause = run.pause
           /\ AfterBad(run).pc = "message" /\ AfterBad(run).f = run.f
           /\ AfterBad(run).i = run.i + 1 /\ AfterBad(run).map = run.map
           /\ AfterBad(run).ids = run.ids /\ AfterBad(run).late = run.late
           /\ AfterBad(run).cancel = run.cancel /\ AfterBad(run).pause = run.pause
<1>1. AfterOk(run).cancel = run.cancel
  BY DEF AfterOk, MigrationRun
<1>2. AfterOk(run).pause = run.pause
  BY DEF AfterOk, MigrationRun
<1>3. AfterBad(run).cancel = run.cancel
  BY DEF AfterBad, MigrationRun
<1>4. AfterBad(run).pause = run.pause
  BY DEF AfterBad, MigrationRun
<1>5. /\ AfterOk(run).pc = "message" /\ AfterOk(run).f = run.f
      /\ AfterOk(run).i = run.i + 1 /\ AfterOk(run).map = run.map
      /\ AfterOk(run).ids = run.ids /\ AfterOk(run).late = run.late
  BY DEF AfterOk, MigrationRun
<1>6. /\ AfterBad(run).pc = "message" /\ AfterBad(run).f = run.f
      /\ AfterBad(run).i = run.i + 1 /\ AfterBad(run).map = run.map
      /\ AfterBad(run).ids = run.ids /\ AfterBad(run).late = run.late
  BY DEF AfterBad, MigrationRun
<1> QED
  BY <1>1, <1>2, <1>3, <1>4, <1>5, <1>6

LEMMA SendEffect ==
    ASSUME MigrationAssumption, TypeInv, NEW r \in RunIds,
           Sends(r) \/ SendFails(r) \/ LimitHit(r)
    PROVE  /\ Alone(r) /\ runs'[r].map = runs[r].map /\ runs'[r].ids = runs[r].ids
           /\ runs'[r].cancel = runs[r].cancel /\ runs'[r].pause = runs[r].pause
           /\ runs[r].pc \in {"send", "retry"}
           /\ UNCHANGED <<file, unlisted>>
           /\ \/ /\ Sends(r) /\ Copied(r) /\ failed' = failed /\ doubt' = doubt
                 /\ runs'[r].pc = "message" /\ GoesOn(r)
                 /\ runs'[r].late = runs[r].late + LateBy(runs[r])
              \/ /\ runs'[r].late = runs[r].late
                 /\ \/ copies' = copies /\ doubt' = doubt
                    \/ Copied(r) /\ doubt' = doubt \cup {InHand(r)}
                 /\ \/ /\ runs'[r].pc \in {"send", "retry"} /\ Stands(r)
                       /\ failed' = failed
                    \/ /\ runs'[r].pc = "message" /\ GoesOn(r)
                       /\ failed' = failed \cup {InHand(r)}
<1> DEFINE run == runs[r]
<1>t. run \in MigrationRun
  BY DEF TypeInv, TypeOK
<1>a. AfterOk(run) \in MigrationRun /\ AfterBad(run) \in MigrationRun
  BY <1>t, RunTyped DEF TypeInv, Sends, SendFails, LimitHit, Within
<1>p. ASSUME NEW pc, Becomes(r, [run EXCEPT !.pc = pc])
      PROVE  /\ Alone(r) /\ runs'[r].map = run.map /\ runs'[r].ids = run.ids
             /\ runs'[r].cancel = run.cancel /\ runs'[r].pause = run.pause
             /\ runs'[r].pc = pc /\ Stands(r) /\ runs'[r].late = run.late
  <2>1. runs'[r] = [run EXCEPT !.pc = pc] /\ Alone(r)
    BY <1>p, Becoming DEF Alone
  <2> HIDE DEF run
  <2>2. /\ runs'[r].pc = pc /\ runs'[r].map = run.map /\ runs'[r].ids = run.ids
        /\ runs'[r].late = run.late /\ runs'[r].f = run.f /\ runs'[r].i = run.i
    BY <1>t, <2>1 DEF MigrationRun
  <2>3. runs'[r].cancel = run.cancel /\ runs'[r].pause = run.pause
    BY <1>t, <2>1 DEF MigrationRun
  <2> QED
    BY <2>1, <2>2, <2>3 DEF Stands, run
<1>1. CASE Sends(r)
  <2> DEFINE p == AfterOk(run)
             n == p.late + LateBy(run)
  <2>1. /\ Becomes(r, [p EXCEPT !.late = n]) /\ run.pc \in {"send", "retry"} /\ Copied(r)
        /\ UNCHANGED <<file, failed, unlisted, doubt>>
    BY <1>1 DEF Sends
  <2>2. runs'[r] = [p EXCEPT !.late = n] /\ Alone(r)
    BY <2>1, Becoming DEF Alone
  <2>3. /\ p.pc = "message" /\ p.f = run.f /\ p.i = run.i + 1 /\ p.map = run.map
        /\ p.ids = run.ids /\ p.late = run.late /\ p.cancel = run.cancel /\ p.pause = run.pause
    BY <1>t, AfterShapes
  <2>n. n = run.late + LateBy(run)
    BY <2>3
  <2> HIDE DEF p, n
  <2>4. /\ runs'[r].pc = p.pc /\ runs'[r].f = p.f /\ runs'[r].i = p.i /\ runs'[r].map = p.map
        /\ runs'[r].ids = p.ids /\ runs'[r].late = n
    BY <1>a, <2>2 DEF MigrationRun, p
  <2>5. runs'[r].cancel = p.cancel /\ runs'[r].pause = p.pause
    BY <1>a, <2>2 DEF MigrationRun, p
  <2> QED
    BY <1>1, <2>1, <2>2, <2>3, <2>4, <2>5, <2>n DEF GoesOn
<1>2. CASE SendFails(r)
  <2>1. /\ run.pc \in {"send", "retry"} /\ UNCHANGED <<file, unlisted>>
        /\ \/ copies' = copies /\ doubt' = doubt
           \/ Copied(r) /\ doubt' = doubt \cup {InHand(r)}
        /\ \/ Becomes(r, [run EXCEPT !.pc = "retry"]) /\ failed' = failed
           \/ Becomes(r, AfterBad(run)) /\ failed' = failed \cup {InHand(r)}
    BY <1>2 DEF SendFails
  <2>2. CASE Becomes(r, [run EXCEPT !.pc = "retry"]) /\ failed' = failed
    BY <1>p, <2>1, <2>2
  <2>3. CASE Becomes(r, AfterBad(run)) /\ failed' = failed \cup {InHand(r)}
    BY <1>t, <2>1, <2>3, Becoming, AfterShapes DEF Alone, GoesOn
  <2> QED
    BY <2>1, <2>2, <2>3
<1>3. CASE LimitHit(r)
  <2> DEFINE p == AfterBad(run)
  <2>1. /\ Becomes(r, [p EXCEPT !.limit = TRUE]) /\ run.pc \in {"send", "retry"}
        /\ UNCHANGED <<file, copies, unlisted, doubt>> /\ failed' = failed \cup {InHand(r)}
    BY <1>3 DEF LimitHit
  <2>2. runs'[r] = [p EXCEPT !.limit = TRUE] /\ Alone(r)
    BY <2>1, Becoming DEF Alone
  <2>3. /\ p.pc = "message" /\ p.f = run.f /\ p.i = run.i + 1 /\ p.map = run.map
        /\ p.ids = run.ids /\ p.late = run.late /\ p.cancel = run.cancel /\ p.pause = run.pause
    BY <1>t, AfterShapes
  <2> HIDE DEF p
  <2>4. /\ runs'[r].pc = p.pc /\ runs'[r].f = p.f /\ runs'[r].i = p.i /\ runs'[r].map = p.map
        /\ runs'[r].ids = p.ids /\ runs'[r].late = p.late
    BY <1>a, <2>2 DEF MigrationRun, p
  <2>5. runs'[r].cancel = p.cancel /\ runs'[r].pause = p.pause
    BY <1>a, <2>2 DEF MigrationRun, p
  <2> QED
    BY <2>1, <2>2, <2>3, <2>4, <2>5 DEF GoesOn
<1> QED
  BY <1>1, <1>2, <1>3

LEMMA PauseEffect ==
    ASSUME MigrationAssumption, TypeInv, Pause
    PROVE  LET r == newest IN
           /\ Alone(r) /\ runs'[r].map = runs[r].map /\ runs'[r].ids = runs[r].ids
           /\ runs'[r].late = runs[r].late /\ ~runs[r].cancel /\ ~runs'[r].cancel
           /\ runs'[r].pause /\ ~runs[r].pause
           /\ UNCHANGED <<newest, file, copies, failed, unlisted, doubt>>
           /\ runs'[r].pc = runs[r].pc /\ Stands(r)
<1>t. newest \in RunIds /\ runs[newest] \in MigrationRun
  BY DEF TypeInv, TypeOK
<1> DEFINE run == runs[newest]
<1>p. ASSUME NEW p \in MigrationRun, Becomes(newest, [p EXCEPT !.pause = TRUE])
      PROVE  /\ Alone(newest) /\ runs'[newest].map = p.map /\ runs'[newest].ids = p.ids
             /\ runs'[newest].late = p.late /\ runs'[newest].cancel = p.cancel
             /\ runs'[newest].pause /\ runs'[newest].pc = p.pc /\ runs'[newest].f = p.f
             /\ runs'[newest].i = p.i
  <2>1. runs'[newest] = [p EXCEPT !.pause = TRUE] /\ Alone(newest)
    BY <1>p, <1>t, Becoming DEF Alone
  <2>2. /\ runs'[newest].map = p.map /\ runs'[newest].ids = p.ids /\ runs'[newest].late = p.late
        /\ runs'[newest].pc = p.pc /\ runs'[newest].f = p.f /\ runs'[newest].i = p.i
    BY <2>1 DEF MigrationRun
  <2>3. runs'[newest].cancel = p.cancel
    BY <2>1 DEF MigrationRun
  <2>4. runs'[newest].pause
    BY <2>1 DEF MigrationRun
  <2> QED
    BY <2>1, <2>2, <2>3, <2>4
<1>1. /\ ~run.pause /\ ~run.cancel /\ Becomes(newest, [run EXCEPT !.pause = TRUE])
      /\ UNCHANGED <<newest, file, copies, failed, unlisted, doubt>>
  BY DEF Pause
<1> QED
  BY <1>1, <1>t, <1>p DEF Stands

LEMMA CancelEffect ==
    ASSUME MigrationAssumption, TypeInv, Cancel
    PROVE  LET r == newest IN
           /\ Alone(r) /\ runs'[r].map = runs[r].map /\ runs'[r].ids = runs[r].ids
           /\ runs'[r].late = runs[r].late /\ ~runs[r].cancel /\ runs'[r].cancel
           /\ Stands(r) /\ ~Over(r)
           /\ UNCHANGED <<newest, file, copies, failed, unlisted, doubt>>
           /\ runs'[r].pc = runs[r].pc
<1>t. newest \in RunIds /\ runs[newest] \in MigrationRun
  BY DEF TypeInv, TypeOK
<1> DEFINE run == runs[newest]
<1>1. /\ ~run.cancel /\ ~Over(newest)
      /\ UNCHANGED <<newest, file, copies, failed, unlisted, doubt>>
  BY DEF Cancel
<1>3. runs'[newest] = [run EXCEPT !.cancel = TRUE] /\ Alone(newest)
  BY <1>t, Becoming DEF Alone, Cancel
<1>4. /\ runs'[newest].map = run.map /\ runs'[newest].ids = run.ids
      /\ runs'[newest].late = run.late
      /\ runs'[newest].pc = run.pc /\ runs'[newest].f = run.f /\ runs'[newest].i = run.i
  BY <1>t, <1>3 DEF MigrationRun
<1>5. runs'[newest].cancel
  BY <1>t, <1>3 DEF MigrationRun
<1> QED
  BY <1>1, <1>3, <1>4, <1>5 DEF Stands

LEMMA ResumeEffect ==
    ASSUME MigrationAssumption, TypeInv, Resume
    PROVE  /\ newest' = newest + 1 /\ newest' \in RunIds
           /\ UNCHANGED <<file, copies, failed, unlisted, doubt>>
           /\ \A x \in RunIds \ {newest'} : runs'[x] = runs[x]
           /\ \E token \in BOOLEAN :
                runs'[newest'] = NewRun("folder", Remaining(file.map), token)
           /\ Over(newest) \/ "hasty" \in Env \/ Resting(newest)
<1>t. newest \in RunIds /\ newest \in Nat /\ MaxRuns \in Nat
  BY DEF TypeInv, TypeOK, RunIds, MigrationAssumption
<1>1. /\ newest' = newest + 1 /\ newest' \in RunIds
      /\ UNCHANGED <<file, copies, failed, unlisted, doubt>>
  BY <1>t DEF Resume, RunIds
<1>3. PICK token \in BOOLEAN : Becomes(newest', NewRun("folder", Remaining(file.map), token))
  BY DEF Resume, Tokens
<1>2. Over(newest) \/ "hasty" \in Env \/ Resting(newest)
  BY DEF Resume, Over
<1> QED
  BY <1>1, <1>2, <1>3 DEF Becomes, TypeInv, TypeOK

LEMMA QuitsEffect ==
    ASSUME MigrationAssumption, TypeInv, Quits
    PROVE  /\ UNCHANGED <<newest, file, copies, failed, unlisted, doubt>>
           /\ \A r \in RunIds :
                 \/ runs'[r] = runs[r] /\ runs[r].pc \in {"off", "done"}
                 \/ /\ runs'[r].pc = "quit" /\ runs'[r].map = runs[r].map
                    /\ runs'[r].ids = runs[r].ids /\ runs'[r].late = runs[r].late
                    /\ runs'[r].cancel = runs[r].cancel
<1>1. UNCHANGED <<newest, file, copies, failed, unlisted, doubt>>
  BY DEF Quits
<1>2. ASSUME NEW r \in RunIds, runs[r].pc \in {"off", "done"} PROVE runs'[r] = runs[r]
  BY <1>2 DEF Quits
<1>3. ASSUME NEW r \in RunIds, runs[r].pc \notin {"off", "done"}
      PROVE  /\ runs'[r].pc = "quit" /\ runs'[r].map = runs[r].map
             /\ runs'[r].ids = runs[r].ids /\ runs'[r].late = runs[r].late
             /\ runs'[r].cancel = runs[r].cancel
  <2>1. runs'[r] = [runs[r] EXCEPT !.pc = "quit"] /\ runs[r] \in MigrationRun
    BY <1>3 DEF Quits, TypeInv, TypeOK
  <2>2. /\ runs'[r].pc = "quit" /\ runs'[r].map = runs[r].map
        /\ runs'[r].ids = runs[r].ids /\ runs'[r].late = runs[r].late
    BY <2>1 DEF MigrationRun
  <2>3. runs'[r].cancel = runs[r].cancel
    BY <2>1 DEF MigrationRun
  <2> QED
    BY <2>2, <2>3
<1> QED
  BY <1>1, <1>2, <1>3

-----------------------------------------------------------------------------
(* What is called completed has been copied: within a folder every message *)
(* before the one in hand has been seen to, and only messages that are     *)
(* there count as duplicates.                                              *)

Seen(m) == Arrived(m) \/ m \in failed \cup unlisted

Sound(map) == \A m \in Msgs : map[m[1]] = "completed" => Seen(m)

Passed(run) ==
    run.pc \in Within => \A m \in Msgs : m[1] = run.f /\ m[2] < run.i => Seen(m)

\* Every Message-ID among ids is that of a message of the folder, there.
Backed(f, ids, there) ==
    \A id \in ids : id # None /\ \E n \in Msgs : n[1] = f /\ Id[n] = id /\ there[n] > 0

CopyInv ==
    /\ Sound(file.map)
    /\ \A r \in RunIds :
          /\ Sound(runs[r].map) /\ Passed(runs[r])
          /\ runs[r].pc \in Within => Backed(runs[r].f, runs[r].ids, copies)

LEMMA SeenGrows ==
    ASSUME \A m \in Msgs : copies[m] > 0 => copies'[m] > 0,
           failed \subseteq failed', unlisted \subseteq unlisted'
    PROVE  \A m \in Msgs : (copies[m] > 0 => copies'[m] > 0) /\ (Seen(m) => Seen(m)')
BY DEF Seen, Arrived

LEMMA BackedGrows ==
    ASSUME NEW f, NEW ids, \A m \in Msgs : copies[m] > 0 => copies'[m] > 0,
           Backed(f, ids, copies)
    PROVE  Backed(f, ids, copies')
BY DEF Backed

LEMMA BackedIsThere ==
    ASSUME NEW ids, NEW m \in Msgs, Id[m] \in ids, Backed(m[1], ids, copies)
    PROVE  Seen(m)
BY DEF Backed, Seen, Arrived

LEMMA CopyInit == ASSUME MigrationAssumption, Init PROVE CopyInv
<1>1. Sound(AllPending) /\ Sound(Nothing.map)
  BY MsgsAre DEF Sound, AllPending, Nothing, Saved
<1>2. \A r \in RunIds : runs[r].map = AllPending /\ runs[r].pc \notin Within
  BY DEF Init, NewRun, Within
<1> QED
  BY <1>1, <1>2 DEF CopyInv, Passed, Init

LEMMA CopyStep ==
    ASSUME MigrationAssumption, TypeInv, CopyInv, NEW r \in RunIds, Alone(r),
           \A m \in Msgs : (copies[m] > 0 => copies'[m] > 0) /\ (Seen(m) => Seen(m)'),
           runs'[r].pc \in Within => Backed(runs'[r].f, runs'[r].ids, copies'),
           \A m \in Msgs : runs'[r].map[m[1]] = "completed" => Seen(m)',
           runs'[r].pc \in Within =>
               \A m \in Msgs : m[1] = runs'[r].f /\ m[2] < runs'[r].i => Seen(m)',
           Keeps(r)
    PROVE  CopyInv'
<1>1. \A m \in Msgs : file'.map[m[1]] = "completed" => Seen(m)'
  <2>1. \A m \in Msgs : Nothing.map[m[1]] # "completed"
    BY MsgsAre DEF Nothing, Saved
  <2> QED
    BY <2>1 DEF Keeps, CopyInv, Sound
<1>2. ASSUME NEW x \in RunIds \ {r}
      PROVE  /\ \A m \in Msgs : runs'[x].map[m[1]] = "completed" => Seen(m)'
             /\ runs'[x].pc \in Within =>
                  \A m \in Msgs : m[1] = runs'[x].f /\ m[2] < runs'[x].i => Seen(m)'
             /\ runs'[x].pc \in Within => Backed(runs'[x].f, runs'[x].ids, copies')
  <2>1. runs'[x] = runs[x]
    BY DEF Alone
  <2> QED
    BY <2>1, BackedGrows DEF CopyInv, Sound, Passed
<1> QED
  BY <1>1, <1>2 DEF CopyInv, Sound, Passed

LEMMA CopyNext ==
    ASSUME MigrationAssumption, TypeInv, CopyInv, [Next]_migration
    PROVE  CopyInv'
<1>m. \A m \in Msgs : m = <<m[1], m[2]>> /\ m[1] \in MFolders /\ m[2] \in Nat
                      /\ m[2] >= 1 /\ m[2] <= Size[m[1]]
  BY MsgsAre
<1>t. \A r \in RunIds : runs[r].i \in Nat /\ runs[r].map \in [MFolders -> Status]
  BY DEF TypeInv, TypeOK, MigrationRun
<1>c. copies \in [Msgs -> Nat]
  BY DEF TypeInv, TypeOK
\* Nothing that is there goes away, and the place of the run is the old one.
<1>u. ASSUME NEW r \in RunIds, Unmoved
      PROVE  \A m \in Msgs : (copies[m] > 0 => copies'[m] > 0) /\ (Seen(m) => Seen(m)')
  BY <1>u, SeenGrows DEF Unmoved
<1>b. ASSUME NEW r \in RunIds, runs[r].pc \in Within, runs'[r].f = runs[r].f,
             runs'[r].ids = runs[r].ids, \A m \in Msgs : copies[m] > 0 => copies'[m] > 0
      PROVE  Backed(runs'[r].f, runs'[r].ids, copies')
  BY <1>b, BackedGrows DEF CopyInv
<1>s. ASSUME NEW r \in RunIds, runs[r].pc \in Within, Stands(r)
      PROVE  \A m \in Msgs : m[1] = runs'[r].f /\ m[2] < runs'[r].i => Seen(m)
  BY <1>s DEF Stands, CopyInv, Passed
<1>g. ASSUME NEW r \in RunIds, runs[r].pc \in Within, GoesOn(r)
      PROVE  \A m \in Msgs : m[1] = runs'[r].f /\ m[2] < runs'[r].i /\ m # InHand(r) => Seen(m)
  <2> SUFFICES ASSUME NEW m \in Msgs, m[1] = runs[r].f, m[2] < runs[r].i + 1, m # InHand(r)
               PROVE  Seen(m)
    BY <1>g DEF GoesOn
  <2>1. m[2] # runs[r].i
    BY <1>m DEF InHand
  <2>2. m[2] < runs[r].i
    BY <1>t, <1>m, <2>1
  <2> QED
    BY <1>g, <2>2 DEF CopyInv, Passed
<1>h. ASSUME NEW r \in RunIds, runs[r].pc \in Within \ {"message"}
      PROVE  InHand(r) \in Msgs
  BY <1>h, InHandIs
<1>1. ASSUME NEW r \in RunIds, FolderHead(r) PROVE CopyInv'
  <2>1. /\ Alone(r) /\ Same(r) /\ NoneCompleted(r) /\ Keeps(r) /\ runs'[r].pc \notin Within
        /\ Unmoved
    BY <1>1, FolderHeadEffect DEF Alone, Within, FolderHead, Unmoved
  <2>2. \A m \in Msgs : runs'[r].map[m[1]] = "completed" => Seen(m)
    BY <1>m, <2>1 DEF NoneCompleted, CopyInv, Sound
  <2>3. \A m \in Msgs : (copies[m] > 0 => copies'[m] > 0) /\ (Seen(m) => Seen(m)')
    BY <1>u, <2>1
  <2> QED
    BY <2>1, <2>2, <2>3, CopyStep
<1>2. ASSUME NEW r \in RunIds,
             PausedFolderCancelled(r) \/ Lists(r) \/ ListsBlind(r) \/ FolderFails(r) \/ Dies(r)
      PROVE  CopyInv'
  <2>1. /\ Alone(r) /\ NoneCompleted(r) /\ file' = file /\ Unmoved
        /\ \/ runs'[r].pc \in {"list", "folder", "dead"} /\ runs'[r].ids = runs[r].ids
           \/ /\ runs'[r].pc = "message" /\ runs'[r].i = 1 /\ runs'[r].f = runs[r].f
              /\ runs'[r].ids \subseteq KnownThere(runs[r].f)
    BY <1>2, ListEffect
  <2>2. \A m \in Msgs : runs'[r].map[m[1]] = "completed" => Seen(m)
    BY <1>m, <2>1 DEF NoneCompleted, CopyInv, Sound
  <2>3. \A m \in Msgs : (copies[m] > 0 => copies'[m] > 0) /\ (Seen(m) => Seen(m)')
    BY <1>u, <2>1
  <2>4. runs'[r].pc \in Within => Backed(runs'[r].f, runs'[r].ids, copies')
    <3>1. runs'[r].pc \in Within => Backed(runs'[r].f, runs'[r].ids, copies)
      BY <2>1 DEF Backed, KnownThere, Recognised, Within
    <3> QED
      BY <2>3, <3>1, BackedGrows
  <2>5. runs'[r].pc \in Within =>
          \A m \in Msgs : m[1] = runs'[r].f /\ m[2] < runs'[r].i => Seen(m)'
    BY <1>m, <2>1 DEF Within
  <2> QED
    BY <2>1, <2>2, <2>3, <2>4, <2>5, CopyStep DEF Keeps
<1>11. ASSUME NEW r \in RunIds, ListsNothing(r) PROVE CopyInv'
  <2>1. /\ Alone(r) /\ NoneCompleted(r) /\ UNCHANGED <<file, copies, failed>>
        /\ unlisted' = unlisted \cup {m \in Msgs : m[1] = runs[r].f}
        /\ runs'[r].ids = {} /\ runs'[r].f = runs[r].f
    BY <1>11, NothingEffect
  <2>2. \A m \in Msgs : runs'[r].map[m[1]] = "completed" => Seen(m)
    BY <1>m, <2>1 DEF NoneCompleted, CopyInv, Sound
  <2>3. \A m \in Msgs : (copies[m] > 0 => copies'[m] > 0) /\ (Seen(m) => Seen(m)')
    BY <2>1, SeenGrows
  <2>4. \A m \in Msgs : m[1] = runs'[r].f => Seen(m)'
    BY <2>1 DEF Seen
  <2>5. Backed(runs'[r].f, runs'[r].ids, copies')
    BY <2>1 DEF Backed
  <2> QED
    BY <2>1, <2>2, <2>3, <2>4, <2>5, CopyStep DEF Keeps
<1>3. ASSUME NEW r \in RunIds, MessageHead(r) \/ HeldCancelled(r) PROVE CopyInv'
  <2>1. /\ Alone(r) /\ Same(r) /\ runs'[r].map = runs[r].map /\ file' = file /\ Unmoved
        /\ runs[r].pc \in Within
        /\ \/ Id[InHand(r)] \in runs[r].ids /\ GoesOn(r)
           \/ Stands(r)
    BY <1>3, HeadEffect DEF Within, Unmoved
  <2>3. \A m \in Msgs : (copies[m] > 0 => copies'[m] > 0) /\ (Seen(m) => Seen(m)')
    BY <1>u, <2>1
  <2>4. Backed(runs'[r].f, runs'[r].ids, copies')
    BY <1>b, <2>1, <2>3 DEF Same, GoesOn, Stands
  <2>5. \A m \in Msgs : m[1] = runs'[r].f /\ m[2] < runs'[r].i => Seen(m)
    <3>1. CASE Stands(r)
      BY <1>s, <2>1, <3>1
    <3>2. CASE Id[InHand(r)] \in runs[r].ids /\ GoesOn(r)
      <4>1. InHand(r) \in Msgs => Seen(InHand(r))
        BY <2>1, <3>2, BackedIsThere DEF CopyInv, InHand
      <4> QED
        BY <1>g, <2>1, <3>2, <4>1
    <3> QED
      BY <2>1, <3>1, <3>2
  <2>6. \A m \in Msgs : runs'[r].map[m[1]] = "completed" => Seen(m)
    BY <2>1 DEF CopyInv, Sound
  <2> QED
    BY <2>1, <2>3, <2>4, <2>5, <2>6, CopyStep DEF Keeps
<1>4. ASSUME NEW r \in RunIds, FolderCloses(r) PROVE CopyInv'
  <2>1. /\ Alone(r) /\ Same(r) /\ Keeps(r) /\ Unmoved
        /\ runs[r].pc = "message" /\ runs'[r].pc \notin Within
        /\ runs'[r].map = [runs[r].map EXCEPT ![runs[r].f] = Closed(runs[r])]
        /\ Stops(runs[r])
    BY <1>4, ClosesEffect DEF Unmoved, Within
  <2>3. \A m \in Msgs : (copies[m] > 0 => copies'[m] > 0) /\ (Seen(m) => Seen(m)')
    BY <1>u, <2>1
  <2>6. ASSUME NEW m \in Msgs, runs'[r].map[m[1]] = "completed" PROVE Seen(m)
    <3>1. CASE m[1] # runs[r].f
      BY <1>t, <1>m, <2>1, <2>6, <3>1 DEF CopyInv, Sound
    <3>2. CASE m[1] = runs[r].f
      <4>1. Closed(runs[r]) = "completed"
        BY <1>t, <1>m, <2>1, <2>6, <3>2
      <4>2. runs[r].i > Size[runs[r].f]
        BY <2>1, <4>1 DEF Stops, Closed
      <4>3. m[2] < runs[r].i
        <5>1. m[2] \in Nat /\ m[2] <= Size[m[1]] /\ Size[m[1]] \in Nat /\ runs[r].i \in Nat
          BY <1>m, <1>t DEF MigrationAssumption
        <5> QED
          BY <3>2, <4>2, <5>1
      <4> QED
        BY <2>1, <3>2, <4>3 DEF CopyInv, Passed, Within
    <3> QED
      BY <3>1, <3>2
  <2> QED
    BY <2>1, <2>3, <2>6, CopyStep
<1>5. ASSUME NEW r \in RunIds,
             Sends(r) \/ SendFails(r) \/ LimitHit(r)
      PROVE  CopyInv'
  <2>1. /\ Alone(r) /\ runs'[r].map = runs[r].map /\ runs'[r].ids = runs[r].ids
        /\ runs[r].pc \in Within \ {"message"}
        /\ UNCHANGED <<file, unlisted>>
        /\ \/ Copied(r) /\ failed' = failed /\ GoesOn(r)
           \/ /\ copies' = copies \/ Copied(r)
              /\ \/ Stands(r) /\ failed' = failed
                 \/ GoesOn(r) /\ failed' = failed \cup {InHand(r)}
    BY <1>5, SendEffect DEF Within
  <2>2. /\ \A m \in Msgs : copies[m] > 0 => copies'[m] > 0
        /\ Copied(r) => copies'[InHand(r)] > 0
        /\ \A m \in Msgs : Seen(m) => Seen(m)'
    <3>1. InHand(r) \in Msgs
      BY <1>h, <2>1
    <3>2. Copied(r) => /\ copies'[InHand(r)] > 0
                       /\ \A m \in Msgs : copies[m] > 0 => copies'[m] > 0
      BY <1>c, <3>1 DEF Copied
    <3>3. \A m \in Msgs : copies[m] > 0 => copies'[m] > 0
      BY <2>1, <3>2
    <3>4. failed \subseteq failed' /\ unlisted \subseteq unlisted'
      BY <2>1
    <3> QED
      BY <3>2, <3>3, <3>4, SeenGrows
  <2>4. Backed(runs'[r].f, runs'[r].ids, copies')
    BY <1>b, <2>1, <2>2 DEF GoesOn, Stands
  <2>5. \A m \in Msgs : m[1] = runs'[r].f /\ m[2] < runs'[r].i => Seen(m)'
    <3>1. CASE Stands(r)
      BY <1>s, <2>1, <2>2, <3>1
    <3>2. CASE GoesOn(r) /\ (Copied(r) \/ failed' = failed \cup {InHand(r)})
      <4>1. \A m \in Msgs : m = InHand(r) => Seen(m)'
        BY <2>2, <3>2 DEF Seen, Arrived
      <4> QED
        BY <1>g, <2>1, <2>2, <3>2, <4>1
    <3> QED
      BY <2>1, <3>1, <3>2
  <2>6. \A m \in Msgs : runs'[r].map[m[1]] = "completed" => Seen(m)'
    BY <2>1, <2>2 DEF CopyInv, Sound
  <2> QED
    BY <2>1, <2>2, <2>4, <2>5, <2>6, CopyStep DEF Keeps
<1>6. CASE Pause \/ Cancel
  <2> DEFINE r == newest
  <2>0. r \in RunIds
    BY DEF TypeInv, TypeOK
  <2>1. /\ Alone(r) /\ runs'[r].map = runs[r].map /\ runs'[r].ids = runs[r].ids
        /\ runs'[r].pc = runs[r].pc /\ Stands(r) /\ Unmoved /\ file' = file
    BY <1>6, PauseEffect, CancelEffect DEF Unmoved
  <2>2. \A m \in Msgs : (copies[m] > 0 => copies'[m] > 0) /\ (Seen(m) => Seen(m)')
    BY <1>u, <2>0, <2>1
  <2>3. runs'[r].pc \in Within =>
          \A m \in Msgs : m[1] = runs'[r].f /\ m[2] < runs'[r].i => Seen(m)'
    BY <1>s, <2>0, <2>1, <2>2
  <2>4. runs'[r].pc \in Within => Backed(runs'[r].f, runs'[r].ids, copies')
    BY <1>b, <2>0, <2>1, <2>2 DEF Stands
  <2>5. \A m \in Msgs : runs'[r].map[m[1]] = "completed" => Seen(m)'
    BY <2>0, <2>1, <2>2 DEF CopyInv, Sound
  <2> QED
    BY <2>0, <2>1, <2>2, <2>3, <2>4, <2>5, CopyStep DEF Keeps
<1>8. CASE Resume
  <2>0. PICK r \in RunIds : r = newest + 1
    BY <1>8, ResumeEffect
  <2>1. PICK token \in BOOLEAN :
          /\ Alone(r) /\ Unmoved /\ file' = file
          /\ runs'[r] = NewRun("folder", Remaining(file.map), token)
    BY <1>8, <2>0, ResumeEffect DEF Alone, Unmoved
  <2>2. \A m \in Msgs : (copies[m] > 0 => copies'[m] > 0) /\ (Seen(m) => Seen(m)')
    BY <1>u, <2>1
  <2>3. runs'[r].map = Remaining(file.map) /\ runs'[r].pc = "folder"
    BY <2>1 DEF NewRun
  <2>4. \A m \in Msgs : Remaining(file.map)[m[1]] # "completed"
    BY <1>m DEF Remaining
  <2> QED
    BY <2>1, <2>2, <2>3, <2>4, CopyStep DEF Keeps, Within
<1>9. CASE Quits
  <2>1. /\ file' = file /\ UNCHANGED <<copies, failed, unlisted>>
        /\ \A r \in RunIds : \/ runs'[r] = runs[r]
                             \/ runs'[r].pc = "quit" /\ runs'[r].map = runs[r].map
    BY <1>9, QuitsEffect
  <2>2. \A m : Seen(m)' <=> Seen(m)
    BY <2>1 DEF Seen, Arrived
  <2>3. Sound(file.map)'
    BY <2>1, <2>2 DEF CopyInv, Sound
  <2>4. ASSUME NEW r \in RunIds
        PROVE  /\ \A m \in Msgs : runs'[r].map[m[1]] = "completed" => Seen(m)'
               /\ runs'[r].pc \in Within =>
                    \A m \in Msgs : m[1] = runs'[r].f /\ m[2] < runs'[r].i => Seen(m)'
               /\ runs'[r].pc \in Within => Backed(runs'[r].f, runs'[r].ids, copies')
    BY <2>1, <2>2 DEF CopyInv, Sound, Passed, Within
  <2> QED
    BY <2>3, <2>4 DEF CopyInv, Sound, Passed
<1>10. CASE UNCHANGED migration
  <2>1. runs' = runs /\ copies' = copies /\ file' = file /\ Unmoved
    BY <1>10 DEF migration, Unmoved
  <2>2. \A m : Seen(m)' <=> Seen(m)
    BY <2>1 DEF Seen, Arrived, Unmoved
  <2> QED
    BY <2>1, <2>2 DEF CopyInv, Sound, Passed
<1> QED
  BY <1>1, <1>2, <1>3, <1>4, <1>5, <1>6, <1>8, <1>9, <1>10, <1>11 DEF Next, System, Step

(* What a run or the saved state calls completed, and a resume leaves out, *)
(* is at the destination, itself or as a message with its Message-ID, or   *)
(* among the failed ones; or the folder was listed without the source's    *)
(* token.  (migration.rs:836-1330, resume_migration)                       *)
THEOREM CompletedHasBeenCopied == ASSUME MigrationAssumption PROVE Spec => []CompletedIsCopied
<1>1. CopyInv => CompletedIsCopied
  BY DEF CopyInv, Sound, Seen, CompletedIsCopied
<1> QED
  BY <1>1, InitType, NextType, CopyInit, CopyNext, PTL DEF Spec

-----------------------------------------------------------------------------
(* A cancelled run: only a run with a message in hand sends one, and with  *)
(* the cancel set it takes no other.                                       *)

Late(run) ==
    /\ run.late \in {0, 1}
    /\ ~run.cancel => run.late = 0
    /\ run.late = 1 => run.pc \notin Within \ {"message"}

LateInv == \A r \in RunIds : Late(runs[r])

LEMMA LateInit == ASSUME MigrationAssumption, Init PROVE LateInv
BY DEF Init, LateInv, Late, NewRun, Within

LEMMA LateStep ==
    ASSUME LateInv, NEW r \in RunIds, Alone(r),
           /\ runs'[r].late \in {0, 1}
           /\ ~runs'[r].cancel => runs'[r].late = 0
           /\ runs'[r].late = 1 => runs'[r].pc \notin Within \ {"message"}
    PROVE  LateInv'
<1>1. ASSUME NEW x \in RunIds \ {r}
      PROVE  /\ runs'[x].late \in {0, 1}
             /\ ~runs'[x].cancel => runs'[x].late = 0
             /\ runs'[x].late = 1 => runs'[x].pc \notin Within \ {"message"}
  BY DEF LateInv, Late, Alone
<1> QED
  BY <1>1 DEF LateInv, Late

LEMMA LateNext ==
    ASSUME MigrationAssumption, TypeInv, LateInv, [Next]_migration
    PROVE  LateInv'
<1>i. \A r \in RunIds : /\ runs[r].late \in {0, 1}
                        /\ ~runs[r].cancel => runs[r].late = 0
                        /\ runs[r].late = 1 => runs[r].pc \notin Within \ {"message"}
  BY DEF LateInv, Late
<1>1. ASSUME NEW r \in RunIds, FolderHead(r) PROVE LateInv'
  <2>1. Alone(r) /\ Same(r) /\ runs'[r].pc \notin Within
    BY <1>1, FolderHeadEffect DEF Alone, Within
  <2> QED
    BY <1>i, <2>1, LateStep DEF Same
<1>2. ASSUME NEW r \in RunIds,
             PausedFolderCancelled(r) \/ Lists(r) \/ ListsBlind(r) \/ FolderFails(r) \/ Dies(r)
      PROVE  LateInv'
  <2>1. /\ Alone(r) /\ runs'[r].late = runs[r].late /\ runs'[r].cancel = runs[r].cancel
        /\ runs'[r].pc \notin Within \ {"message"}
    BY <1>2, ListEffect DEF Within
  <2> QED
    BY <1>i, <2>1, LateStep
<1>10. ASSUME NEW r \in RunIds, ListsNothing(r) PROVE LateInv'
  <2>1. /\ Alone(r) /\ runs'[r].late = runs[r].late /\ runs'[r].cancel = runs[r].cancel
        /\ runs'[r].pc = "message"
    BY <1>10, NothingEffect
  <2> QED
    BY <1>i, <2>1, LateStep
<1>3. ASSUME NEW r \in RunIds, MessageHead(r) \/ HeldCancelled(r) PROVE LateInv'
  <2>1. /\ Alone(r) /\ Same(r) /\ runs[r].pc \in {"message", "held"}
        /\ runs[r].pc = "message" => ~runs[r].cancel
    BY <1>3, HeadEffect
  <2>2. runs[r].late = 0
    BY <1>i, <2>1 DEF Within
  <2> QED
    BY <1>i, <2>1, <2>2, LateStep DEF Same
<1>4. ASSUME NEW r \in RunIds, FolderCloses(r) PROVE LateInv'
  <2>1. Alone(r) /\ Same(r) /\ runs'[r].pc \notin Within
    BY <1>4, ClosesEffect DEF Within
  <2> QED
    BY <1>i, <2>1, LateStep DEF Same
<1>5. ASSUME NEW r \in RunIds,
             Sends(r) \/ SendFails(r) \/ LimitHit(r)
      PROVE  LateInv'
  <2>1. /\ Alone(r) /\ runs'[r].cancel = runs[r].cancel
        /\ runs[r].pc \in Within \ {"message"}
        /\ \/ runs'[r].pc = "message" /\ runs'[r].late = runs[r].late + LateBy(runs[r])
           \/ runs'[r].late = runs[r].late
    BY <1>5, SendEffect DEF Within
  <2>2. runs[r].late = 0
    BY <1>i, <2>1
  <2> QED
    BY <1>i, <2>1, <2>2, LateStep DEF LateBy
<1>6. CASE Pause \/ Cancel
  <2>0. newest \in RunIds
    BY DEF TypeInv, TypeOK
  <2>1. Alone(newest) /\ runs'[newest].late = runs[newest].late /\ ~runs[newest].cancel
    BY <1>6, PauseEffect, CancelEffect
  <2>2. runs[newest].late = 0
    BY <1>i, <2>0, <2>1
  <2> QED
    BY <2>0, <2>1, <2>2, LateStep
<1>7. CASE Resume
  <2>1. PICK r \in RunIds : r = newest + 1
    BY <1>7, ResumeEffect
  <2>2. Alone(r) /\ runs'[r].late = 0 /\ runs'[r].pc = "folder"
    <3>1. PICK token \in BOOLEAN : runs'[r] = NewRun("folder", Remaining(file.map), token)
      BY <1>7, <2>1, ResumeEffect
    <3>2. Alone(r)
      BY <1>7, <2>1, ResumeEffect DEF Alone
    <3> QED
      BY <3>1, <3>2 DEF NewRun
  <2> QED
    BY <2>2, LateStep
<1>8. CASE Quits
  <2>1. \A r \in RunIds : \/ runs'[r] = runs[r]
                          \/ /\ runs'[r].pc = "quit" /\ runs'[r].late = runs[r].late
                             /\ runs'[r].cancel = runs[r].cancel
    BY <1>8, QuitsEffect
  <2> QED
    BY <1>i, <2>1 DEF LateInv, Late, Within
<1>9. CASE UNCHANGED migration
  BY <1>9 DEF migration, LateInv, Late
<1> QED
  BY <1>1, <1>2, <1>3, <1>4, <1>5, <1>6, <1>7, <1>8, <1>9, <1>10 DEF Next, System, Step

(* A cancelled run copies one message more at most: the one it holds while *)
(* it is paused, or is sending.  (migration.rs:849-866)         *)
THEOREM CancelStopsTheRun == ASSUME MigrationAssumption PROVE Spec => []CancelStops
<1>1. LateInv => CancelStops
  BY DEF LateInv, Late, CancelStops
<1> QED
  BY <1>1, InitType, NextType, LateInit, LateNext, PTL DEF Spec

-----------------------------------------------------------------------------
(* Nothing is copied twice where a resume waits for the pause: only the    *)
(* newest run moves then, and what it has still to send is not there, or   *)
(* a failed request left that in doubt.                                    *)

Unhasty == "hasty" \notin Env

OnlyNewest ==
    /\ \A r \in RunIds : r < newest => Over(r) \/ Resting(r)
    /\ \A r \in RunIds : r > newest => runs[r].pc = "off"

\* The messages whose Message-ID is not among ids.
Free(ids) == {m \in Msgs : Id[m] \notin ids}

\* The two reasons for a second copy.
Excused(m) == m \in doubt \/ ~Recognised(m)

Missing(run) ==
    /\ run.pc \in Within =>
         \A m \in Free(run.ids) :
             m[1] = run.f /\ m[2] >= run.i => copies[m] = 0 \/ Excused(m)
    /\ run.pc \in {"send", "retry"} => Id[<<run.f, run.i>>] \notin run.ids

TwiceInv == NothingTwice /\ OnlyNewest /\ Missing(runs[newest])

LEMMA ExcusedStays ==
    ASSUME [Next]_migration, doubt \subseteq doubt'
    PROVE  \A m : (Excused(m) => Excused(m)') /\ (Recognised(m)' <=> Recognised(m))
<1>1. transport' = transport
  BY DEF Next, System, Step, migration, FolderHead, PausedFolderCancelled, Lists, ListsBlind,
         ListsNothing, FolderFails, Dies, MessageHead, HeldCancelled, FolderCloses, Sends,
         SendFails, LimitHit, Pause, Cancel, Resume, Quits
<1> QED
  BY <1>1 DEF Excused, Recognised

LEMMA TwiceInit == ASSUME MigrationAssumption, Init PROVE TwiceInv
<1>1. \A r \in RunIds : r \in Nat /\ r >= 1
  BY DEF RunIds
<1>2. newest = 1 /\ runs[1].pc = "folder" /\ \A r \in RunIds \ {1} : runs[r].pc = "off"
  BY DEF Init, NewRun, RunIds, MigrationAssumption
<1>3. OnlyNewest
  BY <1>1, <1>2 DEF OnlyNewest
<1>4. \A m \in Msgs : copies[m] = 0
  BY DEF Init
<1> QED
  BY <1>2, <1>3, <1>4 DEF TwiceInv, NothingTwice, Missing, Within

LEMMA TheNewest ==
    ASSUME MigrationAssumption, TypeInv, OnlyNewest, NEW r \in RunIds, Step(r)
    PROVE  r = newest
<1>1. ~Over(r)
  BY DEF Step, FolderHead, PausedFolderCancelled, Lists, ListsBlind, ListsNothing, FolderFails, Dies,
         MessageHead, HeldCancelled, FolderCloses, Sends, SendFails, LimitHit, Over
<1>2. ~Resting(r)
  BY DEF Step, FolderHead, PausedFolderCancelled, Lists, ListsBlind, ListsNothing, FolderFails, Dies,
         MessageHead, HeldCancelled, FolderCloses, Sends, SendFails, LimitHit, Resting
<1>3. r \in Nat /\ newest \in Nat
  BY DEF TypeInv, TypeOK, RunIds
<1> QED
  BY <1>1, <1>2, <1>3 DEF OnlyNewest, Over

LEMMA StaysNewest ==
    ASSUME MigrationAssumption, TypeInv, OnlyNewest, Alone(newest), newest' = newest
    PROVE  OnlyNewest'
<1>1. newest \in Nat /\ RunIds \subseteq Nat
  BY DEF TypeInv, TypeOK, RunIds
<1>2. \A r \in RunIds : r # newest => runs'[r] = runs[r]
  BY DEF Alone
<1>3. ASSUME NEW r \in RunIds, r < newest PROVE (Over(r) \/ Resting(r))'
  <2>1. runs'[r] = runs[r]
    BY <1>1, <1>2, <1>3
  <2> QED
    BY <1>3, <2>1 DEF OnlyNewest, Over, Resting
<1>4. ASSUME NEW r \in RunIds, r > newest PROVE runs'[r].pc = "off"
  BY <1>1, <1>2, <1>4 DEF OnlyNewest
<1> QED
  BY <1>3, <1>4 DEF OnlyNewest

LEMMA TwiceStep ==
    ASSUME MigrationAssumption, TypeInv, TwiceInv, NEW r \in RunIds, r = newest, Alone(r),
           newest' = newest, [Next]_migration, \A m \in Msgs : Excused(m) => Excused(m)',
           \A m \in Msgs : copies'[m] = copies[m] \/ Excused(m)' \/ copies'[m] = 1,
           runs'[r].pc \in Within =>
             \A m \in Free(runs'[r].ids) :
               m[1] = runs'[r].f /\ m[2] >= runs'[r].i => copies'[m] = 0 \/ Excused(m)',
           runs'[r].pc \in {"send", "retry"} =>
               Id[<<runs'[r].f, runs'[r].i>>] \notin runs'[r].ids
    PROVE  TwiceInv'
<1>1. OnlyNewest'
  BY StaysNewest DEF TwiceInv
<1>2. NothingTwice'
  <2> SUFFICES ASSUME NEW m \in Msgs, copies'[m] > 1 PROVE m \in doubt' \/ ~Recognised(m)'
    BY DEF NothingTwice
  <2>1. CASE copies'[m] = copies[m]
    <3>1. Excused(m)
      BY <2>1 DEF TwiceInv, NothingTwice, Excused
    <3> QED
      BY <3>1 DEF Excused
  <2>2. CASE copies'[m] # copies[m]
    BY <2>2 DEF Excused
  <2> QED
    BY <2>1, <2>2
<1>3. Missing(runs[newest])'
  BY DEF Missing
<1> QED
  BY <1>1, <1>2, <1>3 DEF TwiceInv

LEMMA TwiceNext ==
    ASSUME MigrationAssumption, Unhasty, TypeInv, TwiceInv, [Next]_migration
    PROVE  TwiceInv'
<1>m. \A m \in Msgs : m = <<m[1], m[2]>> /\ m[1] \in MFolders /\ m[2] \in Nat
                      /\ m[2] >= 1 /\ m[2] <= Size[m[1]]
  BY MsgsAre
<1>t. \A r \in RunIds : runs[r].i \in Nat
  BY DEF TypeInv, TypeOK, MigrationRun
<1>c. copies \in [Msgs -> Nat] /\ newest \in RunIds
  BY DEF TypeInv, TypeOK
<1>x. /\ doubt \subseteq doubt' => \A m : Excused(m) => Excused(m)'
      /\ \A m : Free(m) \subseteq Msgs
  BY ExcusedStays DEF Free
<1>i. /\ OnlyNewest
      /\ runs[newest].pc \in Within =>
           \A m \in Free(runs[newest].ids) :
             m[1] = runs[newest].f /\ m[2] >= runs[newest].i => copies[m] = 0 \/ Excused(m)
      /\ runs[newest].pc \in {"send", "retry"} =>
           Id[<<runs[newest].f, runs[newest].i>>] \notin runs[newest].ids
  BY DEF TwiceInv, Missing
<1>g. ASSUME NEW r \in RunIds, r = newest, GoesOn(r) \/ Stands(r), runs[r].pc \in Within,
             runs'[r].ids = runs[r].ids
      PROVE  \A m \in Free(runs'[r].ids) :
               m[1] = runs'[r].f /\ m[2] >= runs'[r].i =>
                 /\ copies[m] = 0 \/ Excused(m)
                 /\ m[2] >= runs[r].i /\ m[1] = runs[r].f
                 /\ GoesOn(r) => m # InHand(r)
  <2> SUFFICES ASSUME NEW m \in Free(runs[r].ids), m[1] = runs'[r].f, m[2] >= runs'[r].i
               PROVE  /\ copies[m] = 0 \/ Excused(m)
                      /\ m[2] >= runs[r].i /\ m[1] = runs[r].f
                      /\ GoesOn(r) => m # InHand(r)
    BY <1>g
  <2>1. m[1] = runs[r].f /\ m[2] >= runs[r].i /\ (GoesOn(r) => m[2] >= runs[r].i + 1)
    BY <1>g, <1>m, <1>t DEF GoesOn, Stands, Free
  <2>2. GoesOn(r) => m # InHand(r)
    BY <1>m, <1>t, <2>1 DEF InHand, Free
  <2> QED
    BY <1>g, <1>i, <2>1, <2>2
<1>1. ASSUME NEW r \in RunIds, r = newest, FolderHead(r) PROVE TwiceInv'
  <2>1. /\ Alone(r) /\ runs'[r].pc \notin Within /\ UNCHANGED <<newest, copies, doubt>>
    BY <1>1, FolderHeadEffect DEF Alone, Within, FolderHead
  <2> QED
    BY <1>1, <2>1, <1>x, TwiceStep DEF Within
<1>2. ASSUME NEW r \in RunIds, r = newest,
             PausedFolderCancelled(r) \/ Lists(r) \/ ListsBlind(r) \/ FolderFails(r) \/ Dies(r)
      PROVE  TwiceInv'
  <2>1. /\ Alone(r) /\ copies' = copies /\ doubt \subseteq doubt'
        /\ \/ runs'[r].pc \in {"list", "folder", "dead"}
           \/ /\ runs'[r].pc = "message" /\ runs'[r].i = 1 /\ runs'[r].f = runs[r].f
              /\ doubt' = doubt \cup Overlooked(runs[r].f, runs'[r].ids)
    BY <1>2, ListEffect DEF Unmoved
  <2>2. newest' = newest
    BY <1>2 DEF PausedFolderCancelled, Lists, ListsBlind, ListsNothing, FolderFails, Dies
  <2>3. runs'[r].pc \in Within =>
          \A m \in Free(runs'[r].ids) :
            m[1] = runs'[r].f /\ m[2] >= runs'[r].i => copies'[m] = 0 \/ Excused(m)'
    <3> SUFFICES ASSUME runs'[r].pc \in Within, NEW m \in Free(runs'[r].ids),
                        m[1] = runs[r].f
                 PROVE  copies[m] = 0 \/ Excused(m)'
      BY <2>1 DEF Within
    <3>1. copies[m] > 0 /\ Recognised(m) => m \in Overlooked(runs[r].f, runs'[r].ids)
      BY DEF Overlooked, Free
    <3>2. copies[m] \in Nat
      BY <1>c DEF Free
    <3>3. m \in doubt => m \in doubt'
      BY <2>1
    <3>4. runs'[r].pc = "message"
      BY <2>1 DEF Within
    <3>5. copies[m] = 0 \/ m \in doubt' \/ ~Recognised(m)
      BY <2>1, <3>1, <3>2, <3>4
    <3> QED
      BY <1>x, <3>5, ExcusedStays, <2>1 DEF Excused
  <2>4. runs'[r].pc \notin {"send", "retry"}
    BY <2>1
  <2> QED
    BY <1>2, <2>1, <2>2, <2>3, <2>4, <1>x, TwiceStep
<1>11. ASSUME NEW r \in RunIds, r = newest, ListsNothing(r) PROVE TwiceInv'
  <2>1. /\ Alone(r) /\ UNCHANGED <<newest, copies, doubt>>
        /\ runs[r].pc = "list" /\ runs'[r].pc = "message"
        /\ runs'[r].f = runs[r].f /\ runs'[r].i = Size[runs[r].f] + 1
    BY <1>11, NothingEffect
  <2>2. \A m \in Msgs : m[1] = runs'[r].f => ~(m[2] >= runs'[r].i)
    BY <1>m, <2>1 DEF MigrationAssumption
  <2> QED
    BY <1>11, <1>x, <2>1, <2>2, TwiceStep
<1>3. ASSUME NEW r \in RunIds, r = newest, MessageHead(r) \/ HeldCancelled(r) PROVE TwiceInv'
  <2>1. /\ Alone(r) /\ runs'[r].ids = runs[r].ids /\ UNCHANGED <<copies, doubt>>
        /\ runs[r].pc \in Within
        /\ \/ GoesOn(r) /\ runs'[r].pc = "message"
           \/ Id[InHand(r)] \notin runs[r].ids /\ runs'[r].pc = "send" /\ Stands(r)
           \/ runs'[r].pc = "held" /\ Stands(r)
    BY <1>3, HeadEffect DEF Within, Same
  <2>2. newest' = newest
    BY <1>3 DEF MessageHead, HeldCancelled
  <2>3. \A m \in Free(runs'[r].ids) :
          m[1] = runs'[r].f /\ m[2] >= runs'[r].i => copies'[m] = 0 \/ Excused(m)'
    BY <1>3, <1>g, <1>x, <2>1
  <2>4. runs'[r].pc \in {"send", "retry"} =>
          Id[<<runs'[r].f, runs'[r].i>>] \notin runs'[r].ids
    BY <2>1 DEF Stands, InHand
  <2> QED
    BY <1>3, <2>1, <2>2, <2>3, <2>4, <1>x, TwiceStep
<1>4. ASSUME NEW r \in RunIds, r = newest, FolderCloses(r) PROVE TwiceInv'
  <2>1. Alone(r) /\ runs'[r].pc \notin Within /\ UNCHANGED <<newest, copies, doubt>>
    BY <1>4, ClosesEffect DEF Within, FolderCloses
  <2> QED
    BY <1>4, <2>1, <1>x, TwiceStep DEF Within
<1>5. ASSUME NEW r \in RunIds, r = newest,
             Sends(r) \/ SendFails(r) \/ LimitHit(r)
      PROVE  TwiceInv'
  <2>1. /\ Alone(r) /\ runs'[r].ids = runs[r].ids
        /\ runs[r].pc \in {"send", "retry"}
        /\ \/ /\ copies' = copies /\ doubt' = doubt
           \/ Copied(r) /\ doubt' = doubt /\ GoesOn(r) /\ runs'[r].pc = "message"
           \/ Copied(r) /\ doubt' = doubt \cup {InHand(r)}
        /\ \/ runs'[r].pc \in {"send", "retry"} /\ Stands(r)
           \/ runs'[r].pc = "message" /\ GoesOn(r)
    BY <1>5, SendEffect
  <2>2. newest' = newest
    BY <1>5 DEF Sends, SendFails, LimitHit
  <2>3. InHand(r) \in Free(runs[r].ids) /\ (copies[InHand(r)] = 0 \/ Excused(InHand(r)))
    <3>1. InHand(r) \in Msgs
      BY <2>1, InHandIs DEF Within
    <3>2. Id[InHand(r)] \notin runs[r].ids /\ InHand(r)[1] = runs[r].f /\ InHand(r)[2] = runs[r].i
      BY <1>5, <1>i, <2>1 DEF InHand
    <3>3. runs[r].i >= runs[r].i
      BY <1>t
    <3> QED
      BY <1>5, <1>i, <2>1, <3>1, <3>2, <3>3 DEF Within, Free
  <2>4. Copied(r) => /\ copies'[InHand(r)] = copies[InHand(r)] + 1
                     /\ \A m \in Msgs : m # InHand(r) => copies'[m] = copies[m]
    BY <1>c, <2>3 DEF Copied, Free
  <2>8. \A m : Excused(m) => Excused(m)'
    <3>1. doubt \subseteq doubt'
      BY <2>1
    <3> QED
      BY <1>x, <3>1
  <2>9. doubt' = doubt \cup {InHand(r)} => \A m : m = InHand(r) => Excused(m)'
    BY DEF Excused
  <2>5. \A m \in Msgs : copies'[m] = copies[m] \/ Excused(m)' \/ copies'[m] = 1
    <3>1. CASE copies' = copies
      BY <3>1
    <3>2. CASE Copied(r)
      <4>1. \A m : m = InHand(r) => copies'[m] = 1 \/ Excused(m)'
        BY <2>3, <2>4, <2>8, <3>2
      <4> QED
        BY <2>4, <3>2, <4>1
    <3> QED
      BY <2>1, <3>1, <3>2
  <2>6. \A m \in Free(runs'[r].ids) :
          m[1] = runs'[r].f /\ m[2] >= runs'[r].i => copies'[m] = 0 \/ Excused(m)'
    <3> SUFFICES ASSUME NEW m \in Free(runs'[r].ids), m[1] = runs'[r].f, m[2] >= runs'[r].i
                 PROVE  copies'[m] = 0 \/ Excused(m)'
      OBVIOUS
    <3>1. (copies[m] = 0 \/ Excused(m)) /\ (GoesOn(r) => m # InHand(r))
      BY <1>5, <1>g, <2>1 DEF Within
    <3>3. m \in Msgs
      BY DEF Free
    <3>4. CASE copies'[m] = copies[m]
      BY <2>8, <3>1, <3>4
    <3>5. CASE copies'[m] # copies[m]
      <4>1. Copied(r) /\ m = InHand(r)
        BY <2>1, <2>4, <3>3, <3>5
      <4>2. doubt' = doubt \cup {InHand(r)}
        BY <2>1, <3>1, <3>5, <4>1
      <4> QED
        BY <2>9, <4>1, <4>2
    <3> QED
      BY <3>4, <3>5
  <2>7. runs'[r].pc \in {"send", "retry"} =>
          Id[<<runs'[r].f, runs'[r].i>>] \notin runs'[r].ids
    BY <2>1, <2>3 DEF Stands, InHand, Free
  <2> QED
    BY <1>5, <2>1, <2>2, <2>5, <2>6, <2>7, <2>8, <1>x, TwiceStep
<1>6. CASE Pause \/ Cancel
  <2> DEFINE r == newest
  <2>1. /\ Alone(r) /\ runs'[r].ids = runs[r].ids /\ UNCHANGED <<newest, copies, doubt>>
        /\ runs'[r].pc = runs[r].pc /\ Stands(r)
    BY <1>6, PauseEffect, CancelEffect
  <2>2. runs'[r].pc \in Within =>
          \A m \in Free(runs'[r].ids) :
            m[1] = runs'[r].f /\ m[2] >= runs'[r].i => copies'[m] = 0 \/ Excused(m)'
    BY <1>c, <1>g, <1>x, <2>1
  <2>3. runs'[r].pc \in {"send", "retry"} =>
          Id[<<runs'[r].f, runs'[r].i>>] \notin runs'[r].ids
    BY <1>i, <2>1 DEF Stands
  <2> QED
    BY <1>c, <2>1, <2>2, <2>3, <1>x, TwiceStep
<1>7. CASE Resume
  <2>1. /\ newest' = newest + 1 /\ newest' \in RunIds /\ UNCHANGED <<copies, doubt>>
        /\ \A x \in RunIds \ {newest'} : runs'[x] = runs[x]
        /\ \E token \in BOOLEAN :
             runs'[newest'] = NewRun("folder", Remaining(file.map), token)
        /\ Over(newest) \/ Resting(newest)
    BY <1>7, ResumeEffect DEF Unhasty
  <2>2. newest \in Nat /\ RunIds \subseteq Nat
    BY <1>c DEF RunIds
  <2>3. ASSUME NEW x \in RunIds, x < newest' PROVE (Over(x) \/ Resting(x))'
    <3>1. runs'[x] = runs[x] /\ (x < newest \/ x = newest)
      BY <2>1, <2>2, <2>3
    <3>2. Over(x) \/ Resting(x)
      BY <1>i, <2>1, <3>1 DEF OnlyNewest
    <3> QED
      BY <3>1, <3>2 DEF Over, Resting
  <2>4. ASSUME NEW x \in RunIds, x > newest' PROVE runs'[x].pc = "off"
    BY <1>i, <2>1, <2>2, <2>4 DEF OnlyNewest
  <2>5. OnlyNewest'
    BY <2>3, <2>4 DEF OnlyNewest
  <2>6. Missing(runs[newest])'
    BY <2>1 DEF Missing, NewRun, Within
  <2>7. NothingTwice'
    BY <2>1, ExcusedStays DEF TwiceInv, NothingTwice
  <2> QED
    BY <2>5, <2>6, <2>7 DEF TwiceInv
<1>8. CASE Quits
  <2>1. /\ UNCHANGED <<newest, copies, doubt>>
        /\ \A r \in RunIds : \/ runs'[r] = runs[r] /\ runs[r].pc \in {"off", "done"}
                             \/ runs'[r].pc = "quit"
    BY <1>8, QuitsEffect
  <2>2. ASSUME NEW x \in RunIds, x < newest' PROVE Over(x)'
    BY <2>1 DEF Over
  <2>3. ASSUME NEW x \in RunIds, x > newest' PROVE runs'[x].pc = "off"
    BY <1>8, <1>i, <2>1, <2>3 DEF OnlyNewest, Quits
  <2>4. Missing(runs[newest])'
    <3>1. runs'[newest].pc \notin Within
      BY <1>c, <2>1 DEF Within
    <3>2. runs'[newest'].pc \notin Within
      BY <2>1, <3>1
    <3> QED
      BY <3>2 DEF Missing, Within
  <2>5. OnlyNewest'
    BY <2>2, <2>3 DEF OnlyNewest
  <2>6. NothingTwice'
    BY <2>1, ExcusedStays DEF TwiceInv, NothingTwice
  <2> QED
    BY <2>4, <2>5, <2>6 DEF TwiceInv
<1>9. CASE UNCHANGED migration
  <2>1. OnlyNewest'
    BY <1>9, <1>i DEF migration, OnlyNewest, Over, Resting
  <2>2. NothingTwice'
    BY <1>9, ExcusedStays DEF migration, TwiceInv, NothingTwice
  <2>3. Missing(runs[newest])'
    BY <1>9, <1>i, <1>x DEF migration, Missing
  <2> QED
    BY <2>1, <2>2, <2>3 DEF TwiceInv
<1>10. ASSUME NEW r \in RunIds, Step(r) PROVE TwiceInv'
  <2>1. r = newest
    BY <1>10, <1>i, TheNewest
  <2> QED
    BY <1>10, <1>1, <1>2, <1>3, <1>4, <1>5, <1>11, <2>1 DEF Step
<1> QED
  BY <1>6, <1>7, <1>8, <1>9, <1>10 DEF Next, System

(* Pauses, resumes, restarts and failed folders copy no message twice,     *)
(* unless a failed request left in doubt whether it is there, or the       *)
(* destination does not show the Message-ID it has, if any: where a        *)
(* resume waits until the pause has taken hold, one run moves at a time    *)
(* and reads the Message-IDs of a folder before it sends into it.          *)
(* (migration.rs:757-789, 930-959)                                         *)
THEOREM NothingIsCopiedTwice ==
    ASSUME MigrationAssumption, Unhasty PROVE Spec => []NothingTwice
<1>1. TwiceInv => NothingTwice
  BY DEF TwiceInv
<1>2. TypeInv /\ TwiceInv /\ [Next]_migration => TwiceInv'
  BY TwiceNext
<1> QED
  BY <1>1, <1>2, InitType, NextType, TwiceInit, PTL DEF Spec

=============================================================================
