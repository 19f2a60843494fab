-------------------------- MODULE ServerDeleteProofs --------------------------
(***************************************************************************)
(* Theorems about ServerDelete for every value of its constants: the       *)
(* types, whose messages are removed, that a delete shown as done is in    *)
(* the journal until the server has answered it, that the code implements  *)
(* DeleteJournal, that a deleted row stays away, and that the headers of   *)
(* other messages stay cached.                                             *)
(***************************************************************************)
EXTENDS ServerDelete, TLAPS

-----------------------------------------------------------------------------
(* The helpers.                                                            *)

LEMMA Sets ==
    /\ \A mb \in Mailbox, uids \in SUBSET Uid : Of(mb, uids) \in SUBSET Msg
    /\ \A set, mb : UidsIn(set, mb) \in SUBSET Uid
  BY DEF Of, UidsIn, Msg

LEMMA Constants ==
    /\ Unused \in Run /\ Over \in Run /\ Launched \in Replay
    /\ NoLoad \in Load /\ NoDrain \in Drain
    /\ Unused.lifts = {} /\ Unused.deleted = {} /\ Unused.todo = {}
    /\ Over.lifts = {} /\ Over.deleted = {} /\ Over.todo = {}
    /\ Unused.pc = "unused" /\ Over.pc = "done"
    /\ Launched.pc = "idle" /\ Launched.todo = {} /\ Launched.answered = {}
    /\ Launched.mbox \in Mailbox
  BY DeleteAssumption DEF Unused, Over, Launched, NoLoad, NoDrain, Run, Replay,
     Load, Drain, RunId

LEMMA AskedType ==
    ASSUME view \in Mailbox, rows \subseteq Uid, NEW by \in 0 .. MaxRuns
    PROVE  Asked(by) \in Load
  BY DEF Asked, Load

LEMMA GroupType ==
    ASSUME runs \in [RunId -> Run], NEW r \in RunId
    PROVE  /\ Group(r) \in SUBSET Msg
           /\ \A u \in Uid : Addr(r, u) \in Msg
           /\ runs[r] \in Run /\ runs[r].mbox \in Mailbox
           /\ runs[r].uids \in SUBSET Uid /\ runs[r].todo \in SUBSET Uid
           /\ runs[r].deleted \in SUBSET Uid /\ runs[r].lifts \in SUBSET Uid
           /\ runs[r].snapRows \in SUBSET Uid /\ runs[r].snapTombs \in SUBSET Msg
  BY DEF Group, Addr, Run, Msg

(* A run that only moves on.                                               *)
LEMMA MoveType ==
    ASSUME runs \in [RunId -> Run], NEW r \in RunId,
           NEW pc \in {"unused", "queue", "hide", "delete", "prune", "reload", "lift", "done"},
           runs' = [runs EXCEPT ![r].pc = pc]
    PROVE  /\ runs' \in [RunId -> Run]
           /\ runs'[r].pc = pc
           /\ runs'[r].mbox = runs[r].mbox /\ runs'[r].uids = runs[r].uids
           /\ runs'[r].todo = runs[r].todo /\ runs'[r].deleted = runs[r].deleted
           /\ runs'[r].lifts = runs[r].lifts
           /\ \A q \in RunId \ {r} : runs'[q] = runs[q]
  BY DEF Run

-----------------------------------------------------------------------------
LEMMA TypeInit == Init => TypeOK
  BY Constants, Sets, DeleteAssumption DEF Init, TypeOK

RunsOK == /\ runs \in [RunId -> Run]
          /\ \A r \in RunId : /\ runs[r].todo \subseteq runs[r].uids
                              /\ runs[r].lifts \subseteq runs[r].deleted
                              /\ runs[r].deleted \subseteq runs[r].uids \ runs[r].todo

LEMMA RunMoves ==
    ASSUME RunsOK, NEW r \in RunId,
           NEW pc \in {"unused", "queue", "hide", "delete", "prune", "reload", "lift", "done"},
           runs' = [runs EXCEPT ![r].pc = pc]
    PROVE  RunsOK'
  <1>1. \A q \in RunId : /\ runs'[q].lifts = runs[q].lifts
                         /\ runs'[q].deleted = runs[q].deleted
                         /\ runs'[q].uids = runs[q].uids /\ runs'[q].todo = runs[q].todo
    BY MoveType DEF RunsOK
  <1> QED  BY <1>1, MoveType DEF RunsOK

LEMMA RunEnds ==
    ASSUME RunsOK, NEW r \in RunId, runs' = [runs EXCEPT ![r] = Over]
    PROVE  RunsOK'
  BY Constants DEF RunsOK, Over, Unused, Run

LEMMA DeletedType ==
    ASSUME RunsOK, NEW r \in RunId, NEW u \in runs[r].todo,
           runs' = [runs EXCEPT ![r].todo = @ \ {u}, ![r].deleted = @ \cup {u},
                   ![r].lifts = IF <<view, u>> \in Archived THEN @ \cup {u} ELSE @],
           u \in Uid
    PROVE  RunsOK'
  <1>1. runs' \in [RunId -> Run]
    BY DEF RunsOK, Run
  <1>2. \A q \in RunId \ {r} : runs'[q] = runs[q]
    BY DEF RunsOK
  <1>3. /\ runs'[r].todo = runs[r].todo \ {u}
        /\ runs'[r].deleted = runs[r].deleted \cup {u}
        /\ runs'[r].lifts \subseteq runs[r].lifts \cup {u}
        /\ runs'[r].uids = runs[r].uids
    BY DEF RunsOK, Run
  <1> QED  BY <1>1, <1>2, <1>3 DEF RunsOK

LEMMA FailedType ==
    ASSUME RunsOK, NEW r \in RunId, NEW u \in Uid,
           runs' = [runs EXCEPT ![r].todo = @ \ {u}]
    PROVE  RunsOK'
  <1>1. runs' \in [RunId -> Run]
    BY DEF RunsOK, Run
  <1>2. \A q \in RunId \ {r} : runs'[q] = runs[q]
    BY DEF RunsOK
  <1>3. /\ runs'[r].todo = runs[r].todo \ {u} /\ runs'[r].deleted = runs[r].deleted
        /\ runs'[r].lifts = runs[r].lifts /\ runs'[r].uids = runs[r].uids
    BY DEF RunsOK, Run
  <1> QED  BY <1>1, <1>2, <1>3 DEF RunsOK

LEMMA TypeStep == TypeOK /\ [Next]_vars => TypeOK'
  <1> SUFFICES ASSUME TypeOK, [Next]_vars PROVE TypeOK'
    OBVIOUS
  <1> USE Constants, Sets, DeleteAssumption
  <1>a. RunsOK
    BY DEF TypeOK, RunsOK
  <1>1. ASSUME NEW r \in RunId, DeleteSelected(r) PROVE TypeOK'
    <2>1. PICK uids \in SUBSET UidsIn(Visible, view) :
             /\ runs' = [runs EXCEPT ![r] =
                  [Unused EXCEPT !.pc = "queue", !.mbox = view, !.uids = uids,
                       !.todo = uids, !.snapRows = rows, !.snapTombs = tombs]]
             /\ selected' = selected \cup Of(view, uids)
      BY <1>1 DEF DeleteSelected
    <2> DEFINE new == [Unused EXCEPT !.pc = "queue", !.mbox = view, !.uids = uids,
                       !.todo = uids, !.snapRows = rows, !.snapTombs = tombs]
    <2>2. uids \in SUBSET Uid
      BY <2>1
    <2>3. new \in Run /\ new.lifts = {} /\ new.deleted = {} /\ new.todo = new.uids
      BY <2>2 DEF Unused, Run, TypeOK
    <2>4. RunsOK'
      <3> HIDE DEF new
      <3> QED  BY <2>1, <2>3, <1>a DEF RunsOK, new
    <2> QED  BY <2>1, <2>2, <2>4, <1>1 DEF DeleteSelected, TypeOK, RunsOK, disk, list, readers, bounds
  <1>2. ASSUME NEW r \in RunId, Queue(r) PROVE TypeOK'
    <2>1. RunsOK'  BY <1>a, <1>2, RunMoves DEF Queue
    <2>2. Group(r) \in SUBSET Msg  BY <1>a, GroupType DEF RunsOK
    <2> QED  BY <2>1, <2>2, <1>2 DEF Queue, TypeOK, RunsOK, disk, list, readers, history, bounds
  <1>3. ASSUME NEW r \in RunId, Hide(r) PROVE TypeOK'
    <2>1. RunsOK'  BY <1>a, <1>3, RunMoves DEF Hide
    <2>2. Group(r) \in SUBSET Msg /\ runs[r].snapRows \in SUBSET Uid /\ runs[r].snapTombs \in SUBSET Msg
      BY <1>a, GroupType DEF RunsOK
    <2> QED  BY <2>1, <2>2, <1>3 DEF Hide, TypeOK, RunsOK, disk, list, readers, history, bounds
  <1>4. ASSUME NEW r \in RunId, NEW u \in Uid, Delete(r, u) PROVE TypeOK'
    <2>1. Addr(r, u) \in Msg  BY <1>a, GroupType DEF RunsOK
    <2>2. CASE Deleted(r, u)
      <3>1. runs' = [runs EXCEPT ![r].todo = @ \ {u}, ![r].deleted = @ \cup {u},
                   ![r].lifts = IF <<view, u>> \in Archived THEN @ \cup {u} ELSE @]
        BY <2>2 DEF Deleted
      <3>2. RunsOK'
        BY <3>1, <1>4, <1>a, DeletedType DEF Delete
      <3> QED  BY <2>1, <2>2, <3>2, <1>4 DEF Delete, Deleted, TypeOK, RunsOK, disk, list,
                  readers, bounds
    <2>3. CASE Failed(r, u)
      <3>1. runs' = [runs EXCEPT ![r].todo = @ \ {u}]
        BY <2>3 DEF Failed
      <3>2. RunsOK'
        BY <3>1, <1>a, FailedType
      <3> QED  BY <2>1, <2>3, <3>2, <1>4 DEF Delete, Failed, TypeOK, RunsOK, disk, list,
                  readers, bounds
    <2> QED  BY <1>4, <2>2, <2>3 DEF Delete
  <1>5. ASSUME NEW r \in RunId, Clear(r) PROVE TypeOK'
    <2>1. PICK pc \in {"reload", "prune"} : runs' = [runs EXCEPT ![r].pc = pc]
      BY <1>5 DEF Clear
    <2>2. RunsOK'  BY <2>1, <1>a, RunMoves
    <2> QED  BY <2>2, <1>5 DEF Clear, TypeOK, RunsOK, disk, list, readers, history, bounds
  <1>6. ASSUME NEW r \in RunId, Prune(r) PROVE TypeOK'
    <2>1. RunsOK'  BY <1>a, <1>6, RunMoves DEF Prune
    <2>2. sidecar' \in SUBSET Msg
      BY <1>6 DEF Prune, TypeOK
    <2> QED  BY <2>1, <2>2, <1>6 DEF Prune, TypeOK, RunsOK, disk, list, readers, history, bounds
  <1>7. ASSUME NEW r \in RunId, Reload(r) PROVE TypeOK'
    <2>1. RunsOK'  BY <1>a, <1>7, RunMoves DEF Reload
    <2>2. load' \in Load
      BY <1>7, AskedType DEF Reload, TypeOK, RunId
    <2> QED  BY <2>1, <2>2, <1>7 DEF Reload, TypeOK, RunsOK, disk, list, readers, history, bounds
  <1>8. ASSUME NEW r \in RunId, Lift(r) PROVE TypeOK'
    <2>1. RunsOK'  BY <1>a, <1>8, RunEnds DEF Lift
    <2> QED  BY <2>1, <1>8 DEF Lift, TypeOK, RunsOK, disk, list, readers, history, bounds
  <1>9. CASE ReplayReads
    BY <1>9 DEF ReplayReads, Replay, TypeOK, disk, list, readers, history, bounds
  <1>10. CASE ReplayNext
    <2>1. \A m \in replay.todo : m[1] \in Mailbox
      BY DEF TypeOK, Replay, Msg
    <2>2. replay' \in Replay
      <3>1. CASE replay.todo = {}
        BY <3>1, <1>10 DEF ReplayNext, Replay, TypeOK
      <3>2. CASE replay.todo # {}
        <4>1. PICK mb \in {m[1] : m \in replay.todo} :
                 replay' = [replay EXCEPT !.pc = "delete", !.mbox = mb]
          BY <3>2, <1>10 DEF ReplayNext
        <4>2. mb \in Mailbox
          BY <2>1, <4>1
        <4> QED  BY <4>1, <4>2 DEF Replay, TypeOK
      <3> QED  BY <3>1, <3>2
    <2> QED  BY <2>2, <1>10 DEF ReplayNext, Replay, TypeOK, disk, list, readers, history, bounds
  <1>11. ASSUME NEW u \in Uid, ReplayDeletes(u) PROVE TypeOK'
    <2>1. <<replay.mbox, u>> \in Msg
      BY DEF TypeOK, Replay, Msg
    <2>2. server' \in SUBSET Msg /\ owed' \in SUBSET Msg
      BY <2>1, <1>11 DEF ReplayDeletes, TypeOK
    <2>3. \A after \in Replay : ReplayAttempts(u, after) => replay' \in Replay
      BY DEF ReplayAttempts, Replay
    <2>4. /\ [replay EXCEPT !.answered = @ \cup {u}, !.removed = @ \cup {u}] \in Replay
          /\ [replay EXCEPT !.answered = @ \cup {u}] \in Replay
          /\ [replay EXCEPT !.kept = @ \cup {<<replay.mbox, u>>}] \in Replay
      BY <2>1 DEF TypeOK, Replay
    <2>5. replay' \in Replay
      BY <1>11, <2>3, <2>4 DEF ReplayDeletes
    <2> QED  BY <2>2, <2>5, <1>11 DEF ReplayDeletes, TypeOK, disk, list, readers, history, bounds
  <1>12. CASE ReplayClears
    <2>1. replay' \in Replay
      BY <1>12 DEF ReplayClears, TypeOK, Replay
    <2> QED  BY <2>1, <1>12 DEF ReplayClears, TypeOK, disk, list, readers, history, bounds
  <1>13. CASE ReplayPrunes
    <2>1. replay' \in Replay
      BY <1>13 DEF ReplayPrunes, TypeOK, Replay
    <2>2. load' \in Load
      BY <1>13, AskedType DEF ReplayPrunes, TypeOK
    <2> QED  BY <2>1, <2>2, <1>13 DEF ReplayPrunes, TypeOK, disk, list, readers, history, bounds
  <1>14. CASE LoadStarts
    <2>1. load' \in Load
      BY <1>14, AskedType DEF LoadStarts, TypeOK
    <2> QED  BY <2>1, <1>14 DEF LoadStarts, Reads, TypeOK, disk, list, readers, history
  <1>15. CASE LoadFinds
    <2>1. load' \in Load
      <3>1. PICK uids \in SUBSET Uid : load' = [load EXCEPT !.pc = "found", !.uids = uids]
        BY <1>15 DEF LoadFinds, TypeOK, Load
      <3> QED  BY <3>1 DEF TypeOK, Load
    <2> QED  BY <2>1, <1>15 DEF LoadFinds, TypeOK, disk, list, readers, history, bounds
  <1>16. CASE LoadCommits
    <2>1. load.uids \in SUBSET Uid /\ load.mbox \in Mailbox
      BY DEF TypeOK, Load
    <2>2. sidecar' \in SUBSET Msg
      BY <2>1, <1>16 DEF LoadCommits, TypeOK
    <2> QED  BY <2>1, <2>2, <1>16 DEF LoadCommits, TypeOK, disk, list, readers, history, bounds
  <1>17. CASE LoadEnds
    <2>1. load.base \in SUBSET Uid
      BY DEF TypeOK, Load
    <2> QED  BY <2>1, <1>17 DEF LoadEnds, TypeOK, disk, list, readers, history, bounds
  <1>18. CASE DrainStarts
    <2>1. drain' \in Drain
      BY <1>18 DEF DrainStarts, TypeOK, Drain
    <2> QED  BY <2>1, <1>18 DEF DrainStarts, Reads, TypeOK, disk, list, readers, history
  <1>19. CASE DrainReads
    <2>1. drain' \in Drain
      BY <1>19 DEF DrainReads, TypeOK, Drain
    <2> QED  BY <2>1, <1>19 DEF DrainReads, TypeOK, disk, list, readers, history, bounds
  <1>20. CASE DrainCommits
    <2>1. drain.uids \in SUBSET Uid
      BY DEF TypeOK, Drain
    <2>2. rows' \in SUBSET Uid /\ sidecar' \in SUBSET Msg
      BY <2>1, <1>20 DEF DrainCommits, TypeOK
    <2> QED  BY <2>2, <1>20 DEF DrainCommits, TypeOK, disk, list, readers, history, bounds
  <1>21. CASE DrainEnds
    <2>1. load' \in Load
      BY <1>21, AskedType DEF DrainEnds, TypeOK
    <2> QED  BY <2>1, <1>21 DEF DrainEnds, TypeOK, disk, list, readers, history, bounds
  <1>22. ASSUME NEW mb \in Mailbox, Visit(mb) PROVE TypeOK'
    BY <1>22 DEF Visit, Reads, TypeOK, disk, readers, history
  <1>23. CASE Crash
    <2>1. runs' = [r \in RunId |-> IF Live(r) THEN Over ELSE runs[r]]
      BY <1>23 DEF Crash
    <2>2. RunsOK'
      BY <2>1, <1>a DEF RunsOK
    <2> QED  BY <2>2, <1>23 DEF Crash, TypeOK, RunsOK, disk
  <1>24. CASE UNCHANGED vars
    BY <1>24 DEF vars, TypeOK, disk, list, readers, history, bounds
  <1> QED
    BY <1>1, <1>2, <1>3, <1>4, <1>5, <1>6, <1>7, <1>8, <1>9, <1>10, <1>11, <1>12,
       <1>13, <1>14, <1>15, <1>16, <1>17, <1>18, <1>19, <1>20, <1>21, <1>22, <1>23, <1>24
       DEF Next, RunStep, ReplayStep, ReaderStep

(* Every reachable state has the types of the variables, and a run lifts   *)
(* and deletes only what it was asked to.                                  *)
THEOREM Typing == Spec => []TypeOK
  BY TypeInit, TypeStep, PTL DEF Spec

-----------------------------------------------------------------------------
(* Only what the user chose: the addresses of every call, and those the    *)
(* replay has read, were chosen.                                           *)
ChosenInv ==
    /\ journal \subseteq selected
    /\ Stored \ server \subseteq selected
    /\ \A r \in RunId : Group(r) \subseteq selected
    /\ replay.todo \subseteq selected

(* A step that leaves the mailbox and the UIDs of every call alone.        *)
LEMMA SameGroups ==
    ASSUME \A q \in RunId : runs'[q].mbox = runs[q].mbox /\ runs'[q].uids = runs[q].uids
    PROVE  \A q \in RunId : Group(q)' = Group(q)
  BY DEF Group, Addr

LEMMA NewGroup ==
    ASSUME runs \in [RunId -> Run], NEW r \in RunId, NEW uids,
           runs' = [runs EXCEPT ![r] =
                [Unused EXCEPT !.pc = "queue", !.mbox = view, !.uids = uids,
                     !.todo = uids, !.snapRows = rows, !.snapTombs = tombs]]
    PROVE  /\ Group(r)' = Of(view, uids)
           /\ runs'[r].pc = "queue" /\ runs'[r].todo = runs'[r].uids
           /\ \A q \in RunId \ {r} : Group(q)' = Group(q) /\ runs'[q] = runs[q]
  <1>1. /\ runs'[r].mbox = view /\ runs'[r].uids = uids /\ runs'[r].pc = "queue"
        /\ runs'[r].todo = uids
        /\ \A q \in RunId \ {r} : runs'[q] = runs[q]
    BY DEF Unused
  <1> QED  BY <1>1 DEF Group, Addr, Of

LEMMA NoGroup ==
    ASSUME NEW r \in RunId, runs'[r] = Over
    PROVE  Group(r)' = {}
  BY DEF Group, Over, Unused

(* A round trip of a call changes neither its place nor its addresses.     *)
LEMMA DeleteMoves ==
    ASSUME TypeOK, NEW r \in RunId, NEW u \in Uid, Delete(r, u)
    PROVE  /\ \A q \in RunId : runs'[q].mbox = runs[q].mbox /\ runs'[q].uids = runs[q].uids
                                /\ runs'[q].pc = runs[q].pc
           /\ runs'[r].todo = runs[r].todo \ {u}
           /\ \A q \in RunId \ {r} : runs'[q] = runs[q]
  <1>1. runs \in [RunId -> Run]
    BY DEF TypeOK
  <1>2. CASE Deleted(r, u)
    BY <1>1, <1>2 DEF Deleted, Run
  <1>3. CASE Failed(r, u)
    BY <1>1, <1>3 DEF Failed, Run
  <1> QED  BY <1>2, <1>3 DEF Delete

LEMMA ChosenInit == Init => ChosenInv
  BY DEF Init, ChosenInv, Group, Unused, Launched

LEMMA ChosenStep == TypeOK /\ ChosenInv /\ [Next]_vars => ChosenInv'
  <1> SUFFICES ASSUME TypeOK, ChosenInv, [Next]_vars PROVE ChosenInv'
    OBVIOUS
  <1>a. runs \in [RunId -> Run]
    BY DEF TypeOK
  <1>b. ASSUME UNCHANGED <<server, runs, replay, selected>>, journal' \subseteq journal
        PROVE  ChosenInv'
    <2>1. \A q \in RunId : Group(q)' = Group(q)
      BY <1>b, SameGroups
    <2> QED  BY <2>1, <1>b DEF ChosenInv
  <1>c. ASSUME NEW r \in RunId, NEW pc \in {"hide", "delete", "prune", "reload", "lift"},
               runs' = [runs EXCEPT ![r].pc = pc], journal' \subseteq journal \cup Group(r),
               UNCHANGED <<server, replay, selected>>
        PROVE  ChosenInv'
    <2>1. \A q \in RunId : runs'[q].mbox = runs[q].mbox /\ runs'[q].uids = runs[q].uids
      BY <1>a, <1>c, MoveType
    <2>2. \A q \in RunId : Group(q)' = Group(q)
      BY <2>1, SameGroups
    <2> QED  BY <2>2, <1>c DEF ChosenInv
  <1>1. ASSUME NEW r \in RunId, DeleteSelected(r) PROVE ChosenInv'
    <2>1. PICK uids \in SUBSET UidsIn(Visible, view) :
             /\ runs' = [runs EXCEPT ![r] =
                  [Unused EXCEPT !.pc = "queue", !.mbox = view, !.uids = uids,
                       !.todo = uids, !.snapRows = rows, !.snapTombs = tombs]]
             /\ selected' = selected \cup Of(view, uids)
      BY <1>1 DEF DeleteSelected
    <2>2. Group(r)' = Of(view, uids) /\ \A q \in RunId \ {r} : Group(q)' = Group(q)
      BY <2>1, <1>a, NewGroup
    <2> QED  BY <2>1, <2>2, <1>1 DEF DeleteSelected, ChosenInv, disk
  <1>2. ASSUME NEW r \in RunId, Queue(r) PROVE ChosenInv'
    BY <1>2, <1>c DEF Queue, history
  <1>3. ASSUME NEW r \in RunId, Hide(r) PROVE ChosenInv'
    BY <1>3, <1>c DEF Hide, disk
  <1>4. ASSUME NEW r \in RunId, NEW u \in Uid, Delete(r, u) PROVE ChosenInv'
    <2>1. \A q \in RunId : Group(q)' = Group(q)
      BY <1>4, DeleteMoves, SameGroups
    <2>2. Addr(r, u) \in Group(r)
      BY <1>4 DEF Delete, TypeOK, Group
    <2>3. server' = server \/ server' = server \ {Addr(r, u)}
      BY <1>4 DEF Delete, Deleted, Failed
    <2> QED  BY <2>1, <2>2, <2>3, <1>4 DEF Delete, ChosenInv, disk
  <1>5. ASSUME NEW r \in RunId, Clear(r) PROVE ChosenInv'
    BY <1>5, <1>c DEF Clear, history
  <1>6. ASSUME NEW r \in RunId, Prune(r) PROVE ChosenInv'
    BY <1>6, <1>c DEF Prune, history
  <1>7. ASSUME NEW r \in RunId, Reload(r) PROVE ChosenInv'
    BY <1>7, <1>c DEF Reload, disk, history
  <1>8. ASSUME NEW r \in RunId, Lift(r) PROVE ChosenInv'
    <2>1. runs'[r] = Over /\ \A q \in RunId \ {r} : runs'[q] = runs[q]
      BY <1>a, <1>8 DEF Lift
    <2>2. Group(r)' = {} /\ \A q \in RunId \ {r} : Group(q)' = Group(q)
      BY <2>1, NoGroup DEF Group, Addr
    <2> QED  BY <2>2, <1>8 DEF Lift, ChosenInv, disk, history
  <1>d. ASSUME UNCHANGED <<runs, selected>>, journal' \subseteq journal,
               replay'.todo \subseteq selected, server \ server' \subseteq selected
        PROVE  ChosenInv'
    <2>1. \A q \in RunId : Group(q)' = Group(q)
      BY <1>d, SameGroups
    <2> QED  BY <2>1, <1>d DEF ChosenInv
  <1>9. CASE ReplayReads
    <2>1. replay'.todo \in {journal, replay.todo}
      BY <1>9 DEF ReplayReads, TypeOK, Replay
    <2> QED  BY <2>1, <1>9, <1>d DEF ReplayReads, disk, history, ChosenInv
  <1>10. CASE ReplayNext
    <2>1. replay'.todo = replay.todo
      BY <1>10 DEF ReplayNext, TypeOK, Replay
    <2> QED  BY <2>1, <1>10, <1>d DEF ReplayNext, disk, history, ChosenInv
  <1>11. ASSUME NEW u \in Uid, ReplayDeletes(u) PROVE ChosenInv'
    <2>1. replay'.todo \subseteq replay.todo
      BY <1>11 DEF ReplayDeletes, ReplayAttempts, TypeOK, Replay
    <2>2. server \ server' \subseteq replay.todo
      BY <1>11 DEF ReplayDeletes
    <2> QED  BY <2>1, <2>2, <1>11, <1>d DEF ReplayDeletes, disk, ChosenInv
  <1>12. CASE ReplayClears
    <2>1. replay'.todo = replay.todo
      BY <1>12 DEF ReplayClears, TypeOK, Replay
    <2> QED  BY <2>1, <1>12, <1>d DEF ReplayClears, history, ChosenInv
  <1>13. CASE ReplayPrunes
    <2>1. replay'.todo = replay.todo
      BY <1>13 DEF ReplayPrunes, TypeOK, Replay
    <2> QED  BY <2>1, <1>13, <1>d DEF ReplayPrunes, history, ChosenInv
  <1>14. CASE ReaderStep
    BY <1>14, <1>b DEF ReaderStep, LoadStarts, LoadFinds, LoadCommits, LoadEnds,
       DrainStarts, DrainReads, DrainCommits, DrainEnds, disk, history
  <1>15. ASSUME NEW mb \in Mailbox, Visit(mb) PROVE ChosenInv'
    BY <1>15, <1>b DEF Visit, disk, history
  <1>16. CASE Crash
    <2>1. \A q \in RunId : runs'[q] = Over \/ runs'[q] = runs[q]
      BY <1>16 DEF Crash
    <2>2. \A q \in RunId : Group(q)' = {} \/ Group(q)' = Group(q)
      BY <2>1, NoGroup DEF Group, Addr
    <2>3. replay'.todo = {}
      BY <1>16 DEF Crash, Launched
    <2> QED  BY <2>2, <2>3, <1>16 DEF Crash, ChosenInv, disk
  <1>17. CASE UNCHANGED vars
    BY <1>17, <1>b DEF vars, disk, history
  <1> QED
    BY <1>1, <1>2, <1>3, <1>4, <1>5, <1>6, <1>7, <1>8, <1>9, <1>10, <1>11, <1>12,
       <1>13, <1>14, <1>15, <1>16, <1>17 DEF Next, RunStep, ReplayStep

(* A run and a replay only ever journal and remove addresses the user      *)
(* chose, whatever the view, the crashes and the overlapping runs do.      *)
THEOREM ChosenOnly == Spec => []OnlyTheChosen
  <1>1. ChosenInv => OnlyTheChosen
    BY DEF ChosenInv, OnlyTheChosen
  <1> QED  BY <1>1, Typing, ChosenInit, ChosenStep, PTL DEF Spec

-----------------------------------------------------------------------------
(* What is shown as deleted is journalled until it is answered.            *)

(* The user is not ahead of a write of the journal, and deletes no row     *)
(* again while a delete of it is unfinished.                               *)
Unhurried == "hurried" \notin Env /\ "redelete" \notin Env

Waits(r) == At(r, "queue") \/ At(r, "hide")
Replayed == replay.todo \cup Of(replay.mbox, replay.answered)

DurableInv ==
    /\ owed \subseteq journal
    /\ \A r \in RunId : At(r, "hide") => Group(r) \subseteq journal
    /\ \A r \in RunId : At(r, "delete") =>
          owed \cap Group(r) \subseteq {Addr(r, u) : u \in runs[r].todo}
    /\ \A r, q \in RunId : r # q /\ Live(r) /\ Live(q) => Group(r) \cap Group(q) = {}
    /\ \A r \in RunId : Waits(r) => /\ Group(r) \cap Replayed = {}
                                    /\ replay.pc # "idle"
                                    /\ runs[r].todo = runs[r].uids
    /\ owed \cap Of(replay.mbox, replay.answered) = {}
    /\ replay.pc # "delete" => replay.answered = {}

LEMMA DurableInit == Init => DurableInv
  BY DEF Init, DurableInv, Unused, Launched, At, Live, Waits, Replayed, Of

LEMMA DurableStep ==
    ASSUME Unhurried, TypeOK, DurableInv, [Next]_vars
    PROVE  DurableInv'
  <1>a. runs \in [RunId -> Run]
    BY DEF TypeOK
  <1>b. ASSUME UNCHANGED <<runs, replay, journal, owed>> PROVE DurableInv'
    BY <1>b DEF DurableInv, Group, Addr, At, Live, Waits, Replayed, Of
  (* A call that moves on. *)
  <1>c. ASSUME NEW r \in RunId, NEW pc \in {"hide", "delete", "prune", "reload", "lift"},
               runs' = [runs EXCEPT ![r].pc = pc]
        PROVE  /\ \A q \in RunId : /\ Group(q)' = Group(q)
                                    /\ runs'[q].todo = runs[q].todo
                                    /\ runs'[q].mbox = runs[q].mbox
                                    /\ runs'[q].uids = runs[q].uids
               /\ runs'[r].pc = pc
               /\ \A q \in RunId \ {r} : runs'[q] = runs[q]
    <2>1. \A q \in RunId : runs'[q].mbox = runs[q].mbox /\ runs'[q].uids = runs[q].uids
      BY <1>a, <1>c, MoveType
    <2>2. \A q \in RunId : Group(q)' = Group(q)
      BY <2>1, SameGroups
    <2> QED  BY <2>1, <2>2, <1>a, <1>c, MoveType
  <1>1. ASSUME NEW r \in RunId, DeleteSelected(r) PROVE DurableInv'
    <2>1. PICK uids \in SUBSET UidsIn(Visible, view) :
             /\ Of(view, uids) \cap Handled = {}
             /\ runs' = [runs EXCEPT ![r] =
                  [Unused EXCEPT !.pc = "queue", !.mbox = view, !.uids = uids,
                       !.todo = uids, !.snapRows = rows, !.snapTombs = tombs]]
      BY <1>1 DEF DeleteSelected, Unhurried
    <2>2. /\ Group(r)' = Of(view, uids)
          /\ runs'[r].pc = "queue" /\ runs'[r].todo = runs'[r].uids
          /\ \A q \in RunId \ {r} : Group(q)' = Group(q) /\ runs'[q] = runs[q]
      BY <2>1, <1>a, NewGroup
    <2>3. UNCHANGED <<journal, owed, replay>> /\ replay.pc # "idle"
      BY <1>1 DEF DeleteSelected, Quiet, Unhurried, disk
    <2>4. \A q \in RunId : Live(q) => Group(r)' \cap Group(q) = {}
      BY <2>1, <2>2 DEF Handled
    <2>5. Group(r)' \cap Replayed = {}
      <3>1. Replayed \subseteq Handled
        BY DEF Handled, Replayed
      <3> QED  BY <3>1, <2>1, <2>2
    <2> QED  BY <2>2, <2>3, <2>4, <2>5 DEF DurableInv, At, Live, Waits, Replayed, Of, Addr
  <1>2. ASSUME NEW r \in RunId, Queue(r) PROVE DurableInv'
    <2>1. /\ runs' = [runs EXCEPT ![r].pc = "hide"] /\ At(r, "queue")
          /\ journal' = journal \cup Group(r) /\ UNCHANGED <<owed, replay>>
      BY <1>2 DEF Queue, history
    <2>2. /\ \A q \in RunId : /\ Group(q)' = Group(q)
                               /\ runs'[q].todo = runs[q].todo
                               /\ runs'[q].mbox = runs[q].mbox
                               /\ runs'[q].uids = runs[q].uids
          /\ runs'[r].pc = "hide"
          /\ \A q \in RunId \ {r} : runs'[q] = runs[q]
      BY <2>1, <1>c
    <2> QED  BY <2>1, <2>2 DEF DurableInv, At, Live, Waits, Replayed, Of, Addr
  <1>3. ASSUME NEW r \in RunId, Hide(r) PROVE DurableInv'
    <2>1. /\ runs' = [runs EXCEPT ![r].pc = "delete"] /\ At(r, "hide")
          /\ owed' = owed \cup Group(r) /\ UNCHANGED <<journal, replay>>
      BY <1>3 DEF Hide, disk
    <2>2. /\ \A q \in RunId : /\ Group(q)' = Group(q)
                               /\ runs'[q].todo = runs[q].todo
                               /\ runs'[q].mbox = runs[q].mbox
                               /\ runs'[q].uids = runs[q].uids
          /\ runs'[r].pc = "delete"
          /\ \A q \in RunId \ {r} : runs'[q] = runs[q]
      BY <2>1, <1>c
    <2>3. Waits(r) /\ Live(r)
      BY <2>1 DEF At, Waits, Live
    <2>4. owed' \subseteq journal'
      BY <2>1 DEF DurableInv
    <2>5. Group(r) \subseteq {Addr(r, u) : u \in runs[r].todo}
      BY <2>3 DEF DurableInv, Group
    <2>6. \A q \in RunId : At(q, "delete")' =>
             owed' \cap Group(q)' \subseteq {Addr(q, u)' : u \in runs'[q].todo}
      <3> SUFFICES ASSUME NEW q \in RunId, At(q, "delete")'
                   PROVE  owed' \cap Group(q)' \subseteq {Addr(q, u)' : u \in runs'[q].todo}
        OBVIOUS
      <3>1. CASE q = r
        BY <3>1, <2>1, <2>2, <2>5 DEF Addr
      <3>2. CASE q # r
        <4>1. Live(q) /\ At(q, "delete")
          BY <3>2, <2>2 DEF Live, At
        <4>2. Group(r) \cap Group(q) = {}
          BY <4>1, <3>2, <2>3 DEF DurableInv
        <4> QED  BY <4>1, <4>2, <2>1, <2>2 DEF DurableInv, Addr
      <3> QED  BY <3>1, <3>2
    <2> QED  BY <2>1, <2>2, <2>3, <2>4, <2>6 DEF DurableInv, At, Live, Waits, Replayed, Of, Addr
  <1>4. ASSUME NEW r \in RunId, NEW u \in Uid, Delete(r, u) PROVE DurableInv'
    <2>1. /\ \A q \in RunId : Group(q)' = Group(q) /\ runs'[q].pc = runs[q].pc
                               /\ runs'[q].mbox = runs[q].mbox
          /\ runs'[r].todo = runs[r].todo \ {u}
          /\ \A q \in RunId \ {r} : runs'[q] = runs[q]
      BY <1>4, DeleteMoves, SameGroups
    <2>2. owed' = owed \ {Addr(r, u)} /\ UNCHANGED <<journal, replay>>
      BY <1>4 DEF Delete, disk
    <2>3. \A q \in RunId : At(q, "delete")' =>
             owed' \cap Group(q)' \subseteq {Addr(q, v)' : v \in runs'[q].todo}
      <3> SUFFICES ASSUME NEW q \in RunId, At(q, "delete")'
                   PROVE  owed' \cap Group(q)' \subseteq {Addr(q, v)' : v \in runs'[q].todo}
        OBVIOUS
      <3>1. owed \cap Group(q) \subseteq {Addr(q, v) : v \in runs[q].todo}
        BY <2>1 DEF DurableInv, At
      <3>2. CASE q = r
        BY <3>1, <3>2, <2>1, <2>2 DEF Addr
      <3>3. CASE q # r
        BY <3>1, <3>3, <2>1, <2>2 DEF Addr
      <3> QED  BY <3>2, <3>3
    <2>4. \A q \in RunId : ~Waits(r) /\ (Waits(q)' => q # r /\ Waits(q))
      BY <2>1, <1>4 DEF Delete, At, Waits
    <2> QED  BY <2>1, <2>2, <2>3, <2>4 DEF DurableInv, At, Live, Waits, Replayed, Of
  <1>5. ASSUME NEW r \in RunId, Clear(r) PROVE DurableInv'
    <2>1. /\ At(r, "delete") /\ runs[r].todo = {}
          /\ journal' = journal \ Group(r) /\ UNCHANGED <<owed, replay>>
      BY <1>5 DEF Clear, history
    <2>2. PICK pc \in {"reload", "prune"} : runs' = [runs EXCEPT ![r].pc = pc]
      BY <1>5 DEF Clear
    <2>3. /\ \A q \in RunId : /\ Group(q)' = Group(q)
                               /\ runs'[q].todo = runs[q].todo
                               /\ runs'[q].mbox = runs[q].mbox
                               /\ runs'[q].uids = runs[q].uids
          /\ runs'[r].pc = pc
          /\ \A q \in RunId \ {r} : runs'[q] = runs[q]
      BY <2>2, <1>c
    <2>4. owed \cap Group(r) = {}
      BY <2>1 DEF DurableInv
    <2> QED  BY <2>1, <2>3, <2>4 DEF DurableInv, At, Live, Waits, Replayed, Of, Addr
  <1>6. ASSUME NEW r \in RunId, Prune(r) \/ Reload(r) PROVE DurableInv'
    <2>1. PICK pc \in {"reload", "lift"} : runs' = [runs EXCEPT ![r].pc = pc]
      BY <1>6 DEF Prune, Reload
    <2>2. runs[r].pc \in {"prune", "reload"} /\ UNCHANGED <<journal, owed, replay>>
      BY <1>6 DEF Prune, Reload, At, disk, history
    <2>3. /\ \A q \in RunId : /\ Group(q)' = Group(q)
                               /\ runs'[q].todo = runs[q].todo
                               /\ runs'[q].mbox = runs[q].mbox
                               /\ runs'[q].uids = runs[q].uids
          /\ runs'[r].pc = pc
          /\ \A q \in RunId \ {r} : runs'[q] = runs[q]
      BY <2>1, <1>c
    <2> QED  BY <2>2, <2>3 DEF DurableInv, At, Live, Waits, Replayed, Of, Addr
  <1>7. ASSUME NEW r \in RunId, Lift(r) PROVE DurableInv'
    <2>1. runs'[r] = Over /\ \A q \in RunId \ {r} : runs'[q] = runs[q]
      BY <1>a, <1>7 DEF Lift
    <2>2. runs'[r].pc = "done" /\ \A q \in RunId \ {r} : Group(q)' = Group(q)
      BY <2>1, Constants DEF Group, Addr
    <2>3. UNCHANGED <<journal, owed, replay>>
      BY <1>7 DEF Lift, disk, history
    <2> QED  BY <2>1, <2>2, <2>3 DEF DurableInv, At, Live, Waits, Replayed, Of, Addr
  (* A step of the replay. *)
  <1>d. ASSUME UNCHANGED runs
        PROVE  \A q \in RunId : Group(q)' = Group(q)
    BY <1>d, SameGroups
  <1>8. CASE ReplayReads
    <2>1. \A r \in RunId : ~Waits(r)
      BY <1>8 DEF ReplayReads, DurableInv
    <2>2. replay'.answered = replay.answered /\ replay'.mbox = replay.mbox
      BY <1>8 DEF ReplayReads, TypeOK, Replay
    <2>3. UNCHANGED <<runs, journal, owed>> /\ replay.pc = "idle"
      BY <1>8 DEF ReplayReads, disk, history
    <2>4. \A r \in RunId : Group(r)' = Group(r)
      BY <2>3, <1>d
    <2> QED  BY <2>1, <2>2, <2>3, <2>4 DEF DurableInv, At, Live, Waits, Of, Addr
  <1>9. CASE ReplayNext
    <2>1. /\ replay'.todo = replay.todo /\ replay'.answered = replay.answered
          /\ replay'.pc \in {"done", "delete"} /\ replay.pc = "next"
      BY <1>9 DEF ReplayNext, TypeOK, Replay
    <2>2. UNCHANGED <<runs, journal, owed>>
      BY <1>9 DEF ReplayNext, disk, history
    <2>3. \A r \in RunId : Group(r)' = Group(r)
      BY <2>2, <1>d
    <2> QED  BY <2>1, <2>2, <2>3 DEF DurableInv, At, Live, Waits, Replayed, Of, Addr
  <1>10. ASSUME NEW u \in Uid, ReplayDeletes(u) PROVE DurableInv'
    <2> DEFINE m == <<replay.mbox, u>>
    <2>1. /\ replay'.todo = replay.todo \ {m} /\ replay'.mbox = replay.mbox
          /\ replay.pc = "delete" /\ replay'.pc = replay.pc /\ m \in replay.todo
      BY <1>10 DEF ReplayDeletes, ReplayAttempts, TypeOK, Replay
    <2>2. \/ owed' = owed \ {m} /\ replay'.answered = replay.answered \cup {u}
          \/ owed' = owed /\ replay'.answered = replay.answered
      BY <1>10 DEF ReplayDeletes, ReplayAttempts, TypeOK, Replay
    <2>3. UNCHANGED <<runs, journal>>
      BY <1>10 DEF ReplayDeletes, disk
    <2>4. \A r \in RunId : Group(r)' = Group(r)
      BY <2>3, <1>d
    <2>5. Replayed' \subseteq Replayed
      BY <2>1, <2>2 DEF Replayed, Of
    <2>6. owed' \subseteq owed /\ owed' \cap Of(replay'.mbox, replay'.answered) = {}
      BY <2>1, <2>2 DEF DurableInv, Of
    <2> HIDE DEF m
    <2> QED  BY <2>1, <2>3, <2>4, <2>5, <2>6 DEF DurableInv, At, Live, Waits, Addr
  <1>11. CASE ReplayClears
    <2>1. /\ replay'.todo = replay.todo /\ replay'.mbox = replay.mbox
          /\ replay'.answered = {} /\ replay'.pc # "idle"
      BY <1>11 DEF ReplayClears, TypeOK, Replay
    <2>2. /\ journal' = journal \ Of(replay.mbox, replay.answered)
          /\ UNCHANGED <<runs, owed>>
      BY <1>11 DEF ReplayClears, history
    <2>3. \A r \in RunId : Group(r)' = Group(r)
      BY <2>2, <1>d
    <2>4. \A r \in RunId : At(r, "hide") => Group(r) \subseteq journal'
      BY <2>2 DEF DurableInv, Waits, Replayed
    <2> QED  BY <2>1, <2>2, <2>3, <2>4 DEF DurableInv, At, Live, Waits, Replayed, Of, Addr
  <1>12. CASE ReplayPrunes
    <2>1. /\ replay'.todo = replay.todo /\ replay'.mbox = replay.mbox
          /\ replay'.answered = replay.answered /\ replay'.pc = "next" /\ replay.pc = "prune"
      BY <1>12 DEF ReplayPrunes, TypeOK, Replay
    <2>2. UNCHANGED <<runs, journal, owed>>
      BY <1>12 DEF ReplayPrunes, history
    <2>3. \A r \in RunId : Group(r)' = Group(r)
      BY <2>2, <1>d
    <2> QED  BY <2>1, <2>2, <2>3 DEF DurableInv, At, Live, Waits, Replayed, Of, Addr
  <1>13. CASE ReaderStep
    BY <1>13, <1>b DEF ReaderStep, LoadStarts, LoadFinds, LoadCommits, LoadEnds,
       DrainStarts, DrainReads, DrainCommits, DrainEnds, disk, history
  <1>14. ASSUME NEW mb \in Mailbox, Visit(mb) PROVE DurableInv'
    BY <1>14, <1>b DEF Visit, disk, history
  <1>15. CASE Crash
    <2>1. \A q \in RunId : ~Live(q)'
      BY <1>15, Constants DEF Crash, Live
    <2>2. replay'.answered = {} /\ replay'.todo = {} /\ UNCHANGED <<journal, owed>>
      BY <1>15, Constants DEF Crash, disk
    <2> QED  BY <2>1, <2>2 DEF DurableInv, At, Live, Waits, Of
  <1>16. CASE UNCHANGED vars
    BY <1>16, <1>b DEF vars, disk, history
  <1> QED
    BY <1>1, <1>2, <1>3, <1>4, <1>5, <1>6, <1>7, <1>8, <1>9, <1>10, <1>11, <1>12,
       <1>13, <1>14, <1>15, <1>16 DEF Next, RunStep, ReplayStep

(* A delete shown as done is in the journal until the server has answered  *)
(* it, in any session: for every number of calls, crashes and refreshes,   *)
(* provided the user is not ahead of the writes and repeats no unfinished  *)
(* delete.                                                                 *)
THEOREM DurableDeletes ==
    ASSUME Unhurried
    PROVE  Spec => []Durable
  <1>1. DurableInv => Durable
    BY DEF DurableInv, Durable
  <1>2. TypeOK /\ DurableInv /\ [Next]_vars => DurableInv'
    BY DurableStep
  <1> QED  BY <1>1, <1>2, Typing, DurableInit, PTL DEF Spec

-----------------------------------------------------------------------------
(* The calls and the replay implement DeleteJournal.                       *)

(* What a call or the replay still has to answer is journalled, and no two *)
(* of them work on the same address.                                       *)
JournalInv ==
    /\ \A r \in RunId : Live(r) => Group(r) \cap Replayed = {} /\ replay.pc # "idle"
    /\ \A r \in RunId : At(r, "delete") => {Addr(r, u) : u \in runs[r].todo} \subseteq journal
    /\ replay.todo \subseteq journal
    /\ replay.todo \cap Of(replay.mbox, replay.answered) = {}

LEMMA JournalInit == Init => JournalInv
  BY DEF Init, JournalInv, Unused, Launched, At, Live, Replayed, Of

(* A call that moves on to pc keeps its addresses.                         *)
LEMMA MovesOn ==
    ASSUME TypeOK, NEW r \in RunId,
           NEW pc \in {"hide", "delete", "prune", "reload", "lift"},
           runs' = [runs EXCEPT ![r].pc = pc]
    PROVE  /\ \A q \in RunId : /\ Group(q)' = Group(q)
                                /\ runs'[q].todo = runs[q].todo
                                /\ runs'[q].mbox = runs[q].mbox
                                /\ runs'[q].uids = runs[q].uids
           /\ runs'[r].pc = pc
           /\ \A q \in RunId \ {r} : runs'[q] = runs[q]
  <1>1. \A q \in RunId : /\ runs'[q].mbox = runs[q].mbox /\ runs'[q].uids = runs[q].uids
                         /\ runs'[q].todo = runs[q].todo
    BY MoveType DEF TypeOK
  <1>2. \A q \in RunId : Group(q)' = Group(q)
    BY <1>1, SameGroups
  <1> QED  BY <1>1, <1>2, MoveType DEF TypeOK

LEMMA JournalStep ==
    ASSUME Unhurried, TypeOK, DurableInv, JournalInv, [Next]_vars
    PROVE  JournalInv'
  <1>a. runs \in [RunId -> Run]
    BY DEF TypeOK
  <1>b. ASSUME UNCHANGED <<runs, replay, journal>> PROVE JournalInv'
    BY <1>b DEF JournalInv, Group, Addr, At, Live, Replayed, Of
  <1>c. \A r, q \in RunId : r # q /\ Live(r) /\ Live(q) => Group(r) \cap Group(q) = {}
    BY DEF DurableInv
  <1>1. ASSUME NEW r \in RunId, DeleteSelected(r) PROVE JournalInv'
    <2>1. PICK uids \in SUBSET UidsIn(Visible, view) :
             /\ Of(view, uids) \cap Handled = {}
             /\ runs' = [runs EXCEPT ![r] =
                  [Unused EXCEPT !.pc = "queue", !.mbox = view, !.uids = uids,
                       !.todo = uids, !.snapRows = rows, !.snapTombs = tombs]]
      BY <1>1 DEF DeleteSelected, Unhurried
    <2>2. /\ Group(r)' = Of(view, uids)
          /\ runs'[r].pc = "queue"
          /\ \A q \in RunId \ {r} : Group(q)' = Group(q) /\ runs'[q] = runs[q]
      BY <2>1, <1>a, NewGroup
    <2>3. UNCHANGED <<journal, replay>> /\ replay.pc # "idle"
      BY <1>1 DEF DeleteSelected, Quiet, Unhurried, disk
    <2>4. Group(r)' \cap Replayed = {}
      <3>1. Replayed \subseteq Handled
        BY DEF Handled, Replayed
      <3> QED  BY <3>1, <2>1, <2>2
    <2> QED  BY <2>2, <2>3, <2>4 DEF JournalInv, At, Live, Replayed, Of, Addr
  <1>2. ASSUME NEW r \in RunId, Queue(r) PROVE JournalInv'
    <2>1. /\ runs' = [runs EXCEPT ![r].pc = "hide"] /\ At(r, "queue")
          /\ journal' = journal \cup Group(r) /\ UNCHANGED replay
      BY <1>2 DEF Queue
    <2>2. /\ \A q \in RunId : Group(q)' = Group(q) /\ runs'[q].todo = runs[q].todo
                               /\ runs'[q].mbox = runs[q].mbox
          /\ runs'[r].pc = "hide"
          /\ \A q \in RunId \ {r} : runs'[q] = runs[q]
      BY <2>1, MovesOn
    <2> QED  BY <2>1, <2>2 DEF JournalInv, At, Live, Replayed, Of, Addr
  <1>3. ASSUME NEW r \in RunId, Hide(r) PROVE JournalInv'
    <2>1. /\ runs' = [runs EXCEPT ![r].pc = "delete"] /\ At(r, "hide")
          /\ UNCHANGED <<journal, replay>>
      BY <1>3 DEF Hide, disk
    <2>2. /\ \A q \in RunId : Group(q)' = Group(q) /\ runs'[q].todo = runs[q].todo
                               /\ runs'[q].mbox = runs[q].mbox
          /\ runs'[r].pc = "delete"
          /\ \A q \in RunId \ {r} : runs'[q] = runs[q]
      BY <2>1, MovesOn
    <2>3. {Addr(r, u) : u \in runs[r].todo} \subseteq journal
      BY <2>1 DEF DurableInv, TypeOK, Group, At
    <2> QED  BY <2>1, <2>2, <2>3 DEF JournalInv, At, Live, Replayed, Of, Addr
  <1>4. ASSUME NEW r \in RunId, NEW u \in Uid, Delete(r, u) PROVE JournalInv'
    <2>1. /\ \A q \in RunId : Group(q)' = Group(q) /\ runs'[q].pc = runs[q].pc
                               /\ runs'[q].mbox = runs[q].mbox
          /\ runs'[r].todo = runs[r].todo \ {u}
          /\ \A q \in RunId \ {r} : runs'[q] = runs[q]
      BY <1>4, DeleteMoves, SameGroups
    <2>2. UNCHANGED <<journal, replay>>
      BY <1>4 DEF Delete, disk
    <2>3. \A q \in RunId : runs'[q].todo \subseteq runs[q].todo
      BY <2>1
    <2> QED  BY <2>1, <2>2, <2>3 DEF JournalInv, At, Live, Replayed, Of, Addr
  <1>5. ASSUME NEW r \in RunId, Clear(r) PROVE JournalInv'
    <2>1. /\ At(r, "delete") /\ journal' = journal \ Group(r) /\ UNCHANGED replay
      BY <1>5 DEF Clear
    <2>2. PICK pc \in {"reload", "prune"} : runs' = [runs EXCEPT ![r].pc = pc]
      BY <1>5 DEF Clear
    <2>3. /\ \A q \in RunId : Group(q)' = Group(q) /\ runs'[q].todo = runs[q].todo
                               /\ runs'[q].mbox = runs[q].mbox
          /\ runs'[r].pc = pc
          /\ \A q \in RunId \ {r} : runs'[q] = runs[q]
      BY <2>2, MovesOn
    <2>4. Live(r) /\ \A q \in RunId : Live(q)' => Live(q)
      BY <2>1, <2>3 DEF Live, At
    <2>5. \A q \in RunId : At(q, "delete")' => {Addr(q, u)' : u \in runs'[q].todo} \subseteq journal'
      <3> SUFFICES ASSUME NEW q \in RunId, At(q, "delete")'
                   PROVE  {Addr(q, u)' : u \in runs'[q].todo} \subseteq journal'
        OBVIOUS
      <3>1. q # r /\ At(q, "delete") /\ Live(q)
        BY <2>3 DEF At, Live
      <3>2. {Addr(q, u) : u \in runs[q].todo} \subseteq journal \cap Group(q)
        BY <3>1 DEF JournalInv, Group, TypeOK
      <3>3. Group(q) \cap Group(r) = {}
        BY <3>1, <2>4, <1>c
      <3> QED  BY <2>1, <2>3, <3>1, <3>2, <3>3 DEF Addr
    <2>6. replay.todo \subseteq journal'
      BY <2>1, <2>4 DEF JournalInv, Replayed
    <2> QED  BY <2>1, <2>3, <2>4, <2>5, <2>6 DEF JournalInv, Replayed, Of
  <1>6. ASSUME NEW r \in RunId, Prune(r) \/ Reload(r) PROVE JournalInv'
    <2>1. PICK pc \in {"reload", "lift"} : runs' = [runs EXCEPT ![r].pc = pc]
      BY <1>6 DEF Prune, Reload
    <2>2. runs[r].pc \in {"prune", "reload"} /\ UNCHANGED <<journal, replay>>
      BY <1>6 DEF Prune, Reload, At, disk
    <2>3. /\ \A q \in RunId : Group(q)' = Group(q) /\ runs'[q].todo = runs[q].todo
                               /\ runs'[q].mbox = runs[q].mbox
          /\ runs'[r].pc = pc
          /\ \A q \in RunId \ {r} : runs'[q] = runs[q]
      BY <2>1, MovesOn
    <2> QED  BY <2>2, <2>3 DEF JournalInv, At, Live, Replayed, Of, Addr
  <1>7. ASSUME NEW r \in RunId, Lift(r) PROVE JournalInv'
    <2>1. runs'[r] = Over /\ \A q \in RunId \ {r} : runs'[q] = runs[q]
      BY <1>a, <1>7 DEF Lift
    <2>2. runs'[r].pc = "done" /\ \A q \in RunId \ {r} : Group(q)' = Group(q)
      BY <2>1, Constants DEF Group, Addr
    <2>3. UNCHANGED <<journal, replay>>
      BY <1>7 DEF Lift, disk
    <2> QED  BY <2>1, <2>2, <2>3 DEF JournalInv, At, Live, Replayed, Of, Addr
  (* A step of the replay. *)
  <1>d. ASSUME UNCHANGED runs
        PROVE  \A q \in RunId : Group(q)' = Group(q) /\ Live(q)' = Live(q)
    BY <1>d, SameGroups DEF Live
  <1>8. CASE ReplayReads
    <2>1. \A r \in RunId : ~Live(r)
      BY <1>8 DEF ReplayReads, JournalInv
    <2>2. /\ replay'.answered = {} /\ replay'.todo \in {journal, replay.todo}
          /\ UNCHANGED <<runs, journal>>
      BY <1>8 DEF ReplayReads, TypeOK, Replay, DurableInv, disk
    <2> QED  BY <2>1, <2>2, <1>d DEF JournalInv, At, Live, Of, Addr
  <1>9. CASE ReplayNext
    <2>1. /\ replay'.todo = replay.todo /\ replay'.answered = {} /\ replay'.pc # "idle"
          /\ UNCHANGED <<runs, journal>>
      BY <1>9 DEF ReplayNext, TypeOK, Replay, DurableInv, disk
    <2> QED  BY <2>1, <1>d DEF JournalInv, At, Replayed, Of, Addr
  <1>10. ASSUME NEW u \in Uid, ReplayDeletes(u) PROVE JournalInv'
    <2> DEFINE m == <<replay.mbox, u>>
    <2>1. /\ replay'.todo = replay.todo \ {m} /\ replay'.mbox = replay.mbox
          /\ replay'.pc = replay.pc /\ m \in replay.todo
          /\ replay'.answered \in {replay.answered, replay.answered \cup {u}}
      BY <1>10 DEF ReplayDeletes, ReplayAttempts, TypeOK, Replay
    <2>2. UNCHANGED <<runs, journal>>
      BY <1>10 DEF ReplayDeletes, disk
    <2>3. Of(replay'.mbox, replay'.answered) \subseteq Of(replay.mbox, replay.answered) \cup {m}
      BY <2>1 DEF Of
    <2>4. Replayed' \subseteq Replayed
      BY <2>1, <2>3 DEF Replayed
    <2> HIDE DEF m
    <2> QED  BY <2>1, <2>2, <2>3, <2>4, <1>d DEF JournalInv, At, Addr
  <1>11. CASE ReplayClears
    <2>1. /\ replay'.todo = replay.todo /\ replay'.mbox = replay.mbox
          /\ replay'.answered = {} /\ replay'.pc # "idle"
      BY <1>11 DEF ReplayClears, TypeOK, Replay
    <2>2. journal' = journal \ Of(replay.mbox, replay.answered) /\ UNCHANGED runs
      BY <1>11 DEF ReplayClears
    <2>3. \A r \in RunId : At(r, "delete") => {Addr(r, u) : u \in runs[r].todo} \subseteq journal'
      <3> SUFFICES ASSUME NEW r \in RunId, At(r, "delete")
                   PROVE  {Addr(r, u) : u \in runs[r].todo} \subseteq journal'
        OBVIOUS
      <3>1. {Addr(r, u) : u \in runs[r].todo} \subseteq journal \cap Group(r)
        BY DEF JournalInv, Group, TypeOK
      <3>2. Group(r) \cap Of(replay.mbox, replay.answered) = {}
        BY DEF JournalInv, Live, At, Replayed
      <3> QED  BY <3>1, <3>2, <2>2
    <2> QED  BY <2>1, <2>2, <2>3, <1>d DEF JournalInv, At, Replayed, Of, Addr
  <1>12. CASE ReplayPrunes
    <2>1. /\ replay'.todo = replay.todo /\ replay'.mbox = replay.mbox
          /\ replay'.answered = replay.answered /\ replay'.pc # "idle"
          /\ UNCHANGED <<runs, journal>>
      BY <1>12 DEF ReplayPrunes, TypeOK, Replay
    <2> QED  BY <2>1, <1>d DEF JournalInv, At, Replayed, Of, Addr
  <1>13. CASE ReaderStep
    BY <1>13, <1>b DEF ReaderStep, LoadStarts, LoadFinds, LoadCommits, LoadEnds,
       DrainStarts, DrainReads, DrainCommits, DrainEnds, disk
  <1>14. ASSUME NEW mb \in Mailbox, Visit(mb) PROVE JournalInv'
    BY <1>14, <1>b DEF Visit, disk
  <1>15. CASE Crash
    <2>1. \A q \in RunId : ~Live(q)'
      BY <1>15, Constants DEF Crash, Live
    <2>2. replay'.answered = {} /\ replay'.todo = {} /\ UNCHANGED journal
      BY <1>15, Constants DEF Crash, disk
    <2> QED  BY <2>1, <2>2 DEF JournalInv, At, Live, Of
  <1>16. CASE UNCHANGED vars
    BY <1>16, <1>b DEF vars, disk
  <1> QED
    BY <1>1, <1>2, <1>3, <1>4, <1>5, <1>6, <1>7, <1>8, <1>9, <1>10, <1>11, <1>12,
       <1>13, <1>14, <1>15, <1>16 DEF Next, RunStep, ReplayStep

(* The addresses a deleting call has an answer for.                        *)
TriedBy(r) == IF At(r, "delete")
              THEN {Addr(r, u) : u \in runs[r].uids \ runs[r].todo} ELSE {}

LEMMA TriedAre ==
    ASSUME TypeOK
    PROVE  /\ Tried = (UNION {TriedBy(r) : r \in RunId}) \cup Of(replay.mbox, replay.answered)
           /\ \A r \in RunId : TriedBy(r) \subseteq Group(r)
           /\ \A r \in RunId : TriedBy(r) # {} => At(r, "delete")
  BY DEF Tried, TriedBy, Group

LEMMA TriedAreNext ==
    ASSUME TypeOK'
    PROVE  Tried' = (UNION {TriedBy(r)' : r \in RunId}) \cup Of(replay'.mbox, replay'.answered)
  BY DEF Tried, TriedBy

(* A step that changes none of it.                                         *)
LEMMA SameTried ==
    ASSUME TypeOK, TypeOK', \A r \in RunId : TriedBy(r)' = TriedBy(r),
           Of(replay'.mbox, replay'.answered) = Of(replay.mbox, replay.answered)
    PROVE  Tried' = Tried
  BY TriedAre, TriedAreNext

(* The addresses of a call are not among the answered ones, but for those  *)
(* the call itself has an answer for.                                      *)
LEMMA OwnTried ==
    ASSUME TypeOK, DurableInv, JournalInv, NEW r \in RunId, Live(r)
    PROVE  Group(r) \cap Tried = TriedBy(r)
  <1>1. \A q \in RunId \ {r} : TriedBy(q) \cap Group(r) = {}
    <2> TAKE q \in RunId \ {r}
    <2>1. CASE At(q, "delete")
      <3>1. Live(q)
        BY <2>1 DEF At, Live
      <3> QED  BY <3>1, TriedAre DEF DurableInv
    <2>2. CASE ~At(q, "delete")
      BY <2>2 DEF TriedBy
    <2> QED  BY <2>1, <2>2
  <1>2. Of(replay.mbox, replay.answered) \cap Group(r) = {}
    BY DEF JournalInv, Replayed
  <1> QED  BY <1>1, <1>2, TriedAre

(* A call outside its deletes moves on.                                    *)
LEMMA TriedStays ==
    ASSUME TypeOK, TypeOK', NEW r \in RunId, ~At(r, "delete"), UNCHANGED replay,
           ~At(r, "delete")' \/ runs'[r].uids = runs'[r].todo,
           \A q \in RunId \ {r} : runs'[q] = runs[q]
    PROVE  Tried' = Tried
  <1>1. \A q \in RunId : TriedBy(q)' = TriedBy(q)
    BY DEF TriedBy, At, Addr
  <1> QED  BY <1>1, SameTried

LEMMA JournalRefined ==
    ASSUME Unhurried, TypeOK, TypeOK', DurableInv, JournalInv, [Next]_vars
    PROVE  [J!Next]_(J!state)
  <1>a. runs \in [RunId -> Run]
    BY DEF TypeOK
  <1>b. ASSUME UNCHANGED <<server, journal, owed, Tried>> PROVE [J!Next]_(J!state)
    BY <1>b DEF J!state
  <1>c. ASSUME UNCHANGED <<runs, replay>> PROVE Tried' = Tried
    BY <1>c DEF Tried, At, Addr, Of
  <1>d. \A r \in RunId : Group(r) \in SUBSET Msg /\ \A u \in Uid : Addr(r, u) \in Msg
    BY <1>a, GroupType
  <1>1. ASSUME NEW r \in RunId, DeleteSelected(r) PROVE [J!Next]_(J!state)
    <2>1. PICK uids \in SUBSET UidsIn(Visible, view) :
             runs' = [runs EXCEPT ![r] =
                  [Unused EXCEPT !.pc = "queue", !.mbox = view, !.uids = uids,
                       !.todo = uids, !.snapRows = rows, !.snapTombs = tombs]]
      BY <1>1 DEF DeleteSelected
    <2>2. runs'[r].pc = "queue" /\ \A q \in RunId \ {r} : runs'[q] = runs[q]
      BY <2>1, <1>a, NewGroup
    <2>3. UNCHANGED <<server, journal, owed, replay>> /\ At(r, "unused")
      BY <1>1 DEF DeleteSelected, disk
    <2>4. Tried' = Tried
      BY <2>2, <2>3, TriedStays DEF At
    <2> QED  BY <2>3, <2>4, <1>b
  <1>2. ASSUME NEW r \in RunId, Queue(r) PROVE [J!Next]_(J!state)
    <2>1. /\ runs' = [runs EXCEPT ![r].pc = "hide"] /\ At(r, "queue")
          /\ journal' = journal \cup Group(r) /\ UNCHANGED <<server, owed, replay>>
      BY <1>2 DEF Queue, history
    <2>2. runs'[r].pc = "hide" /\ \A q \in RunId \ {r} : runs'[q] = runs[q]
      BY <2>1, MovesOn
    <2>3. Tried' = Tried
      BY <2>1, <2>2, TriedStays DEF At
    <2>4. Group(r) \cap Tried = {}
      BY <2>1, OwnTried DEF At, Live, TriedBy
    <2>5. J!Enter(Group(r))
      BY <2>1, <2>3, <2>4 DEF J!Enter
    <2> QED  BY <2>5, <1>d DEF J!Next
  <1>3. ASSUME NEW r \in RunId, Hide(r) PROVE [J!Next]_(J!state)
    <2>1. /\ runs' = [runs EXCEPT ![r].pc = "delete"] /\ At(r, "hide")
          /\ owed' = owed \cup Group(r) /\ UNCHANGED <<server, journal, replay>>
      BY <1>3 DEF Hide, disk
    <2>2. /\ runs'[r].todo = runs[r].todo /\ runs'[r].uids = runs[r].uids
          /\ \A q \in RunId \ {r} : runs'[q] = runs[q]
      BY <2>1, MovesOn
    <2>3. runs[r].todo = runs[r].uids /\ Group(r) \subseteq journal
      BY <2>1 DEF DurableInv, Waits
    <2>4. Tried' = Tried
      BY <2>1, <2>2, <2>3, TriedStays DEF At
    <2>5. Group(r) \cap Tried = {}
      BY <2>1, OwnTried DEF At, Live, TriedBy
    <2>6. J!Hide(Group(r))
      BY <2>1, <2>3, <2>4, <2>5 DEF J!Hide
    <2> QED  BY <2>6, <1>d DEF J!Next
  <1>4. ASSUME NEW r \in RunId, NEW u \in Uid, Delete(r, u) PROVE [J!Next]_(J!state)
    <2> DEFINE m == Addr(r, u)
    <2>1. /\ \A q \in RunId : runs'[q].mbox = runs[q].mbox /\ runs'[q].uids = runs[q].uids
                               /\ runs'[q].pc = runs[q].pc
          /\ runs'[r].todo = runs[r].todo \ {u}
          /\ \A q \in RunId \ {r} : runs'[q] = runs[q]
      BY <1>4, DeleteMoves
    <2>2. /\ At(r, "delete") /\ u \in runs[r].todo /\ owed' = owed \ {m}
          /\ server' \in {server, server \ {m}} /\ UNCHANGED <<journal, replay>>
      BY <1>4 DEF Delete, Deleted, Failed, disk
    <2>3. u \in runs[r].uids
      BY <2>2 DEF TypeOK
    <2>4. TriedBy(r)' = TriedBy(r) \cup {m}
      BY <2>1, <2>2, <2>3 DEF TriedBy, At, Addr
    <2>5. \A q \in RunId \ {r} : TriedBy(q)' = TriedBy(q)
      <3>1. \A q \in RunId \ {r} : runs'[q] = runs[q]
        BY <2>1
      <3> QED  BY <3>1 DEF TriedBy, At, Addr
    <2>6. Tried' = Tried \cup {m}
      <3> HIDE DEF m
      <3> QED  BY <2>2, <2>4, <2>5, TriedAre, TriedAreNext
    <2>7. m \in journal \ Tried
      <3>1. m \in journal
        BY <2>2 DEF JournalInv
      <3>2. m \in Group(r) /\ m \notin TriedBy(r)
        BY <2>2, <2>3 DEF Group, TriedBy, Addr
      <3> QED  BY <2>2, <3>1, <3>2, OwnTried DEF At, Live
    <2>8. J!Attempt(m)
      BY <2>2, <2>6, <2>7 DEF J!Attempt
    <2> QED  BY <2>8, <1>d DEF J!Next
  <1>5. ASSUME NEW r \in RunId, Clear(r) PROVE [J!Next]_(J!state)
    <2>1. /\ At(r, "delete") /\ runs[r].todo = {} /\ journal' = journal \ Group(r)
          /\ UNCHANGED <<server, owed, replay>>
      BY <1>5 DEF Clear, history
    <2>2. PICK pc \in {"reload", "prune"} : runs' = [runs EXCEPT ![r].pc = pc]
      BY <1>5 DEF Clear
    <2>3. runs'[r].pc = pc /\ \A q \in RunId \ {r} : runs'[q] = runs[q]
      BY <2>2, MovesOn
    <2>4. TriedBy(r) = Group(r) /\ TriedBy(r)' = {}
      BY <2>1, <2>3 DEF TriedBy, Group, At
    <2>5. \A q \in RunId \ {r} : TriedBy(q)' = TriedBy(q) /\ TriedBy(q) \cap Group(r) = {}
      <3> TAKE q \in RunId \ {r}
      <3>1. TriedBy(q)' = TriedBy(q)
        BY <2>3 DEF TriedBy, At, Addr
      <3>2. TriedBy(q) # {} => Live(q)
        BY DEF TriedBy, At, Live
      <3>3. Live(r)
        BY <2>1 DEF At, Live
      <3> QED  BY <3>1, <3>2, <3>3, TriedAre DEF DurableInv
    <2>6. Of(replay.mbox, replay.answered) \cap Group(r) = {}
      BY <2>1 DEF JournalInv, Replayed, At, Live
    <2>7. Group(r) \subseteq Tried /\ Tried' = Tried \ Group(r)
      BY <2>1, <2>4, <2>5, <2>6, TriedAre, TriedAreNext
    <2>8. J!Strike(Group(r))
      BY <2>1, <2>7 DEF J!Strike
    <2> QED  BY <2>8, <1>d DEF J!Next
  <1>6. ASSUME NEW r \in RunId, Prune(r) \/ Reload(r) PROVE [J!Next]_(J!state)
    <2>1. PICK pc \in {"reload", "lift"} : runs' = [runs EXCEPT ![r].pc = pc]
      BY <1>6 DEF Prune, Reload
    <2>2. /\ runs[r].pc \in {"prune", "reload"}
          /\ UNCHANGED <<server, journal, owed, replay>>
      BY <1>6 DEF Prune, Reload, At, disk, history
    <2>3. runs'[r].pc = pc /\ \A q \in RunId \ {r} : runs'[q] = runs[q]
      BY <2>1, MovesOn
    <2>4. Tried' = Tried
      BY <2>2, <2>3, TriedStays DEF At
    <2> QED  BY <2>2, <2>4, <1>b
  <1>7. ASSUME NEW r \in RunId, Lift(r) PROVE [J!Next]_(J!state)
    <2>1. runs'[r].pc = "done" /\ \A q \in RunId \ {r} : runs'[q] = runs[q]
      BY <1>a, <1>7, Constants DEF Lift
    <2>2. At(r, "lift") /\ UNCHANGED <<server, journal, owed, replay>>
      BY <1>7 DEF Lift, disk, history
    <2>3. Tried' = Tried
      BY <2>1, <2>2, TriedStays DEF At
    <2> QED  BY <2>2, <2>3, <1>b
  (* A step of the replay. *)
  <1>e. ASSUME UNCHANGED runs PROVE \A q \in RunId : TriedBy(q)' = TriedBy(q)
    BY <1>e DEF TriedBy, At, Addr
  <1>8. CASE ReplayReads \/ ReplayNext \/ ReplayPrunes
    <2>1. /\ UNCHANGED <<server, journal, owed, runs>>
          /\ \/ replay'.mbox = replay.mbox /\ replay'.answered = replay.answered
             \/ replay'.answered = {} /\ replay.answered = {}
      BY <1>8 DEF ReplayReads, ReplayNext, ReplayPrunes, TypeOK, Replay, DurableInv, disk, history
    <2>2. Of(replay'.mbox, replay'.answered) = Of(replay.mbox, replay.answered)
      BY <2>1 DEF Of
    <2>3. Tried' = Tried
      BY <2>1, <2>2, <1>e, SameTried
    <2> QED  BY <2>1, <2>3, <1>b
  <1>9. ASSUME NEW u \in Uid, ReplayDeletes(u) PROVE [J!Next]_(J!state)
    <2> DEFINE m == <<replay.mbox, u>>
    <2>1. m \in replay.todo /\ replay'.mbox = replay.mbox /\ UNCHANGED <<journal, runs>>
      BY <1>9 DEF ReplayDeletes, ReplayAttempts, TypeOK, Replay, disk
    <2>2. \/ /\ server' \in {server, server \ {m}} /\ owed' = owed \ {m}
             /\ replay'.answered = replay.answered \cup {u}
          \/ UNCHANGED <<server, owed>> /\ replay'.answered = replay.answered
      BY <1>9 DEF ReplayDeletes, ReplayAttempts, TypeOK, Replay
    <2>3. CASE UNCHANGED <<server, owed>> /\ replay'.answered = replay.answered
      <3>1. Tried' = Tried
        BY <2>1, <2>3, <1>e, SameTried
      <3> QED  BY <2>1, <2>3, <3>1, <1>b
    <2>4. CASE /\ server' \in {server, server \ {m}} /\ owed' = owed \ {m}
               /\ replay'.answered = replay.answered \cup {u}
      <3>1. Of(replay'.mbox, replay'.answered) = Of(replay.mbox, replay.answered) \cup {m}
        BY <2>1, <2>4 DEF Of
      <3>2. m \in Msg /\ m \in journal
        BY <2>1 DEF JournalInv, TypeOK, Replay
      <3>3. m \notin Tried
        <4>1. m \notin Of(replay.mbox, replay.answered)
          BY <2>1 DEF JournalInv
        <4>2. \A q \in RunId : m \notin TriedBy(q)
          <5> TAKE q \in RunId
          <5>1. TriedBy(q) # {} => Live(q)
            BY DEF TriedBy, At, Live
          <5>2. Live(q) => m \notin Group(q)
            BY <2>1 DEF JournalInv, Replayed
          <5> QED  BY <5>1, <5>2, TriedAre
        <4> HIDE DEF m
        <4> QED  BY <4>1, <4>2, TriedAre
      <3>4. Tried' = Tried \cup {m}
        <4> HIDE DEF m
        <4> QED  BY <2>1, <3>1, <1>e, TriedAre, TriedAreNext
      <3>5. J!Attempt(m)
        BY <2>1, <2>4, <3>2, <3>3, <3>4 DEF J!Attempt
      <3> QED  BY <3>2, <3>5 DEF J!Next
    <2> QED  BY <2>2, <2>3, <2>4
  <1>10. CASE ReplayClears
    <2> DEFINE S == Of(replay.mbox, replay.answered)
    <2>1. /\ replay'.answered = {} /\ journal' = journal \ S
          /\ UNCHANGED <<server, owed, runs>>
      BY <1>10 DEF ReplayClears, TypeOK, Replay, history
    <2>2. S \in SUBSET Msg
      BY Sets DEF TypeOK, Replay
    <2>3. Of(replay'.mbox, replay'.answered) = {}
      BY <2>1 DEF Of
    <2>4. \A q \in RunId : TriedBy(q)' = TriedBy(q) /\ TriedBy(q) \cap S = {}
      <3> TAKE q \in RunId
      <3>1. TriedBy(q) # {} => Live(q)
        BY DEF TriedBy, At, Live
      <3>2. Live(q) => S \cap Group(q) = {}
        BY DEF JournalInv, Replayed
      <3> HIDE DEF S
      <3> QED  BY <2>1, <3>1, <3>2, <1>e, TriedAre
    <2>5. S \subseteq Tried /\ Tried' = Tried \ S
      BY <2>1, <2>3, <2>4, TriedAre, TriedAreNext
    <2>6. J!Strike(S)
      BY <2>1, <2>5 DEF J!Strike
    <2> QED  BY <2>2, <2>6 DEF J!Next
  <1>11. CASE ReaderStep
    BY <1>11, <1>b, <1>c DEF ReaderStep, LoadStarts, LoadFinds, LoadCommits, LoadEnds,
       DrainStarts, DrainReads, DrainCommits, DrainEnds, disk, history
  <1>12. ASSUME NEW mb \in Mailbox, Visit(mb) PROVE [J!Next]_(J!state)
    BY <1>12, <1>b, <1>c DEF Visit, disk, history
  <1>13. CASE Crash
    <2>1. \A q \in RunId : ~At(q, "delete")'
      BY <1>13, Constants DEF Crash, Live, At
    <2>2. replay'.answered = {} /\ UNCHANGED <<server, journal, owed>>
      BY <1>13, Constants DEF Crash, disk
    <2>3. Tried' = {}
      BY <2>1, <2>2 DEF Tried, Of
    <2> QED  BY <2>2, <2>3 DEF J!Quit, J!Next
  <1>14. CASE UNCHANGED vars
    BY <1>14, <1>b, <1>c DEF vars, disk, history
  <1> QED
    BY <1>1, <1>2, <1>3, <1>4, <1>5, <1>6, <1>7, <1>8, <1>9, <1>10, <1>11, <1>12,
       <1>13, <1>14 DEF Next, RunStep, ReplayStep

(* The calls, the replay and the crashes together implement the journal:   *)
(* an entry before anything is hidden, a delete only of what is entered,   *)
(* an entry struck out only when the server has answered for it, whatever  *)
(* the number of calls and crashes, provided the user is not ahead of the  *)
(* writes and repeats no unfinished delete.                                *)
THEOREM JournalImplemented ==
    ASSUME Unhurried
    PROVE  Spec => ImplementsJournal
  <1>1. Init => J!Init
    <2>1. Init => Tried = {}
      BY DEF Init, Tried, Unused, Launched, At, Of
    <2> QED  BY <2>1 DEF Init, J!Init
  <1>2. TypeOK /\ DurableInv /\ [Next]_vars => DurableInv'
    BY DurableStep
  <1>3. TypeOK /\ DurableInv /\ JournalInv /\ [Next]_vars => JournalInv'
    BY JournalStep
  <1>4. TypeOK /\ TypeOK' /\ DurableInv /\ JournalInv /\ [Next]_vars => [J!Next]_(J!state)
    BY JournalRefined
  <1> QED
    BY <1>1, <1>2, <1>3, <1>4, Typing, DurableInit, JournalInit, PTL
       DEF Spec, ImplementsJournal, J!Spec

(* What the journal promises, for every set of messages: what is hidden is *)
(* entered and unanswered, and a message leaves the server only while it   *)
(* is entered.  (messageMutations.js:559, 577-590, 677)                    *)
THEOREM JournalPromises == J!Spec => []J!Kept /\ J!WriteAhead
  <1>1. J!Init => J!Kept
    BY DEF J!Init, J!Kept
  <1>2. J!Kept /\ [J!Next]_(J!state) => J!Kept'
    <2> SUFFICES ASSUME J!Kept, [J!Next]_(J!state) PROVE J!Kept'
      OBVIOUS
    <2>1. ASSUME NEW S \in SUBSET Msg, J!Enter(S) \/ J!Hide(S) \/ J!Strike(S) PROVE J!Kept'
      BY <2>1 DEF J!Enter, J!Hide, J!Strike, J!Kept
    <2>2. ASSUME NEW m \in Msg, J!Attempt(m) PROVE J!Kept'
      BY <2>2 DEF J!Attempt, J!Kept
    <2>3. CASE J!Quit
      BY <2>3 DEF J!Quit, J!Kept
    <2>4. CASE UNCHANGED J!state
      BY <2>4 DEF J!state, J!Kept
    <2> QED  BY <2>1, <2>2, <2>3, <2>4 DEF J!Next
  <1>3. [J!Next]_(J!state) =>
          [\A m \in Msg : m \in server \ server' => m \in journal]_(J!state)
    BY DEF J!Next, J!Enter, J!Hide, J!Attempt, J!Strike, J!Quit, J!state
  <1> QED  BY <1>1, <1>2, <1>3, PTL DEF J!Spec, J!WriteAhead

(* So do the calls, the replay and the crashes: a message that is shown as *)
(* deleted and not yet answered is in the journal and left to try, and     *)
(* nothing leaves the server but through the journal.                      *)
THEOREM PromisesKept ==
    ASSUME Unhurried
    PROVE  Spec => []J!Kept /\ J!WriteAhead
  BY JournalImplemented, JournalPromises DEF ImplementsJournal

-----------------------------------------------------------------------------
(* What this session deleted stays hidden.                                 *)

(* Whatever was deleted has its tombstone, in the store and in the copy of *)
(* it that a waiting call will put back; what a call has still to delete   *)
(* has it too, and is nothing this session deleted before.                 *)
HiddenInv ==
    /\ \A m \in erased : m \in tombs \/ m[2] \in ArchivedUids
    /\ \A r \in RunId : Waits(r) =>
          \A m \in erased : m \in runs[r].snapTombs \/ m[2] \in ArchivedUids
    /\ \A r \in RunId : At(r, "delete") => \A u \in runs[r].todo : Addr(r, u) \in tombs
    /\ \A r, q \in RunId : Waits(r) /\ At(q, "delete") =>
          \A u \in runs[q].todo : Addr(q, u) \in runs[r].snapTombs
    /\ \A r \in RunId : Live(r) =>
          \A u \in runs[r].todo : Addr(r, u) \in erased => u \in ArchivedUids
    /\ \A r, q \in RunId : Waits(r) /\ Waits(q) => r = q
    /\ \A r \in RunId : runs[r].lifts \subseteq ArchivedUids

LEMMA HiddenInit == Init => HiddenInv
  BY DEF Init, HiddenInv, Unused, At, Live, Waits

(* A call's moves leave its snapshot and what it will lift alone.          *)
LEMMA MoveKeeps ==
    ASSUME TypeOK, NEW r \in RunId,
           NEW pc \in {"hide", "delete", "prune", "reload", "lift"},
           runs' = [runs EXCEPT ![r].pc = pc]
    PROVE  \A q \in RunId : runs'[q].lifts = runs[q].lifts /\ runs'[q].snapTombs = runs[q].snapTombs
  BY DEF TypeOK, Run

(* A call that moves on between two awaits, the tombstones left alone.     *)
LEMMA HiddenMoves ==
    ASSUME TypeOK, HiddenInv, NEW r \in RunId,
           NEW pc \in {"hide", "prune", "reload", "lift"},
           runs' = [runs EXCEPT ![r].pc = pc],
           Live(r), pc = "hide" => Waits(r), UNCHANGED <<tombs, erased>>
    PROVE  HiddenInv'
  <1>1. /\ \A q \in RunId : /\ runs'[q].todo = runs[q].todo
                            /\ runs'[q].mbox = runs[q].mbox
        /\ runs'[r].pc = pc
        /\ \A q \in RunId \ {r} : runs'[q] = runs[q]
    BY MovesOn
  <1>2. \A q \in RunId : runs'[q].lifts = runs[q].lifts /\ runs'[q].snapTombs = runs[q].snapTombs
    BY MoveKeeps
  <1>3. \A q \in RunId : /\ Waits(q)' => Waits(q)
                         /\ At(q, "delete")' => At(q, "delete")
                         /\ Live(q)' => Live(q)
    BY <1>1 DEF Waits, At, Live
  <1>4. \A q \in RunId, u \in Uid : Addr(q, u)' = Addr(q, u)
    BY <1>1 DEF Addr
  <1>5. \A q \in RunId : runs[q].todo \subseteq Uid
    BY DEF TypeOK, Run
  <1> QED  BY <1>1, <1>2, <1>3, <1>4, <1>5 DEF HiddenInv

(* No address is left to try by two calls.                                 *)
LEMMA OneTries ==
    ASSUME TypeOK, DurableInv, NEW r \in RunId, NEW q \in RunId, r # q, Live(r), Live(q),
           NEW u \in runs[r].uids, NEW v \in runs[q].uids
    PROVE  Addr(r, u) # Addr(q, v)
  <1>1. Addr(r, u) \in Group(r) /\ Addr(q, v) \in Group(q)
    BY DEF Group
  <1> QED  BY <1>1 DEF DurableInv

LEMMA HiddenStep ==
    ASSUME Unhurried, TypeOK, DurableInv, HiddenInv, [Next]_vars
    PROVE  HiddenInv'
  <1>a. runs \in [RunId -> Run]
    BY DEF TypeOK
  <1>b. ASSUME UNCHANGED <<runs, tombs, erased>> PROVE HiddenInv'
    BY <1>b DEF HiddenInv, Addr, At, Live, Waits
  <1>t. \A q \in RunId : runs[q].todo \subseteq runs[q].uids /\ runs[q].uids \subseteq Uid
    BY DEF TypeOK, Run
  <1>1. ASSUME NEW r \in RunId, DeleteSelected(r) PROVE HiddenInv'
    <2>1. PICK uids \in SUBSET UidsIn(Visible, view) :
             runs' = [runs EXCEPT ![r] =
                  [Unused EXCEPT !.pc = "queue", !.mbox = view, !.uids = uids,
                       !.todo = uids, !.snapRows = rows, !.snapTombs = tombs]]
      BY <1>1 DEF DeleteSelected
    <2>2. /\ runs'[r].mbox = view /\ runs'[r].todo = uids /\ runs'[r].pc = "queue"
          /\ runs'[r].snapTombs = tombs /\ runs'[r].lifts = {}
          /\ \A q \in RunId \ {r} : runs'[q] = runs[q]
      BY <2>1, <1>a DEF Unused
    <2>3. UNCHANGED <<tombs, erased>> /\ \A q \in RunId : ~Waits(q)
      BY <1>1 DEF DeleteSelected, Quiet, Unhurried, Waits, list
    <2>4. \A u \in uids : <<view, u>> \notin tombs
      BY <2>1 DEF UidsIn, Visible
    <2>5. \A u \in uids : Addr(r, u)' \in erased => u \in ArchivedUids
      BY <2>2, <2>4 DEF HiddenInv, Addr
    <2> QED  BY <2>2, <2>3, <2>5 DEF HiddenInv, At, Live, Waits, Addr
  <1>2. ASSUME NEW r \in RunId, Queue(r) PROVE HiddenInv'
    BY <1>2, HiddenMoves DEF Queue, At, Live, Waits, list, history
  <1>3. ASSUME NEW r \in RunId, Hide(r) PROVE HiddenInv'
    <2>1. /\ runs' = [runs EXCEPT ![r].pc = "delete"] /\ At(r, "hide")
          /\ tombs' = runs[r].snapTombs \cup Group(r) /\ UNCHANGED erased
      BY <1>3 DEF Hide
    <2>2. /\ \A q \in RunId : /\ runs'[q].todo = runs[q].todo
                               /\ runs'[q].mbox = runs[q].mbox
          /\ runs'[r].pc = "delete"
          /\ \A q \in RunId \ {r} : runs'[q] = runs[q]
      BY <2>1, MovesOn
    <2>3. \A q \in RunId : runs'[q].lifts = runs[q].lifts
      BY <2>1, MoveKeeps
    <2>4. Waits(r) /\ Live(r)
      BY <2>1 DEF Waits, At, Live
    <2>5. \A q \in RunId : ~Waits(q)' /\ (Live(q)' => Live(q))
      BY <2>2, <2>4 DEF HiddenInv, Waits, At, Live
    <2>6. \A q \in RunId : At(q, "delete")' => \A u \in runs'[q].todo : Addr(q, u)' \in tombs'
      <3> SUFFICES ASSUME NEW q \in RunId, At(q, "delete")', NEW u \in runs'[q].todo
                   PROVE  Addr(q, u)' \in tombs'
        OBVIOUS
      <3>1. Addr(q, u)' = Addr(q, u) /\ u \in runs[q].todo
        BY <2>2 DEF Addr
      <3>2. CASE q = r
        BY <3>1, <3>2, <2>1, <1>t DEF Group
      <3>3. CASE q # r
        <4>1. At(q, "delete")
          BY <3>3, <2>2 DEF At
        <4> QED  BY <4>1, <3>1, <2>1, <2>4 DEF HiddenInv
      <3> QED  BY <3>2, <3>3
    <2>7. \A m \in erased' : m \in tombs' \/ m[2] \in ArchivedUids
      BY <2>1, <2>4 DEF HiddenInv
    <2> QED  BY <2>1, <2>2, <2>3, <2>5, <2>6, <2>7 DEF HiddenInv, Addr
  <1>4. ASSUME NEW r \in RunId, NEW u \in Uid, Delete(r, u) PROVE HiddenInv'
    <2>1. /\ \A q \in RunId : runs'[q].mbox = runs[q].mbox /\ runs'[q].pc = runs[q].pc
          /\ runs'[r].todo = runs[r].todo \ {u}
          /\ \A q \in RunId \ {r} : runs'[q] = runs[q]
      BY <1>4, DeleteMoves
    <2>2. At(r, "delete") /\ Live(r) /\ u \in runs[r].todo
      BY <1>4 DEF Delete, At, Live
    <2>3. \A q \in RunId : /\ Waits(q)' = Waits(q) /\ At(q, "delete")' = At(q, "delete")
                           /\ Live(q)' = Live(q)
      BY <2>1 DEF Waits, At, Live
    <2>4. runs'[r].snapTombs = runs[r].snapTombs /\ runs'[r].lifts \subseteq ArchivedUids
      <3>1. CASE Failed(r, u)
        BY <3>1, <1>a DEF Failed, HiddenInv, Run
      <3>2. CASE Deleted(r, u)
        <4>1. runs'[r].snapTombs = runs[r].snapTombs
          BY <3>2, <1>a DEF Deleted, Run
        <4>2. runs'[r].lifts = IF <<view, u>> \in Archived THEN runs[r].lifts \cup {u}
                                                            ELSE runs[r].lifts
          BY <3>2, <1>a DEF Deleted, Run
        <4>3. <<view, u>> \in Archived => u \in ArchivedUids
          BY DEF ArchivedUids
        <4> QED  BY <4>1, <4>2, <4>3 DEF HiddenInv
      <3> QED  BY <3>1, <3>2, <1>4 DEF Delete
    <2>5. \A q \in RunId, v \in Uid : Addr(q, v)' = Addr(q, v)
      BY <2>1 DEF Addr
    <2>6. \A q \in RunId, v \in Uid :
             Live(q) /\ v \in runs'[q].todo => Addr(q, v) # Addr(r, u) /\ v \in runs[q].todo
      <3> SUFFICES ASSUME NEW q \in RunId, NEW v \in Uid, Live(q), v \in runs'[q].todo
                   PROVE  Addr(q, v) # Addr(r, u) /\ v \in runs[q].todo
        OBVIOUS
      <3>1. CASE q = r
        BY <3>1, <2>1 DEF Addr
      <3>2. CASE q # r
        BY <3>2, <2>1, <2>2, <1>t, OneTries
      <3> QED  BY <3>1, <3>2
    <2>7. CASE Failed(r, u)
      <3>1. tombs' = tombs \ {Addr(r, u)} /\ UNCHANGED erased
        BY <2>7 DEF Failed
      <3>2. \A m \in erased' : m \in tombs' \/ m[2] \in ArchivedUids
        BY <3>1, <2>2 DEF HiddenInv, Addr
      <3>3. \A q \in RunId : At(q, "delete")' => \A v \in runs'[q].todo : Addr(q, v)' \in tombs'
        <4> SUFFICES ASSUME NEW q \in RunId, At(q, "delete"), NEW v \in runs'[q].todo
                     PROVE  Addr(q, v)' \in tombs'
          BY <2>3
        <4>1. Live(q) /\ v \in Uid
          BY <2>1, <1>t DEF At, Live
        <4> QED  BY <4>1, <3>1, <2>5, <2>6 DEF HiddenInv
      <3>4. \A q \in RunId : runs'[q].todo \subseteq runs[q].todo /\ runs'[q].todo \subseteq Uid
        BY <2>1, <1>t
      <3> QED  BY <3>1, <3>2, <3>3, <3>4, <2>1, <2>3, <2>4, <2>5 DEF HiddenInv
    <2>8. CASE Deleted(r, u)
      <3>1. erased' = erased \cup {Addr(r, u)} /\ UNCHANGED tombs
        BY <2>8 DEF Deleted
      <3>2. \A m \in erased' : m \in tombs' \/ m[2] \in ArchivedUids
        BY <3>1, <2>2 DEF HiddenInv
      <3>3. \A q \in RunId : Waits(q)' =>
               \A m \in erased' : m \in runs'[q].snapTombs \/ m[2] \in ArchivedUids
        <4> SUFFICES ASSUME NEW q \in RunId, Waits(q), NEW m \in erased'
                     PROVE  m \in runs'[q].snapTombs \/ m[2] \in ArchivedUids
          BY <2>3
        <4>1. runs'[q].snapTombs = runs[q].snapTombs
          BY <2>1, <2>4
        <4> QED  BY <4>1, <3>1, <2>2 DEF HiddenInv
      <3>4. \A q \in RunId : runs'[q].todo \subseteq runs[q].todo /\ runs'[q].todo \subseteq Uid
        BY <2>1, <1>t
      <3>5. \A q \in RunId : Live(q)' =>
               \A v \in runs'[q].todo : Addr(q, v)' \in erased' => v \in ArchivedUids
        BY <3>1, <3>4, <2>3, <2>5, <2>6 DEF HiddenInv
      <3> QED  BY <3>1, <3>2, <3>3, <3>4, <3>5, <2>1, <2>3, <2>4, <2>5 DEF HiddenInv
    <2> QED  BY <1>4, <2>7, <2>8 DEF Delete
  <1>5. ASSUME NEW r \in RunId, Clear(r) PROVE HiddenInv'
    <2>1. At(r, "delete") /\ UNCHANGED <<tombs, erased>>
      BY <1>5 DEF Clear, list, history
    <2>2. PICK pc \in {"reload", "prune"} : runs' = [runs EXCEPT ![r].pc = pc]
      BY <1>5 DEF Clear
    <2> QED  BY <2>1, <2>2, HiddenMoves DEF At, Live
  <1>6. ASSUME NEW r \in RunId, Prune(r) \/ Reload(r) PROVE HiddenInv'
    <2>1. At(r, "prune") \/ At(r, "reload")
      BY <1>6 DEF Prune, Reload
    <2>2. PICK pc \in {"reload", "lift"} : runs' = [runs EXCEPT ![r].pc = pc]
      BY <1>6 DEF Prune, Reload
    <2>3. UNCHANGED <<tombs, erased>>
      BY <1>6 DEF Prune, Reload, list, history
    <2> QED  BY <2>1, <2>2, <2>3, HiddenMoves DEF At, Live
  <1>7. ASSUME NEW r \in RunId, Lift(r) PROVE HiddenInv'
    <2>1. runs'[r] = Over /\ \A q \in RunId \ {r} : runs'[q] = runs[q]
      BY <1>a, <1>7 DEF Lift
    <2>2. /\ tombs' = tombs \ {Addr(r, u) : u \in runs[r].lifts} /\ UNCHANGED erased
          /\ Live(r)
      BY <1>7 DEF Lift, history, At, Live
    <2>3. /\ runs'[r].pc = "done" /\ runs'[r].lifts = {}
      BY <2>1, Constants
    <2>4. \A q \in RunId : /\ Waits(q)' => q # r /\ Waits(q)
                           /\ At(q, "delete")' => q # r /\ At(q, "delete")
                           /\ Live(q)' => q # r /\ Live(q)
      BY <2>1, <2>3 DEF Waits, At, Live
    <2>5. \A q \in RunId \ {r}, u \in Uid : Addr(q, u)' = Addr(q, u)
      BY <2>1 DEF Addr
    <2>6. \A m \in erased' : m \in tombs' \/ m[2] \in ArchivedUids
      BY <2>2 DEF HiddenInv, Addr
    <2>7. \A q \in RunId : At(q, "delete")' => \A v \in runs'[q].todo : Addr(q, v)' \in tombs'
      <3> SUFFICES ASSUME NEW q \in RunId \ {r}, At(q, "delete"), NEW v \in runs[q].todo
                   PROVE  Addr(q, v)' \in tombs'
        BY <2>1, <2>4
      <3>1. Live(q) /\ v \in runs[q].uids /\ v \in Uid
        BY <1>t DEF At, Live
      <3>2. \A u \in runs[r].lifts : Addr(r, u) # Addr(q, v)
        BY <3>1, <2>2, OneTries DEF TypeOK
      <3> QED  BY <3>1, <3>2, <2>2, <2>5 DEF HiddenInv
    <2> QED  BY <2>1, <2>2, <2>3, <2>4, <2>5, <2>6, <2>7, <1>t DEF HiddenInv
  <1>8. CASE ReplayStep
    BY <1>8, <1>b DEF ReplayStep, ReplayReads, ReplayNext, ReplayClears, ReplayPrunes,
       ReplayDeletes, list, history
  <1>9. CASE ReaderStep
    BY <1>9, <1>b DEF ReaderStep, LoadStarts, LoadFinds, LoadCommits, LoadEnds,
       DrainStarts, DrainReads, DrainCommits, DrainEnds, list, history
  <1>10. ASSUME NEW mb \in Mailbox, Visit(mb) PROVE HiddenInv'
    BY <1>10, <1>b DEF Visit, history
  <1>11. CASE Crash
    <2>1. \A q \in RunId : ~Live(q)' /\ ~Waits(q)' /\ ~At(q, "delete")'
      BY <1>11, Constants DEF Crash, Live, Waits, At
    <2>2. erased' = {} /\ \A q \in RunId : runs'[q].lifts \subseteq runs[q].lifts
      BY <1>11, Constants DEF Crash
    <2> QED  BY <2>1, <2>2 DEF HiddenInv
  <1>12. CASE UNCHANGED vars
    BY <1>12, <1>b DEF vars, list, history
  <1> QED
    BY <1>1, <1>2, <1>3, <1>4, <1>5, <1>6, <1>7, <1>8, <1>9, <1>10, <1>11, <1>12
       DEF Next, RunStep

(* No refresh, visit or other call shows again what this session deleted   *)
(* and no vault has under that UID: for every number of calls, crashes and *)
(* refreshes, provided the user is not ahead of the writes and repeats no  *)
(* unfinished delete.                                                      *)
THEOREM DeletedStaysGone ==
    ASSUME Unhurried
    PROVE  Spec => []NoResurrection
  <1>1. HiddenInv => NoResurrection
    BY DEF HiddenInv, NoResurrection, Visible
  <1>2. TypeOK /\ DurableInv /\ [Next]_vars => DurableInv'
    BY DurableStep
  <1>3. TypeOK /\ DurableInv /\ HiddenInv /\ [Next]_vars => HiddenInv'
    BY HiddenStep
  <1> QED  BY <1>1, <1>2, <1>3, Typing, DurableInit, HiddenInit, PTL DEF Spec

-----------------------------------------------------------------------------
(* What a write of the header cache takes out.  A refresh takes out what   *)
(* the server no longer has; a call and the replay only what was chosen:   *)
(* the replay's removals are of the mailbox it is at.                      *)
CachedInv ==
    /\ UntouchedStayCached
    /\ load.pc = "found" => Of(load.mbox, load.base \ load.uids) \cap server = {}
    /\ Of(replay.mbox, replay.removed) \subseteq selected
    /\ replay.pc \in {"idle", "next", "done"} => replay.removed = {}

LEMMA CachedInit == Init => CachedInv
  BY DEF Init, CachedInv, UntouchedStayCached, Launched, NoLoad, Of

(* The server only loses messages, and what was chosen stays chosen.       *)
LEMMA OnlyShrinks ==
    ASSUME Next PROVE server' \subseteq server /\ selected \subseteq selected'
  <1>1. ASSUME NEW r \in RunId, DeleteSelected(r) \/ RunStep(r)
        PROVE  server' \subseteq server /\ selected \subseteq selected'
    BY <1>1 DEF DeleteSelected, RunStep, Queue, Hide, Delete, Deleted, Failed, Clear,
       Prune, Reload, Lift, history
  <1>2. CASE ReplayStep
    BY <1>2 DEF ReplayStep, ReplayReads, ReplayNext, ReplayDeletes, ReplayClears,
       ReplayPrunes, history
  <1>3. CASE ReaderStep
    BY <1>3 DEF ReaderStep, LoadStarts, LoadFinds, LoadCommits, LoadEnds, DrainStarts,
       DrainReads, DrainCommits, DrainEnds, history
  <1>4. ASSUME NEW mb \in Mailbox, Visit(mb)
        PROVE  server' \subseteq server /\ selected \subseteq selected'
    BY <1>4 DEF Visit, history
  <1>5. CASE Crash
    BY <1>5 DEF Crash
  <1> QED  BY <1>1, <1>2, <1>3, <1>4, <1>5 DEF Next

(* What the replay removed from its mailbox was journalled, so chosen.     *)
LEMMA ReplayRemoves ==
    ASSUME TypeOK, ChosenInv, CachedInv, ReplayStep
    PROVE  /\ Of(replay'.mbox, replay'.removed) \subseteq selected
           /\ replay'.pc \in {"idle", "next", "done"} => replay'.removed = {}
  <1>t. replay \in Replay
    BY DEF TypeOK
  <1>1. CASE ReplayReads
    BY <1>1, <1>t DEF ReplayReads, Replay, CachedInv
  <1>2. CASE ReplayNext
    BY <1>2, <1>t DEF ReplayNext, Replay, CachedInv, Of
  <1>3. ASSUME NEW u \in Uid, ReplayDeletes(u)
        PROVE  /\ Of(replay'.mbox, replay'.removed) \subseteq selected
               /\ replay'.pc \in {"idle", "next", "done"} => replay'.removed = {}
    <2>1. /\ replay'.mbox = replay.mbox /\ replay'.pc = "delete"
          /\ replay'.removed \subseteq replay.removed \cup {u}
      BY <1>3, <1>t DEF ReplayDeletes, ReplayAttempts, Replay
    <2>2. <<replay.mbox, u>> \in selected
      BY <1>3 DEF ReplayDeletes, ChosenInv
    <2> QED  BY <2>1, <2>2 DEF CachedInv, Of
  <1>4. CASE ReplayClears
    <2>1. /\ replay'.mbox = replay.mbox /\ replay'.removed = replay.removed
          /\ replay'.pc = IF replay.removed = {} THEN "next" ELSE "prune"
      BY <1>4, <1>t DEF ReplayClears, Replay
    <2> QED  BY <2>1 DEF CachedInv
  <1>5. CASE ReplayPrunes
    <2>1. replay'.removed = {}
      BY <1>5, <1>t DEF ReplayPrunes, Replay
    <2> QED  BY <2>1 DEF Of
  <1> QED  BY <1>1, <1>2, <1>3, <1>4, <1>5 DEF ReplayStep

(* A refresh misses only what the server does not have.                    *)
LEMMA LoadMisses ==
    ASSUME TypeOK, LoadFinds
    PROVE  /\ load'.mbox = load.mbox /\ load'.base = load.base
           /\ Of(load.mbox, load.base \ load'.uids) \cap server = {}
  <1> DEFINE found == UidsIn(server, load.mbox)
             listed == IF load.base = {} THEN found ELSE load.base \cap found
  <1>1. PICK uids \in {listed, load.base} : load' = [load EXCEPT !.pc = "found", !.uids = uids]
    BY DEF LoadFinds
  <1>2. load'.mbox = load.mbox /\ load'.base = load.base /\ load'.uids = uids
    BY <1>1 DEF TypeOK, Load
  <1>3. load.base \subseteq Uid
    BY DEF TypeOK, Load
  <1>4. \A u \in load.base \ uids : <<load.mbox, u>> \notin server
    BY <1>3 DEF UidsIn
  <1> QED  BY <1>2, <1>4 DEF Of

LEMMA CachedStep == TypeOK /\ ChosenInv /\ CachedInv /\ [Next]_vars => CachedInv'
  <1> SUFFICES ASSUME TypeOK, ChosenInv, CachedInv, Next PROVE CachedInv'
    BY DEF vars, disk, list, readers, history, bounds, CachedInv, UntouchedStayCached
  <1>s. server' \subseteq server /\ selected \subseteq selected'
    BY OnlyShrinks
  <1>1. ASSUME NEW r \in RunId, DeleteSelected(r) \/ RunStep(r) PROVE CachedInv'
    <2>1. UNCHANGED replay
      BY <1>1 DEF DeleteSelected, RunStep, Queue, Hide, Delete, Clear, Prune, Reload, Lift
    <2>2. CASE Prune(r)
      <3>1. {Addr(r, u) : u \in runs[r].deleted} \subseteq selected
        BY DEF ChosenInv, Group, TypeOK
      <3>2. sidecar \ {Addr(r, u) : u \in runs[r].deleted} \subseteq sidecar'
        BY <2>2 DEF Prune
      <3>3. UNCHANGED <<server, selected, load>>
        BY <2>2 DEF Prune, readers, history
      <3> QED  BY <2>1, <3>1, <3>2, <3>3 DEF CachedInv, UntouchedStayCached
    <2>3. CASE ~Prune(r)
      <3>1. CASE DeleteSelected(r)
        BY <3>1, <1>s, <2>1 DEF DeleteSelected, CachedInv, UntouchedStayCached, disk, readers
      <3>2. CASE Queue(r) \/ Hide(r) \/ Clear(r) \/ Lift(r)
        BY <3>2, <1>s, <2>1 DEF Queue, Hide, Clear, Lift, CachedInv, UntouchedStayCached,
           disk, readers
      <3>3. CASE Reload(r)
        <4>1. load'.pc = "asked" /\ UNCHANGED sidecar
          BY <3>3 DEF Reload, Asked, disk
        <4> QED  BY <4>1, <1>s, <2>1 DEF CachedInv, UntouchedStayCached
      <3>4. ASSUME NEW u \in Uid, Delete(r, u) PROVE CachedInv'
        <4>1. UNCHANGED <<sidecar, load>>
          BY <3>4 DEF Delete, disk, readers
        <4> QED  BY <4>1, <1>s, <2>1 DEF CachedInv, UntouchedStayCached
      <3> QED  BY <1>1, <2>3, <3>1, <3>2, <3>3, <3>4 DEF RunStep
    <2> QED  BY <2>2, <2>3
  <1>2. CASE ReplayStep
    <2>1. UNCHANGED selected /\ (load' = load \/ load'.pc = "asked")
      <3>1. CASE ReplayPrunes
        BY <3>1 DEF ReplayPrunes, Asked, history
      <3>2. CASE ~ReplayPrunes
        BY <1>2, <3>2 DEF ReplayStep, ReplayReads, ReplayNext, ReplayDeletes, ReplayClears,
           readers, history
      <3> QED  BY <3>1, <3>2
    <2>2. sidecar \ Of(replay.mbox, replay.removed) \subseteq sidecar'
      <3>1. CASE ReplayPrunes
        BY <3>1 DEF ReplayPrunes
      <3>2. CASE ~ReplayPrunes
        BY <1>2, <3>2 DEF ReplayStep, ReplayReads, ReplayNext, ReplayDeletes, ReplayClears, disk
      <3> QED  BY <3>1, <3>2
    <2>3. /\ Of(replay'.mbox, replay'.removed) \subseteq selected
          /\ replay'.pc \in {"idle", "next", "done"} => replay'.removed = {}
      BY <1>2, ReplayRemoves
    <2> QED  BY <1>s, <2>1, <2>2, <2>3 DEF CachedInv, UntouchedStayCached
  <1>3. CASE ReaderStep
    <2>1. UNCHANGED <<server, selected, replay>>
      BY <1>3 DEF ReaderStep, LoadStarts, LoadFinds, LoadCommits, LoadEnds, DrainStarts,
         DrainReads, DrainCommits, DrainEnds, history
    <2>2. CASE LoadFinds
      <3>1. UNCHANGED sidecar
        BY <2>2 DEF LoadFinds, disk
      <3>2. Of(load'.mbox, load'.base \ load'.uids) \cap server = {}
        BY <2>2, LoadMisses
      <3> QED  BY <2>1, <3>1, <3>2 DEF CachedInv, UntouchedStayCached
    <2>3. CASE LoadCommits
      <3>1. sidecar \ Of(load.mbox, load.base \ load.uids) \subseteq sidecar'
        BY <2>3 DEF LoadCommits
      <3>2. load.pc = "found" /\ load'.pc = "none"
        BY <2>3 DEF LoadCommits, NoLoad
      <3> QED  BY <2>1, <3>1, <3>2 DEF CachedInv, UntouchedStayCached
    <2>4. CASE ~LoadFinds /\ ~LoadCommits
      <3>1. sidecar \subseteq sidecar' /\ (load' = load \/ load'.pc \in {"asked", "none"})
        BY <1>3, <2>4 DEF ReaderStep, LoadStarts, LoadEnds, DrainStarts, DrainReads,
           DrainCommits, DrainEnds, Asked, NoLoad, disk
      <3> QED  BY <2>1, <3>1 DEF CachedInv, UntouchedStayCached
    <2> QED  BY <2>2, <2>3, <2>4
  <1>4. ASSUME NEW mb \in Mailbox, Visit(mb) PROVE CachedInv'
    BY <1>4 DEF Visit, CachedInv, UntouchedStayCached, disk, readers, history
  <1>5. CASE Crash
    BY <1>5 DEF Crash, CachedInv, UntouchedStayCached, disk, Launched, NoLoad, Of
  <1> QED  BY <1>1, <1>2, <1>3, <1>4, <1>5 DEF Next

(* Whatever overlaps, and whatever the environment does: a header leaves   *)
(* the cache only when its message has left the server or was chosen.      *)
THEOREM UntouchedCached == Spec => []UntouchedStayCached
  <1>1. CachedInv => UntouchedStayCached
    BY DEF CachedInv
  <1>2. TypeOK /\ [Next]_vars => TypeOK'
    BY TypeStep
  <1>3. TypeOK /\ ChosenInv /\ [Next]_vars => ChosenInv'
    BY ChosenStep
  <1>4. TypeOK /\ ChosenInv /\ CachedInv /\ [Next]_vars => CachedInv'
    BY CachedStep
  <1> QED  BY <1>1, <1>2, <1>3, <1>4, TypeInit, ChosenInit, CachedInit, PTL DEF Spec
=============================================================================
