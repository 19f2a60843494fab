------------------------- MODULE BulkOperationProofs -------------------------
(***************************************************************************)
(* Theorems about BulkOperation for every value of its constants: the      *)
(* types; what verify_archived_emails gives an archive-and-delete; what    *)
(* the recovery file names and keeps; what Cancel stops; what a purge      *)
(* leaves; what the vault holds of a removed message.                      *)
(***************************************************************************)
EXTENDS BulkOperation, TLAPS

(* A live run has an operation to write its status to. *)
LiveHasOp == \A r \in RunId : Live(r) => op # None

TypeInv == TypeOK /\ LiveHasOp

-----------------------------------------------------------------------------
(* What the helpers of the actions do to the runs and to the operation. *)

LEMMA SetPCType ==
    ASSUME runs \in [RunId -> Run], NEW r \in RunId, NEW pc \in PC, SetPC(r, pc)
    PROVE  /\ runs' \in [RunId -> Run]
           /\ runs' = [runs EXCEPT ![r] = runs'[r]]
           /\ runs'[r] = [runs[r] EXCEPT !.pc = pc]
           /\ runs'[r].pc = pc /\ runs'[r].type = runs[r].type
           /\ runs'[r].mbox = runs[r].mbox /\ runs'[r].uids = runs[r].uids
           /\ runs'[r].snap = runs[r].snap /\ runs'[r].task = runs[r].task
           /\ \A q \in RunId \ {r} : runs'[q] = runs[q]
  BY DEF SetPC, Run

LEMMA EndedType ==
    ASSUME NEW run \in Run
    PROVE  /\ Ended(run) \in Run
           /\ Ended(run).pc \in {"unused", "done"}
           /\ Ended(run).pc = "unused" <=> run.pc = "unused"
           /\ Ended(run).type = run.type
           /\ Ended(run).mbox = run.mbox
           /\ Ended(run).uids = run.uids
           /\ Ended(run).snap.type = "archive"
  BY ConstantsAssumption DEF Ended, Run, PC, File, NoFile, Todo, Task, AllTypes

LEMMA EndType ==
    ASSUME runs \in [RunId -> Run], NEW r \in RunId, End(r)
    PROVE  /\ runs' \in [RunId -> Run]
           /\ runs'[r] = Ended(runs[r])
           /\ \A q \in RunId \ {r} : runs'[q] = runs[q]
  BY EndedType DEF End

LEMMA SetTaskType ==
    ASSUME runs \in [RunId -> Run], NEW r \in RunId, NEW u \in Uid, NEW t \in Task,
           SetTask(r, u, t)
    PROVE  /\ runs' \in [RunId -> Run]
           /\ runs'[r] = [runs[r] EXCEPT !.task[u] = t]
           /\ runs'[r].pc = runs[r].pc /\ runs'[r].type = runs[r].type
           /\ runs'[r].mbox = runs[r].mbox /\ runs'[r].uids = runs[r].uids
           /\ runs'[r].snap = runs[r].snap
           /\ runs'[r].task[u] = t
           /\ \A v \in Uid \ {u} : runs'[r].task[v] = runs[r].task[v]
           /\ \A q \in RunId \ {r} : runs'[q] = runs[q]
  BY DEF SetTask, Run

LEMMA SetStatusType ==
    ASSUME op \in Op \cup {None}, NEW s \in Status, SetStatus(s)
    PROVE  /\ op' \in Op \cup {None}
           /\ op' = None <=> op = None
           /\ op # None => op'.type = op.type
  BY NoneAssumption DEF SetStatus, Op
LEMMA TodoType == Todo \in [Uid -> Task]
  BY DEF Todo, Task

LEMMA LaunchType ==
    ASSUME TypeOK, NEW r \in RunId, NEW type \in AllTypes, NEW mbox \in Mailbox,
           NEW uids \in SUBSET Uid, Launch(r, type, mbox, uids)
    PROVE  /\ op' \in Op /\ op' # None
           /\ cancelled' = FALSE
           /\ runs' \in [RunId -> Run]
           /\ runs'[r].pc = "persist" /\ runs[r].pc = "unused"
           /\ runs'[r].type = type
           /\ \A q \in RunId \ {r} : runs'[q] = runs[q]
<1>1. op' \in Op
  BY DEF Launch, Op, Status, Active
<1>2. FileOf(op') \in File
  BY <1>1 DEF FileOf, File, Op
<1>3. [pc |-> "persist", type |-> type, mbox |-> mbox, uids |-> uids,
       snap |-> FileOf(op'), task |-> Todo] \in Run
  BY <1>2, TodoType DEF Run, PC
<1> QED
  BY <1>1, <1>3, NoneAssumption DEF Launch, TypeOK

LEMMA RemoveType ==
    ASSUME removedBy \in [Msg -> 0 .. MaxRuns], NEW r \in RunId, NEW m,
           Remove(r, m)
    PROVE  removedBy' \in [Msg -> 0 .. MaxRuns]
<1>1. r \in 0 .. MaxRuns
  BY ConstantsAssumption DEF RunId
<1> QED
  BY <1>1 DEF Remove

LEMMA AnswersType ==
    ASSUME TypeOK, NEW r \in RunId, NEW u \in Uid, Answers(r, u)
    PROVE  /\ \E t \in {"deleted", "failed"} : SetTask(r, u, t)
           /\ runs' \in [RunId -> Run]
           /\ \A q \in RunId : /\ runs'[q].pc = runs[q].pc
                                /\ runs'[q].type = runs[q].type
           /\ removedBy' \in [Msg -> 0 .. MaxRuns]
           /\ \A m \in Msg : \/ removedBy'[m] = removedBy[m]
                             \/ m = Mail(r, u) /\ OnServer(m) /\ removedBy'[m] = r
<1>1. PICK t \in {"deleted", "failed"} :
          SetTask(r, u, t) /\ (Remove(r, Mail(r, u)) \/ UNCHANGED removedBy)
  BY DEF Answers
<1>2. t \in Task
  BY DEF Task
<1>3. removedBy' \in [Msg -> 0 .. MaxRuns]
  BY <1>1, RemoveType DEF TypeOK
<1>4. \A m \in Msg : \/ removedBy'[m] = removedBy[m]
                     \/ m = Mail(r, u) /\ OnServer(m) /\ removedBy'[m] = r
  BY <1>1 DEF Remove, TypeOK
<1> QED
  BY <1>1, <1>2, <1>3, <1>4, SetTaskType DEF TypeOK

-----------------------------------------------------------------------------
LEMMA InitType == Init => TypeInv
<1> SUFFICES ASSUME Init PROVE TypeInv
  OBVIOUS
<1>1. [pc |-> "unused", type |-> "archive", mbox |-> Inbox, uids |-> {},
       snap |-> NoFile, task |-> Todo] \in Run
  BY ConstantsAssumption, TodoType DEF Run, PC, NoFile, File, AllTypes
<1>2. runs \in [RunId -> Run]
  BY <1>1 DEF Init
<1>3. removedBy \in [Msg -> 0 .. MaxRuns] /\ cancels \in 0 .. MaxCancels
      /\ crashes \in 0 .. MaxCrashes
  BY ConstantsAssumption DEF Init
<1> QED
  BY <1>2, <1>3, ConstantsAssumption
     DEF Init, TypeInv, TypeOK, LiveHasOp, Live, PC, Token, FileState

LEMMA NextType == TypeInv /\ [Next]_vars => TypeInv'
<1> SUFFICES ASSUME TypeInv, [Next]_vars PROVE TypeInv'
  OBVIOUS
<1> USE DEF TypeInv
<1>1. ASSUME NEW r \in RunId, Start(r) PROVE TypeInv'
  <2>1. PICK type \in Types, uids \in SUBSET Uid \ {{}} :
            /\ Launch(r, type, view, uids)
            /\ selected' = selected \cup ({type} \X ({view} \X uids))
    BY <1>1 DEF Start
  <2>2. type \in AllTypes /\ ({type} \X ({view} \X uids)) \subseteq AllTypes \X Msg
    BY ConstantsAssumption DEF Msg, TypeOK
  <2> QED
    BY <1>1, <2>1, <2>2, LaunchType
       DEF Start, TypeOK, LiveHasOp, Live, commands, recovery, mail, bounds
<1>2. ASSUME NEW r \in RunId, Resume(r) PROVE TypeInv'
  BY <1>2, LaunchType, NoneAssumption DEF Resume, TypeOK, LiveHasOp, Live,
      manager, commands, recovery, mail, history, bounds, File
<1>3. ASSUME NEW r \in RunId, Persisted(r) PROVE TypeInv'
  BY <1>3, SetPCType DEF Persisted, TypeOK, LiveHasOp, Live, manager,
      commands, recovery, mail, history, bounds, Run, PC
<1>4. ASSUME NEW r \in RunId, PersistFails(r) PROVE TypeInv'
  BY <1>4, EndType, EndedType DEF PersistFails, TypeOK, LiveHasOp, Live,
      manager, commands, recovery, mail, history, bounds
<1>5. ASSUME NEW r \in RunId, StepFails(r) PROVE TypeInv'
  BY <1>5, EndType, EndedType, SetStatusType DEF StepFails, TypeOK, LiveHasOp,
      Live, manager, commands, recovery, mail, history, bounds, Status
<1>6. ASSUME NEW r \in RunId, TokenFresh(r) PROVE TypeInv'
  <2>1. runs' \in [RunId -> Run] /\ \A q \in RunId \ {r} : runs'[q] = runs[q]
    <3>1. CASE runs[r].type # "delete_everywhere"
      BY <1>6, <3>1, SetPCType DEF TokenFresh, TypeOK, PC
    <3>2. CASE runs[r].type = "delete_everywhere"
      <4>1. [runs[r] EXCEPT !.pc = "purge", !.mbox = view] \in Run
        BY DEF TypeOK, Run, PC
      <4>2. runs' = [runs EXCEPT ![r] = [runs[r] EXCEPT !.pc = "purge", !.mbox = view]]
        BY <1>6, <3>2 DEF TokenFresh, TypeOK
      <4> QED
        BY <4>1, <4>2 DEF TypeOK
    <3> QED
      BY <3>1, <3>2
  <2>2. op' \in Op \cup {None} /\ (op' = None <=> op = None)
    BY <1>6, SetStatusType DEF TokenFresh, TypeOK, Status, Active
  <2> QED
    BY <1>6, <2>1, <2>2
       DEF TokenFresh, TypeOK, LiveHasOp, Live, commands, recovery, mail, history, bounds
<1>7. ASSUME NEW r \in RunId, Cleared(r) PROVE TypeInv'
  BY <1>7, EndType, EndedType DEF Cleared, TypeOK, LiveHasOp, Live, manager,
      commands, recovery, mail, history, bounds
<1>8. ASSUME NEW r \in RunId, ArchiveBegins(r) PROVE TypeInv'
  BY <1>8, SetPCType DEF ArchiveBegins, TypeOK, LiveHasOp, Live, manager,
      commands, recovery, mail, history, bounds, PC, Token
<1>9. ASSUME NEW r \in RunId, ArchiveReturns(r) PROVE TypeInv'
  BY <1>9, SetPCType, SetStatusType, EndType, EndedType DEF ArchiveReturns,
      TypeOK, LiveHasOp, Live, manager, commands, recovery, mail, history,
      bounds, Finish, PC, Status, Active
<1>10. ASSUME NEW r \in RunId, Verify(r) PROVE TypeInv'
  <2>1. CASE cancelled
    BY <1>10, <2>1, EndType, EndedType
       DEF Verify, TypeOK, LiveHasOp, Live, commands, recovery, mail, history, bounds
  <2>2. CASE ~cancelled
    <3> DEFINE now == [op EXCEPT !.status = "deleting", !.uids = Verified(r)]
    <3>1. op \in Op
      BY <1>10 DEF Verify, TypeOK, LiveHasOp, Live
    <3>2. Verified(r) \in SUBSET Uid
      BY DEF Verified, TypeOK, Run
    <3>3. now \in Op /\ FileOf(now) \in File
      BY <3>1, <3>2 DEF Op, File, FileOf, Status, Active
    <3>4. op' = now /\ op' # None
      BY <1>10, <2>2, <3>3, NoneAssumption DEF Verify
    <3>5. [runs[r] EXCEPT !.pc = "persist2", !.uids = Verified(r), !.snap = FileOf(now)] \in Run
      BY <3>2, <3>3 DEF TypeOK, Run, PC
    <3>6. runs' = [runs EXCEPT ![r] = [runs[r] EXCEPT !.pc = "persist2",
                     !.uids = Verified(r), !.snap = FileOf(now)]]
      BY <1>10, <2>2 DEF Verify, TypeOK
    <3>7. runs' \in [RunId -> Run]
      BY <3>5, <3>6 DEF TypeOK
    <3> QED
      BY <1>10, <3>3, <3>4, <3>7
         DEF Verify, TypeOK, LiveHasOp, commands, recovery, mail, history, bounds
  <2> QED
    BY <2>1, <2>2
<1>11. ASSUME NEW r \in RunId, Persisted2(r) PROVE TypeInv'
  BY <1>11, SetPCType DEF Persisted2, TypeOK, LiveHasOp, Live, manager,
      commands, recovery, mail, history, bounds, Run, PC
<1>12. ASSUME NEW r \in RunId, TokenFresh2(r) PROVE TypeInv'
  BY <1>12, SetPCType DEF TokenFresh2, TypeOK, LiveHasOp, Live, manager,
      commands, recovery, mail, history, bounds, Run, PC
<1>13. ASSUME NEW r \in RunId, DeleteBegins(r) PROVE TypeInv'
  <2>0. runs[r] \in Run
    BY DEF TypeOK
  <2>1. [runs[r] EXCEPT !.pc = "delete", !.task = Todo] \in Run
    BY <2>0, TodoType DEF Run, PC
  <2>2. runs' = [runs EXCEPT ![r] = [runs[r] EXCEPT !.pc = "delete", !.task = Todo]]
    BY <1>13 DEF DeleteBegins, TypeOK
  <2>3. runs' \in [RunId -> Run] /\ \A q \in RunId \ {r} : runs'[q] = runs[q]
    BY <2>1, <2>2 DEF TypeOK
  <2> QED
    BY <1>13, <2>3 DEF DeleteBegins, TypeOK, LiveHasOp, Live, Token, manager, recovery,
       mail, history, bounds
<1>14. ASSUME NEW r \in RunId, DeleteReturns(r) PROVE TypeInv'
  BY <1>14, SetPCType, SetStatusType, EndType, EndedType DEF DeleteReturns,
      TypeOK, LiveHasOp, Live, manager, commands, recovery, mail, history,
      bounds, Finish, PC, Status, Active
<1>15. ASSUME NEW r \in RunId, PurgeReturns(r) PROVE TypeInv'
  BY <1>15, SetPCType, SetStatusType, EndType, EndedType DEF PurgeReturns,
      TypeOK, LiveHasOp, Live, manager, commands, recovery, mail, history,
      bounds, Finish, PC, Status, Active, FileState
<1>16. ASSUME NEW r \in RunId, NEW u \in Uid, Fetch(r, u) PROVE TypeInv'
  <2>1. PICK t \in {"fetched", "failed"} : SetTask(r, u, t)
    BY <1>16 DEF Fetch
  <2>2. runs' \in [RunId -> Run] /\ runs'[r].pc = runs[r].pc
        /\ \A q \in RunId \ {r} : runs'[q] = runs[q]
    <3>1. t \in Task
      BY DEF Task
    <3> QED
      BY <2>1, <3>1, SetTaskType DEF TypeOK
  <2>3. flagged' \subseteq Token
    BY <1>16 DEF Fetch, TypeOK, Token
  <2> QED
    BY <1>16, <2>2, <2>3 DEF Fetch, TypeOK, LiveHasOp, Live, manager, recovery, mail,
       history, bounds
<1>17. ASSUME NEW r \in RunId, NEW u \in Uid, StoreBegins(r, u) PROVE TypeInv'
  BY <1>17, SetTaskType DEF StoreBegins, TypeOK, LiveHasOp, Live, manager,
      commands, recovery, mail, history, bounds, Task, Run, FileState
<1>18. ASSUME NEW r \in RunId, NEW u \in Uid, StoreEnds(r, u) PROVE TypeInv'
  <2>1. PICK t \in {"stored", "failed"} : SetTask(r, u, t)
    BY <1>18 DEF StoreEnds
  <2>2. runs' \in [RunId -> Run] /\ runs'[r].pc = runs[r].pc
        /\ \A q \in RunId \ {r} : runs'[q] = runs[q]
    <3>1. t \in Task
      BY DEF Task
    <3> QED
      BY <2>1, <3>1, SetTaskType DEF TypeOK
  <2>3. vault' \in [Msg -> FileState]
    BY <1>18 DEF StoreEnds, TypeOK, FileState
  <2> QED
    BY <1>18, <2>2, <2>3 DEF StoreEnds, TypeOK, LiveHasOp, Live, manager, commands,
       recovery, history, bounds
<1>19. ASSUME NEW r \in RunId, NEW u \in Uid, Skip(r, u) PROVE TypeInv'
  BY <1>19, SetTaskType DEF Skip, TypeOK, LiveHasOp, Live, manager, commands,
      recovery, mail, history, bounds, Task, Run
<1>20. ASSUME NEW r \in RunId, NEW u \in Uid, DeleteIsSent(r, u) PROVE TypeInv'
  BY <1>20, SetTaskType DEF DeleteIsSent, TypeOK, LiveHasOp, Live,
      manager, commands, recovery, mail, history, bounds, Task, Run
<1>29. ASSUME NEW r \in RunId, NEW u \in Uid, DeleteIsAnswered(r, u) PROVE TypeInv'
  BY <1>29, AnswersType DEF DeleteIsAnswered, TypeOK, LiveHasOp, Live,
      manager, commands, recovery, history, bounds
<1>21. ASSUME NEW r \in RunId, NEW u \in Uid, Purge(r, u) PROVE TypeInv'
  BY <1>21, AnswersType DEF Purge, TypeOK, LiveHasOp, Live,
      manager, commands, recovery, history, bounds
<1>22. ASSUME ResumeRefused PROVE TypeInv'
  BY <1>22 DEF ResumeRefused, TypeOK, LiveHasOp, Live, manager, commands,
      recovery, mail, history, bounds
<1>23. ASSUME Discard PROVE TypeInv'
  BY <1>23 DEF Discard, TypeOK, LiveHasOp, Live, manager, commands, recovery,
      mail, history, bounds
<1>24. ASSUME Cancel PROVE TypeInv'
  <2>1. op' \in Op \cup {None} /\ op' # None
    BY <1>24, SetStatusType DEF Cancel, TypeOK, IsRunning, Status
  <2>2. askedAt' \in [RunId -> PC]
    BY <1>24 DEF Cancel, TypeOK, IsRunning, Op, Run
  <2>3. cancels' \in 0 .. MaxCancels
    BY <1>24, ConstantsAssumption DEF Cancel, TypeOK
  <2>4. flying' \in [RunId -> SUBSET Uid]
    BY <1>24 DEF Cancel, TypeOK
  <2> QED
    BY <1>24, <2>1, <2>2, <2>3, <2>4 DEF Cancel, TypeOK, LiveHasOp, mail
<1>25. ASSUME ClearLands PROVE TypeInv'
  BY <1>25 DEF ClearLands, TypeOK, LiveHasOp, Live, manager, commands,
      recovery, mail, history, bounds
<1>26. ASSUME SwitchMailbox PROVE TypeInv'
  BY <1>26 DEF SwitchMailbox, TypeOK, LiveHasOp, Live, manager, commands,
      recovery, mail, history, bounds
<1>27. ASSUME Crash PROVE TypeInv'
  <2>1. runs' \in [RunId -> Run] /\ \A r \in RunId : ~Live(r)'
    BY <1>27, EndedType DEF Crash, TypeOK, Live
  <2>2. pendingFile' \in File \cup {None, Torn} /\ banner' \in File \cup {None}
    BY <1>27 DEF Crash, TypeOK
  <2>3. crashes' \in 0 .. MaxCrashes
    BY <1>27, ConstantsAssumption DEF Crash, TypeOK
  <2> QED
    BY <1>27, <2>1, <2>2, <2>3, ConstantsAssumption
       DEF Crash, TypeOK, LiveHasOp, Token, mail, history
<1>28. CASE UNCHANGED vars
  BY <1>28 DEF vars, TypeOK, LiveHasOp, Live, manager, commands, recovery,
      mail, history, bounds
<1> QED
  BY <1>1, <1>2, <1>3, <1>4, <1>5, <1>6, <1>7, <1>8, <1>9, <1>10, <1>11,
      <1>12, <1>13, <1>14, <1>15, <1>16, <1>17, <1>18, <1>19, <1>20, <1>21,
      <1>22, <1>23, <1>24, <1>25, <1>26, <1>27, <1>28, <1>29 DEF Next, Step, Work

(* Every reachable state has the types TypeOK gives: in particular no      *)
(* write to this._operation.status meets a null operation.                 *)
THEOREM Typing == Spec => []TypeOK
<1>1. TypeInv => TypeOK
  BY DEF TypeInv
<1> QED
  BY <1>1, InitType, NextType, PTL DEF Spec

-----------------------------------------------------------------------------
(* What the name check of verify_archived_emails is worth.  When the user  *)
(* waits for a cancelled operation to unwind before starting the next, and *)
(* deletes nothing everywhere, one run at a time is live; so nothing       *)
(* removes the file of a verified UID, and no message that is being stored *)
(* is removed from the server meanwhile.                                   *)

FilesSafe ==
    /\ pendingFile \in File => pendingFile.type # "delete_everywhere"
    /\ banner # None => banner.type # "delete_everywhere"
    /\ op # None => op.type # "delete_everywhere"

Deleting == {"persist2", "token2", "deleteSent", "delete"}

RunSafe(r) ==
    /\ runs[r].type # "delete_everywhere"
    /\ runs[r].snap.type # "delete_everywhere"
    /\ runs[r].pc # "purge"
    /\ runs[r].pc \in {"persist", "token", "archiveSent"} =>
          \A u \in Uid : runs[r].task[u] = "todo"
    /\ runs[r].pc = "archive" => \A u \in Uid :
          runs[r].task[u] \in {"fetched", "storing"} => OnServer(Mail(r, u))
    /\ runs[r].pc \in Deleting /\ runs[r].type = "archive_and_delete" =>
          \A u \in runs[r].uids : vault[Mail(r, u)] # "none"

SingleLive == \A p, q \in RunId : Live(p) /\ Live(q) => p = q

RemoverRan ==
    \A m \in Msg : ~OnServer(m) =>
        removedBy[m] \in RunId /\ runs[removedBy[m]].pc # "unused"

(* DeletedHasFile without its exemption: nobody deletes everywhere here. *)
HasFile ==
    \A m \in Msg :
        ~OnServer(m) /\ runs[removedBy[m]].type = "archive_and_delete"
        => vault[m] # "none"

SafeInv ==
    /\ TypeInv /\ FilesSafe /\ (\A r \in RunId : RunSafe(r))
    /\ SingleLive /\ RemoverRan /\ HasFile

NoOverlap == "overlap" \notin Env
NoDeleteEverywhere == "delete_everywhere" \notin Types

LEMMA MailType ==
    ASSUME TypeOK, NEW r \in RunId, NEW u \in Uid
    PROVE  Mail(r, u) \in Msg
  BY DEF TypeOK, Run, Mail, Msg

(* A run that is not live is safe whatever happens to the mail. *)
LEMMA NotLiveSafe ==
    ASSUME NEW r \in RunId, RunSafe(r), ~Live(r), runs'[r] = runs[r]
    PROVE  RunSafe(r)'
  BY DEF RunSafe, Live, Deleting

(* A task of archive_emails or bulk_delete_emails moves on. *)
LEMMA TaskStep ==
    ASSUME runs \in [RunId -> Run], NEW r \in RunId, NEW u \in Uid, NEW t \in Task,
           SetTask(r, u, t), RunSafe(r), runs[r].pc \in {"archive", "delete"},
           runs[r].pc = "archive" =>
               removedBy' = removedBy /\ (t \in {"fetched", "storing"} => OnServer(Mail(r, u))),
           runs[r].pc = "delete" => vault' = vault
    PROVE  RunSafe(r)'
<1>1. /\ runs'[r].pc = runs[r].pc /\ runs'[r].type = runs[r].type
      /\ runs'[r].mbox = runs[r].mbox /\ runs'[r].uids = runs[r].uids
      /\ runs'[r].snap = runs[r].snap /\ runs'[r].task[u] = t
      /\ \A v \in Uid \ {u} : runs'[r].task[v] = runs[r].task[v]
  BY DEF SetTask, Run
<1>2. CASE runs[r].pc = "archive"
  <2>1. \A v \in Uid : runs'[r].task[v] \in {"fetched", "storing"} => OnServer(Mail(r, v))
    BY <1>1, <1>2 DEF RunSafe
  <2> QED
    BY <1>1, <1>2, <2>1 DEF RunSafe, Deleting, OnServer, Mail
<1>3. CASE runs[r].pc = "delete"
  BY <1>1, <1>3 DEF RunSafe, Deleting, Mail
<1> QED
  BY <1>2, <1>3

(* Where the try block of start() ends. *)
LEMMA FinishSafe ==
    ASSUME TypeOK, NEW r \in RunId, Live(r), RunSafe(r), Finish(r)
    PROVE  /\ runs'[r].type = runs[r].type /\ runs'[r].pc \in {"done", "clear"}
           /\ \A q \in RunId \ {r} : runs'[q] = runs[q]
           /\ RunSafe(r)'
           /\ op' = None <=> op = None
           /\ op # None => op'.type = op.type
<1>1. runs \in [RunId -> Run] /\ runs[r] \in Run /\ op \in Op \cup {None}
  BY DEF TypeOK
<1>2. CASE cancelled
  <2>1. End(r) /\ op' = op
    BY <1>2 DEF Finish
  <2>2. runs'[r] = Ended(runs[r]) /\ \A q \in RunId \ {r} : runs'[q] = runs[q]
    BY <1>1, <2>1, EndType
  <2>3. /\ runs'[r].pc = "done" /\ runs'[r].type = runs[r].type
        /\ runs'[r].snap.type = "archive"
    BY <1>1, <2>2, EndedType DEF Live
  <2> QED
    BY <2>1, <2>2, <2>3 DEF RunSafe, Deleting
<1>3. CASE ~cancelled
  <2>1. SetPC(r, "clear") /\ SetStatus("complete") /\ "clear" \in PC /\ "complete" \in Status
    BY <1>3 DEF Finish, PC, Status
  <2>2. /\ runs'[r].pc = "clear" /\ runs'[r].type = runs[r].type
        /\ runs'[r].snap = runs[r].snap
        /\ \A q \in RunId \ {r} : runs'[q] = runs[q]
    BY <1>1, <2>1, SetPCType
  <2>3. (op' = None <=> op = None) /\ (op # None => op'.type = op.type)
    BY <1>1, <2>1, SetStatusType
  <2> QED
    BY <2>2, <2>3 DEF RunSafe, Deleting
<1> QED
  BY <1>2, <1>3

(* One run advances: what an action has to show of it. *)
LEMMA Advance ==
    ASSUME SafeInv, TypeInv', NEW r \in RunId, Live(r),
           \A q \in RunId \ {r} : runs'[q] = runs[q],
           runs'[r].type = runs[r].type, runs'[r].pc # "unused",
           RunSafe(r)', FilesSafe', removedBy' = removedBy, HasFile'
    PROVE  SafeInv'
<1>1. \A q \in RunId : RunSafe(q)'
  <2> TAKE q \in RunId
  <2>1. CASE q = r
    BY <2>1
  <2>2. CASE q # r
    BY <2>2, NotLiveSafe DEF SafeInv, SingleLive
  <2> QED
    BY <2>1, <2>2
<1>2. SingleLive'
  BY DEF SafeInv, SingleLive, Live
<1>3. RemoverRan'
  BY DEF SafeInv, RemoverRan, OnServer
<1> QED
  BY <1>1, <1>2, <1>3 DEF SafeInv

LEMMA AdvanceQuietly ==
    ASSUME SafeInv, TypeInv', NEW r \in RunId, Live(r),
           \A q \in RunId \ {r} : runs'[q] = runs[q],
           runs'[r].type = runs[r].type, runs'[r].pc # "unused",
           RunSafe(r)', FilesSafe', UNCHANGED mail
    PROVE  SafeInv'
<1>1. HasFile'
  <2> SUFFICES ASSUME NEW m \in Msg, ~OnServer(m),
                      runs'[removedBy[m]].type = "archive_and_delete"
               PROVE  vault[m] # "none"
    BY DEF HasFile, OnServer, mail
  <2>1. removedBy[m] \in RunId
    BY DEF SafeInv, RemoverRan
  <2>2. runs[removedBy[m]].type = "archive_and_delete"
    BY <2>1
  <2> QED
    BY <2>2 DEF SafeInv, HasFile
<1> QED
  BY <1>1, Advance DEF mail

(* A step that leaves the runs and the mail alone. *)
LEMMA StandStill ==
    ASSUME SafeInv, TypeInv', FilesSafe', UNCHANGED <<runs, mail>>
    PROVE  SafeInv'
  BY DEF SafeInv, RunSafe, SingleLive, RemoverRan, HasFile, Live, OnServer,
     Mail, mail

(* A new run, and what it means for the others: without overlap none lives. *)
SafeLaunch(r) ==
    /\ \A q \in RunId : ~Live(q)
    /\ runs[r].pc = "unused" /\ runs'[r].pc # "unused"
    /\ \A q \in RunId \ {r} : runs'[q] = runs[q]
    /\ RunSafe(r)' /\ op'.type # "delete_everywhere"

LEMMA LaunchSafe ==
    ASSUME NoOverlap, TypeOK, NEW r \in RunId, NEW type \in AllTypes, NEW mbox \in Mailbox,
           NEW uids \in SUBSET Uid, Launch(r, type, mbox, uids),
           type # "delete_everywhere"
    PROVE  SafeLaunch(r)
<1>1. \A q \in RunId : ~Live(q)
  BY DEF Launch, NoOverlap
<1>2. /\ runs'[r].type = type /\ runs'[r].snap.type = type /\ runs'[r].pc = "persist"
      /\ runs'[r].task = Todo /\ op'.type = type
  BY DEF Launch, FileOf, TypeOK
<1>3. RunSafe(r)'
  BY <1>2 DEF RunSafe, Deleting, Todo
<1> QED
  BY <1>1, <1>2, <1>3, LaunchType DEF SafeLaunch

LEMMA LaunchStep ==
    ASSUME SafeInv, TypeInv', NEW r \in RunId, SafeLaunch(r),
           pendingFile' = pendingFile, banner' \in {banner, None}, UNCHANGED mail
    PROVE  SafeInv'
<1>1. \A q \in RunId : RunSafe(q)'
  BY NotLiveSafe DEF SafeInv, SafeLaunch
<1>2. FilesSafe'
  BY DEF SafeInv, FilesSafe, SafeLaunch
<1>3. SingleLive'
  BY DEF SingleLive, SafeLaunch, Live
<1>4. RemoverRan'
  BY DEF SafeInv, RemoverRan, SafeLaunch, OnServer, mail
<1>5. HasFile'
  BY DEF SafeInv, RemoverRan, HasFile, SafeLaunch, OnServer, mail
<1> QED
  BY <1>1, <1>2, <1>3, <1>4, <1>5 DEF SafeInv

LEMMA InitSafe == Init => SafeInv
<1> SUFFICES ASSUME Init PROVE SafeInv
  OBVIOUS
<1>1. TypeInv
  BY InitType
<1>2. FilesSafe
  BY NoneAssumption DEF Init, FilesSafe
<1>3. \A r \in RunId : RunSafe(r) /\ ~Live(r)
  BY DEF Init, RunSafe, NoFile, Live, Deleting
<1> QED
  BY <1>1, <1>2, <1>3 DEF Init, SafeInv, SingleLive, RemoverRan, HasFile, OnServer

LEMMA NextSafe ==
    ASSUME NoOverlap, NoDeleteEverywhere PROVE SafeInv /\ [Next]_vars => SafeInv'
<1> SUFFICES ASSUME SafeInv, [Next]_vars PROVE SafeInv'
  OBVIOUS
<1>a. TypeInv /\ TypeInv' /\ FilesSafe /\ \A r \in RunId : RunSafe(r)
  BY NextType DEF SafeInv
<1>b. TypeOK /\ TypeOK'
  BY <1>a DEF TypeInv
<1>c. runs \in [RunId -> Run] /\ op \in Op \cup {None}
  BY <1>b DEF TypeOK
<1>1. ASSUME NEW r \in RunId, Start(r) PROVE SafeInv'
  <2>1. PICK type \in Types, uids \in SUBSET Uid : Launch(r, type, view, uids)
    BY <1>1 DEF Start
  <2>2. type \in AllTypes /\ type # "delete_everywhere"
    BY ConstantsAssumption, NoDeleteEverywhere DEF NoDeleteEverywhere
  <2>3. SafeLaunch(r)
    BY <1>a, <1>b, <2>1, <2>2, LaunchSafe DEF TypeOK
  <2> QED
    BY <1>1, <1>a, <2>3, LaunchStep DEF Start, recovery
<1>2. ASSUME NEW r \in RunId, Resume(r) PROVE SafeInv'
  <2>1. banner \in File /\ banner.type # "delete_everywhere"
    BY <1>2, <1>a, <1>b DEF Resume, TypeOK, FilesSafe
  <2>2. banner.type \in AllTypes /\ banner.mbox \in Mailbox /\ banner.uids \in SUBSET Uid
    BY <2>1 DEF File
  <2>3. SafeLaunch(r)
    BY <1>2, <1>a, <1>b, <2>1, <2>2, LaunchSafe DEF Resume
  <2> QED
    BY <1>2, <1>a, <2>3, LaunchStep DEF Resume
<1>3. ASSUME NEW r \in RunId, Persisted(r) PROVE SafeInv'
  <2>1. /\ runs'[r].pc = "token" /\ runs'[r].type = runs[r].type
        /\ runs'[r].mbox = runs[r].mbox /\ runs'[r].uids = runs[r].uids
        /\ runs'[r].snap = runs[r].snap /\ runs'[r].task = runs[r].task
        /\ \A q \in RunId \ {r} : runs'[q] = runs[q]
    BY <1>3, <1>c, SetPCType DEF Persisted, PC
  <2>2. RunSafe(r)'
    BY <1>3, <1>a, <2>1 DEF Persisted, RunSafe, Deleting, OnServer, Mail, mail
  <2>3. FilesSafe'
    BY <1>3, <1>a, <1>c DEF Persisted, RunSafe, FilesSafe, manager, recovery
  <2> QED
    BY <1>3, <1>a, <2>1, <2>2, <2>3, AdvanceQuietly DEF Persisted, Live, mail
<1>4. ASSUME NEW r \in RunId, PersistFails(r) PROVE SafeInv'
  <2>1. RunSafe(r)'
    BY <1>4, <1>a, <1>c, EndType, EndedType DEF PersistFails, Live, RunSafe, FilesSafe, Deleting, OnServer, Mail, manager, commands, recovery, mail, history, bounds
  <2>2. FilesSafe'
    BY <1>4, <1>a, <1>c, EndType, EndedType DEF PersistFails, Live, RunSafe, FilesSafe, Deleting, OnServer, Mail, manager, commands, recovery, mail, history, bounds
  <2> QED
    BY <1>4, <1>a, <1>c, <2>1, <2>2, EndType, EndedType, AdvanceQuietly DEF PersistFails, Live, mail
<1>5. ASSUME NEW r \in RunId, StepFails(r) PROVE SafeInv'
  <2>1. RunSafe(r)'
    BY <1>5, <1>a, <1>c, EndType, EndedType, SetStatusType DEF StepFails, Live, RunSafe, FilesSafe, Deleting, OnServer, Mail, manager, commands, recovery, mail, history, bounds, Status
  <2>2. FilesSafe'
    BY <1>5, <1>a, <1>c, EndType, EndedType, SetStatusType DEF StepFails, Live, RunSafe, FilesSafe, Deleting, OnServer, Mail, manager, commands, recovery, mail, history, bounds, Status
  <2> QED
    BY <1>5, <1>a, <1>c, <2>1, <2>2, EndType, EndedType, SetStatusType, AdvanceQuietly DEF StepFails, Live, mail, Status
<1>6. ASSUME NEW r \in RunId, TokenFresh(r) PROVE SafeInv'
  <2>1. PICK pc \in {"archiveSent", "deleteSent"}, s \in Status :
            /\ SetPC(r, pc) /\ SetStatus(s)
            /\ pc = "deleteSent" => runs[r].type = "delete"
    BY <1>6, <1>a DEF TokenFresh, RunSafe, Status, Active
  <2>2. /\ runs'[r].pc = pc /\ runs'[r].type = runs[r].type
        /\ runs'[r].snap = runs[r].snap /\ runs'[r].task = runs[r].task
        /\ \A q \in RunId \ {r} : runs'[q] = runs[q]
    BY <1>c, <2>1, SetPCType DEF PC
  <2>3. (op' = None <=> op = None) /\ (op # None => op'.type = op.type)
    BY <1>c, <2>1, SetStatusType
  <2>4. RunSafe(r)'
    BY <1>6, <1>a, <2>1, <2>2 DEF TokenFresh, RunSafe, Deleting
  <2>5. FilesSafe'
    BY <1>6, <1>a, <2>3 DEF TokenFresh, FilesSafe, recovery
  <2> QED
    BY <1>6, <1>a, <2>2, <2>4, <2>5, AdvanceQuietly DEF TokenFresh, Live
<1>7. ASSUME NEW r \in RunId, Cleared(r) PROVE SafeInv'
  <2>1. RunSafe(r)'
    BY <1>7, <1>a, <1>c, EndType, EndedType, NoneAssumption DEF Cleared, Live, RunSafe, FilesSafe, Deleting, OnServer, Mail, manager, commands, recovery, mail, history, bounds
  <2>2. FilesSafe'
    BY <1>7, <1>a, <1>c, EndType, EndedType, NoneAssumption DEF Cleared, Live, RunSafe, FilesSafe, Deleting, OnServer, Mail, manager, commands, recovery, mail, history, bounds
  <2> QED
    BY <1>7, <1>a, <1>c, <2>1, <2>2, EndType, EndedType, NoneAssumption, AdvanceQuietly DEF Cleared, Live, mail
<1>8. ASSUME NEW r \in RunId, ArchiveBegins(r) PROVE SafeInv'
  <2>1. /\ runs'[r].pc = "archive" /\ runs'[r].type = runs[r].type
        /\ runs'[r].mbox = runs[r].mbox /\ runs'[r].uids = runs[r].uids
        /\ runs'[r].snap = runs[r].snap /\ runs'[r].task = runs[r].task
        /\ \A q \in RunId \ {r} : runs'[q] = runs[q]
    BY <1>8, <1>c, SetPCType DEF ArchiveBegins, PC
  <2>2. RunSafe(r)'
    BY <1>8, <1>a, <2>1 DEF ArchiveBegins, RunSafe, Deleting, OnServer, Mail, mail
  <2>3. FilesSafe'
    BY <1>8, <1>a, <1>c DEF ArchiveBegins, RunSafe, FilesSafe, manager, recovery
  <2> QED
    BY <1>8, <1>a, <2>1, <2>2, <2>3, AdvanceQuietly DEF ArchiveBegins, Live, mail
<1>9. ASSUME NEW r \in RunId, ArchiveReturns(r) PROVE SafeInv'
  <2>1. CASE Finish(r)
    <3>1. Live(r)
      BY <1>9 DEF ArchiveReturns, Live
    <3>2. /\ runs'[r].type = runs[r].type /\ runs'[r].pc \in {"done", "clear"}
          /\ \A q \in RunId \ {r} : runs'[q] = runs[q]
          /\ RunSafe(r)'
          /\ op' = None <=> op = None
          /\ op # None => op'.type = op.type
      BY <1>a, <1>b, <2>1, <3>1, FinishSafe
    <3>3. FilesSafe'
      BY <1>9, <1>a, <3>2 DEF ArchiveReturns, FilesSafe, recovery
    <3> QED
      BY <1>9, <1>a, <3>1, <3>2, <3>3, AdvanceQuietly DEF ArchiveReturns
  <2>2. CASE SetPC(r, "verify") /\ SetStatus("verifying")
    <3>1. /\ runs'[r].pc = "verify" /\ runs'[r].type = runs[r].type
          /\ runs'[r].snap = runs[r].snap
          /\ \A q \in RunId \ {r} : runs'[q] = runs[q]
      BY <1>c, <2>2, SetPCType DEF PC
    <3>2. (op' = None <=> op = None) /\ (op # None => op'.type = op.type)
      BY <1>c, <2>2, SetStatusType DEF Status, Active
    <3>3. RunSafe(r)'
      BY <1>a, <3>1 DEF RunSafe, Deleting
    <3>4. FilesSafe'
      BY <1>9, <1>a, <3>2 DEF ArchiveReturns, FilesSafe, recovery
    <3> QED
      BY <1>9, <1>a, <3>1, <3>3, <3>4, AdvanceQuietly DEF ArchiveReturns, Live
  <2> QED
    BY <1>9, <2>1, <2>2 DEF ArchiveReturns
<1>10. ASSUME NEW r \in RunId, Verify(r) PROVE SafeInv'
  <2>1. CASE cancelled
    <3>1. /\ runs'[r] = Ended(runs[r]) /\ op' = op
          /\ \A q \in RunId \ {r} : runs'[q] = runs[q]
      BY <1>10, <1>c, <2>1, EndType DEF Verify
    <3>2. /\ runs'[r].pc = "done" /\ runs'[r].type = runs[r].type
          /\ runs'[r].snap.type = "archive"
      BY <1>10, <1>c, <3>1, EndedType DEF Verify
    <3>3. RunSafe(r)'
      BY <1>a, <3>2 DEF RunSafe, Deleting
    <3>4. FilesSafe'
      BY <1>10, <1>a, <3>1 DEF Verify, FilesSafe, recovery
    <3> QED
      BY <1>10, <1>a, <3>1, <3>2, <3>3, <3>4, AdvanceQuietly DEF Verify, Live
  <2>2. CASE ~cancelled
    <3>1. op \in Op
      BY <1>10, <1>a, <1>c DEF Verify, TypeInv, LiveHasOp, Live
    <3>2. /\ runs'[r].pc = "persist2" /\ runs'[r].type = runs[r].type
          /\ runs'[r].mbox = runs[r].mbox /\ runs'[r].uids = Verified(r)
          /\ runs'[r].snap = FileOf(op') /\ op'.type = op.type
          /\ \A q \in RunId \ {r} : runs'[q] = runs[q]
      <4>1. /\ op' = [op EXCEPT !.status = "deleting", !.uids = Verified(r)]
            /\ runs' = [runs EXCEPT ![r] = [runs[r] EXCEPT !.pc = "persist2",
                                    !.uids = Verified(r), !.snap = FileOf(op')]]
        BY <1>10, <1>c, <2>2 DEF Verify
      <4>2. op'.type = op.type
        BY <3>1, <4>1 DEF Op
      <4>3. runs'[r] = [runs[r] EXCEPT !.pc = "persist2", !.uids = Verified(r),
                                       !.snap = FileOf(op')]
        BY <1>c, <4>1
      <4>4. runs[r] \in Run
        BY <1>c
      <4> QED
        BY <1>c, <4>1, <4>2, <4>3, <4>4 DEF Run
    <3>3. RunSafe(r)'
      <4>1. vault' = vault /\ FileOf(op').type = op.type /\ op.type # "delete_everywhere"
        BY <1>10, <1>a, <3>1, <3>2, NoneAssumption DEF Verify, FilesSafe, FileOf, mail
      <4>2. \A u \in runs'[r].uids : vault[<<runs[r].mbox, u>>] # "none"
        BY <3>2 DEF Verified, Mail
      <4> QED
        BY <1>a, <3>2, <4>1, <4>2 DEF RunSafe, Deleting, Mail
    <3>4. FilesSafe'
      BY <1>10, <1>a, <3>1, <3>2, NoneAssumption DEF Verify, FilesSafe, recovery
    <3> QED
      BY <1>10, <1>a, <3>2, <3>3, <3>4, AdvanceQuietly DEF Verify, Live
  <2> QED
    BY <2>1, <2>2
<1>11. ASSUME NEW r \in RunId, Persisted2(r) PROVE SafeInv'
  <2>1. /\ runs'[r].pc = "token2" /\ runs'[r].type = runs[r].type
        /\ runs'[r].mbox = runs[r].mbox /\ runs'[r].uids = runs[r].uids
        /\ runs'[r].snap = runs[r].snap /\ runs'[r].task = runs[r].task
        /\ \A q \in RunId \ {r} : runs'[q] = runs[q]
    BY <1>11, <1>c, SetPCType DEF Persisted2, PC
  <2>2. RunSafe(r)'
    BY <1>11, <1>a, <2>1 DEF Persisted2, RunSafe, Deleting, OnServer, Mail, mail
  <2>3. FilesSafe'
    BY <1>11, <1>a, <1>c DEF Persisted2, RunSafe, FilesSafe, manager, recovery
  <2> QED
    BY <1>11, <1>a, <2>1, <2>2, <2>3, AdvanceQuietly DEF Persisted2, Live, mail
<1>12. ASSUME NEW r \in RunId, TokenFresh2(r) PROVE SafeInv'
  <2>1. /\ runs'[r].pc = "deleteSent" /\ runs'[r].type = runs[r].type
        /\ runs'[r].mbox = runs[r].mbox /\ runs'[r].uids = runs[r].uids
        /\ runs'[r].snap = runs[r].snap /\ runs'[r].task = runs[r].task
        /\ \A q \in RunId \ {r} : runs'[q] = runs[q]
    BY <1>12, <1>c, SetPCType DEF TokenFresh2, PC
  <2>2. RunSafe(r)'
    BY <1>12, <1>a, <2>1 DEF TokenFresh2, RunSafe, Deleting, OnServer, Mail, mail
  <2>3. FilesSafe'
    BY <1>12, <1>a, <1>c DEF TokenFresh2, RunSafe, FilesSafe, manager, recovery
  <2> QED
    BY <1>12, <1>a, <2>1, <2>2, <2>3, AdvanceQuietly DEF TokenFresh2, Live, mail
<1>13. ASSUME NEW r \in RunId, DeleteBegins(r) PROVE SafeInv'
  <2>1. /\ runs'[r].pc = "delete" /\ runs'[r].type = runs[r].type
        /\ runs'[r].mbox = runs[r].mbox /\ runs'[r].uids = runs[r].uids
        /\ runs'[r].snap = runs[r].snap
        /\ \A q \in RunId \ {r} : runs'[q] = runs[q]
    BY <1>13, <1>c DEF DeleteBegins, Run
  <2>2. RunSafe(r)'
    <3>1. runs[r].pc = "deleteSent" /\ vault' = vault
      BY <1>13 DEF DeleteBegins, mail
    <3> QED
      BY <1>a, <2>1, <3>1 DEF RunSafe, Deleting, Mail
  <2>3. FilesSafe'
    BY <1>13, <1>a DEF DeleteBegins, FilesSafe, manager, recovery
  <2> QED
    BY <1>13, <1>a, <2>1, <2>2, <2>3, AdvanceQuietly DEF DeleteBegins, Live
<1>14. ASSUME NEW r \in RunId, DeleteReturns(r) PROVE SafeInv'
  <2>1. Live(r) /\ Finish(r)
    BY <1>14 DEF DeleteReturns, Live
  <2>2. /\ runs'[r].type = runs[r].type /\ runs'[r].pc \in {"done", "clear"}
        /\ \A q \in RunId \ {r} : runs'[q] = runs[q]
        /\ RunSafe(r)'
        /\ op' = None <=> op = None
        /\ op # None => op'.type = op.type
    BY <1>a, <1>b, <2>1, FinishSafe
  <2>3. FilesSafe'
    BY <1>14, <1>a, <2>2 DEF DeleteReturns, FilesSafe, recovery
  <2> QED
    BY <1>14, <1>a, <2>1, <2>2, <2>3, AdvanceQuietly DEF DeleteReturns
<1>15. ASSUME NEW r \in RunId, PurgeReturns(r) PROVE SafeInv'
  BY <1>15, <1>a DEF PurgeReturns, RunSafe
<1>16. ASSUME NEW r \in RunId, NEW u \in Uid, Fetch(r, u) PROVE SafeInv'
  <2>1. PICK t \in {"fetched", "failed"} :
            SetTask(r, u, t) /\ (t = "fetched" => OnServer(Mail(r, u)))
    BY <1>16 DEF Fetch
  <2>2. t \in Task
    BY DEF Task
  <2>3. RunSafe(r)'
    BY <1>16, <1>a, <1>c, <2>1, <2>2, TaskStep DEF Fetch, mail
  <2>4. FilesSafe'
    BY <1>16, <1>a DEF Fetch, FilesSafe, manager, recovery
  <2> QED
    BY <1>16, <1>a, <1>c, <2>1, <2>2, <2>3, <2>4, SetTaskType, AdvanceQuietly
       DEF Fetch, Live, mail
<1>17. ASSUME NEW r \in RunId, NEW u \in Uid, StoreBegins(r, u) PROVE SafeInv'
  <2>1. PICK t \in {"storing", "failed"} : SetTask(r, u, t)
    BY <1>17 DEF StoreBegins
  <2>2. t \in Task
    BY DEF Task
  <2>3. OnServer(Mail(r, u))
    BY <1>17, <1>a DEF StoreBegins, RunSafe
  <2>4. RunSafe(r)'
    BY <1>17, <1>a, <1>c, <2>1, <2>2, <2>3, TaskStep DEF StoreBegins
  <2>5. FilesSafe'
    BY <1>17, <1>a DEF StoreBegins, FilesSafe, manager, recovery
  <2>6. HasFile'
    <3>1. \A q \in RunId : runs'[q].type = runs[q].type
      BY <1>c, <2>1, <2>2, SetTaskType
    <3>2. \A m \in Msg : ~OnServer(m) => vault'[m] = vault[m]
      BY <1>17, <1>b, <2>3 DEF StoreBegins, TypeOK
    <3> QED
      BY <1>17, <3>1, <3>2 DEF StoreBegins, SafeInv, RemoverRan, HasFile, OnServer
  <2> QED
    BY <1>17, <1>a, <1>c, <2>1, <2>2, <2>4, <2>5, <2>6, SetTaskType, Advance
       DEF StoreBegins, Live
<1>18. ASSUME NEW r \in RunId, NEW u \in Uid, StoreEnds(r, u) PROVE SafeInv'
  <2>1. PICK t \in {"stored", "failed"} : SetTask(r, u, t)
    BY <1>18 DEF StoreEnds
  <2>2. t \in Task
    BY DEF Task
  <2>3. OnServer(Mail(r, u))
    BY <1>18, <1>a DEF StoreEnds, RunSafe
  <2>4. RunSafe(r)'
    BY <1>18, <1>a, <1>c, <2>1, <2>2, <2>3, TaskStep DEF StoreEnds
  <2>5. FilesSafe'
    BY <1>18, <1>a DEF StoreEnds, FilesSafe, manager, recovery
  <2>6. HasFile'
    <3>1. \A q \in RunId : runs'[q].type = runs[q].type
      BY <1>c, <2>1, <2>2, SetTaskType
    <3>2. \A m \in Msg : ~OnServer(m) => vault'[m] = vault[m]
      BY <1>18, <1>b, <2>3 DEF StoreEnds, TypeOK
    <3> QED
      BY <1>18, <3>1, <3>2 DEF StoreEnds, SafeInv, RemoverRan, HasFile, OnServer
  <2> QED
    BY <1>18, <1>a, <1>c, <2>1, <2>2, <2>4, <2>5, <2>6, SetTaskType, Advance
       DEF StoreEnds, Live
<1>19. ASSUME NEW r \in RunId, NEW u \in Uid, Skip(r, u) PROVE SafeInv'
  <2>1. "skipped" \in Task
    BY DEF Task
  <2>2. RunSafe(r)'
    BY <1>19, <1>a, <1>c, <2>1, TaskStep DEF Skip, mail
  <2>3. FilesSafe'
    BY <1>19, <1>a DEF Skip, FilesSafe, manager, recovery
  <2> QED
    BY <1>19, <1>a, <1>c, <2>1, <2>2, <2>3, SetTaskType, AdvanceQuietly
       DEF Skip, Live, mail
<1>20. ASSUME NEW r \in RunId, NEW u \in Uid, DeleteIsSent(r, u) PROVE SafeInv'
  <2>1. "deleting" \in Task
    BY DEF Task
  <2>2. RunSafe(r)'
    BY <1>20, <1>a, <1>c, <2>1, TaskStep DEF DeleteIsSent, mail
  <2>3. FilesSafe'
    BY <1>20, <1>a DEF DeleteIsSent, FilesSafe, manager, recovery
  <2> QED
    BY <1>20, <1>a, <1>c, <2>1, <2>2, <2>3, SetTaskType, AdvanceQuietly
       DEF DeleteIsSent, Live, mail
<1>29. ASSUME NEW r \in RunId, NEW u \in Uid, DeleteIsAnswered(r, u) PROVE SafeInv'
  <2>1. PICK t \in {"deleted", "failed"} : SetTask(r, u, t)
    BY <1>29 DEF DeleteIsAnswered, Answers
  <2>2. t \in Task
    BY DEF Task
  <2>3. \A q \in RunId : RunSafe(q)'
    <3> TAKE q \in RunId
    <3>1. CASE q = r
      BY <1>29, <1>a, <1>c, <2>1, <2>2, <3>1, TaskStep DEF DeleteIsAnswered
    <3>2. CASE q # r
      BY <1>29, <1>a, <1>c, <2>1, <2>2, <3>2, SetTaskType, NotLiveSafe
         DEF DeleteIsAnswered, SafeInv, SingleLive, Live
    <3> QED
      BY <3>1, <3>2
  <2>4. FilesSafe'
    BY <1>29, <1>a DEF DeleteIsAnswered, FilesSafe, manager, recovery
  <2>5. /\ \A q \in RunId : /\ runs'[q].type = runs[q].type
                            /\ runs'[q].pc = runs[q].pc
        /\ runs[r].pc = "delete" /\ vault' = vault /\ u \in runs[r].uids
    BY <1>29, <1>c, <2>1, <2>2, SetTaskType DEF DeleteIsAnswered
  <2>6. \A m \in Msg : removedBy'[m] = removedBy[m]
                        \/ (m = Mail(r, u) /\ removedBy'[m] = r)
    BY <1>29, <1>b, AnswersType DEF DeleteIsAnswered
  <2>7. RemoverRan'
    BY <1>a, <2>5, <2>6 DEF SafeInv, RemoverRan, OnServer
  <2>8. HasFile'
    BY <1>a, <2>5, <2>6 DEF SafeInv, RemoverRan, HasFile, OnServer, RunSafe, Deleting
  <2>9. SingleLive'
    BY <2>5 DEF SafeInv, SingleLive, Live
  <2> QED
    BY <1>a, <2>3, <2>4, <2>7, <2>8, <2>9 DEF SafeInv
<1>21. ASSUME NEW r \in RunId, NEW u \in Uid, Purge(r, u) PROVE SafeInv'
  BY <1>21, <1>a DEF Purge, RunSafe
<1>22. ASSUME ResumeRefused PROVE SafeInv'
  <2>1. FilesSafe'
    BY <1>22, <1>a, <1>c, NoneAssumption, SetStatusType DEF ResumeRefused, FilesSafe, manager, Status, recovery
  <2> QED
    BY <1>22, <1>a, <2>1, StandStill DEF ResumeRefused, mail
<1>23. ASSUME Discard PROVE SafeInv'
  <2>1. FilesSafe'
    BY <1>23, <1>a, <1>c, NoneAssumption, SetStatusType DEF Discard, FilesSafe, manager, Status, recovery
  <2> QED
    BY <1>23, <1>a, <2>1, StandStill DEF Discard, mail
<1>24. ASSUME Cancel PROVE SafeInv'
  <2>1. FilesSafe'
    BY <1>24, <1>a, <1>c, NoneAssumption, SetStatusType DEF Cancel, FilesSafe, manager, Status, recovery
  <2> QED
    BY <1>24, <1>a, <2>1, StandStill DEF Cancel, mail
<1>25. ASSUME ClearLands PROVE SafeInv'
  <2>1. FilesSafe'
    BY <1>25, <1>a, <1>c, NoneAssumption, SetStatusType DEF ClearLands, FilesSafe, manager, Status, recovery
  <2> QED
    BY <1>25, <1>a, <2>1, StandStill DEF ClearLands, mail
<1>26. ASSUME SwitchMailbox PROVE SafeInv'
  <2>1. FilesSafe'
    BY <1>26, <1>a, <1>c, NoneAssumption, SetStatusType DEF SwitchMailbox, FilesSafe, manager, Status, recovery
  <2> QED
    BY <1>26, <1>a, <2>1, StandStill DEF SwitchMailbox, mail
<1>27. ASSUME Crash PROVE SafeInv'
  <2>1. \A r \in RunId :
            /\ runs'[r].type = runs[r].type /\ runs'[r].snap.type = "archive"
            /\ runs'[r].pc = IF runs[r].pc = "unused" THEN "unused" ELSE "done"
    BY <1>27, <1>c DEF Crash, Ended, Run, NoFile
  <2>2. \A r \in RunId : RunSafe(r)'
    BY <1>a, <2>1 DEF RunSafe, Deleting
  <2>3. SingleLive'
    BY <2>1 DEF SingleLive, Live
  <2>4. RemoverRan' /\ HasFile'
    BY <1>27, <1>a, <2>1 DEF Crash, SafeInv, RemoverRan, HasFile, OnServer, mail
  <2>5. FilesSafe'
    BY <1>27, <1>a, <1>b, NoneAssumption DEF Crash, FilesSafe, TypeOK
  <2> QED
    BY <1>a, <2>2, <2>3, <2>4, <2>5 DEF SafeInv
<1>28. CASE UNCHANGED vars
  BY <1>28, <1>a, StandStill DEF vars, manager, recovery, FilesSafe
<1> QED
  BY <1>1, <1>2, <1>3, <1>4, <1>5, <1>6, <1>7, <1>8, <1>9, <1>10, <1>11,
      <1>12, <1>13, <1>14, <1>15, <1>16, <1>17, <1>18, <1>19, <1>20, <1>21,
      <1>22, <1>23, <1>24, <1>25, <1>26, <1>27, <1>28, <1>29 DEF Next, Step, Work

(* A message an archive-and-delete removed from the server has a file of   *)
(* its UID in the vault.  (verify_archived_emails, bulk_delete)            *)
THEOREM FileBeforeDelete ==
    ASSUME NoOverlap, NoDeleteEverywhere PROVE Spec => []DeletedHasFile
<1>1. SafeInv => DeletedHasFile
  BY DEF SafeInv, HasFile, DeletedHasFile
<1> QED
  BY <1>1, InitSafe, NextSafe, PTL DEF Spec

-----------------------------------------------------------------------------
(* What one run is to the manager while the user does not overlap runs.    *)
(* The operation is its own; until the verification it has its type and    *)
(* mailbox, so that what is written to the file is what was chosen.  A run *)
(* that was cancelled before or in its deletes finds the flag that stops   *)
(* it for as long as it lives: only a new start() resets it.               *)

Early == {"persist", "token", "archiveSent", "archive", "verify"}
Working == Early \cup Deleting
Stoppable == {"archiveSent", "archive", "verify"}

OfRun(r) == [type |-> runs[r].type, mbox |-> runs[r].mbox, uids |-> runs[r].uids]
Named(f) == \A u \in f.uids : <<f.type, <<f.mbox, u>>>> \in selected

Managed(r) ==
    /\ Live(r) => op # None /\ op.owner = r
    /\ runs[r].pc \in Early => op.type = runs[r].type /\ op.mbox = runs[r].mbox
    /\ runs[r].pc \in {"persist", "persist2"} => runs[r].snap = OfRun(r)
    /\ runs[r].pc \in Working => Named(OfRun(r))

Heeds(r) ==
    /\ runs[r].pc = "unused" => askedAt[r] = "unused"
    /\ runs[r].pc = "delete" => token = <<r, "delete">>
    /\ askedAt[r] \in Stoppable =>
          runs[r].pc = "done" \/ (runs[r].pc \in Stoppable /\ cancelled)
    /\ askedAt[r] = "delete" =>
          \/ runs[r].pc = "done"
          \/ /\ runs[r].pc = "delete" /\ cancelled /\ <<r, "delete">> \in flagged
             /\ \A u \in Uid : runs[r].task[u] = "deleting" => u \in flying[r]

FilesNamed ==
    /\ pendingFile \notin {None, Torn} => Named(pendingFile)
    /\ banner # None => Named(banner)

ManagerInv ==
    /\ SingleLive /\ FilesNamed
    /\ op # None => runs[op.owner].pc # "unused"
    /\ \A r \in RunId : Managed(r) /\ Heeds(r)

LEMMA InitManager == Init => ManagerInv
<1> SUFFICES ASSUME Init PROVE ManagerInv
  OBVIOUS
<1>1. \A r \in RunId : Managed(r) /\ Heeds(r) /\ ~Live(r)
  BY DEF Init, Managed, Heeds, Live, Early, Working, Deleting, Stoppable
<1> QED
  BY <1>1 DEF Init, ManagerInv, SingleLive, FilesNamed

(* A status written to the current operation leaves the rest of it.        *)
SameOp == (op' = None <=> op = None) /\
          (op # None => op'.type = op.type /\ op'.mbox = op.mbox /\ op'.owner = op.owner)

LEMMA StatusKeepsOp ==
    ASSUME op \in Op \cup {None}, NEW s \in Status, SetStatus(s)
    PROVE  SameOp
  BY NoneAssumption DEF SetStatus, Op, SameOp

(* Where the try block of start() ends, for the manager.                   *)
LEMMA FinishMoves ==
    ASSUME TypeOK, NEW r \in RunId, Live(r), Finish(r)
    PROVE  /\ \A q \in RunId \ {r} : runs'[q] = runs[q]
           /\ runs'[r].pc = IF cancelled THEN "done" ELSE "clear"
           /\ SameOp
<1>1. runs \in [RunId -> Run] /\ runs[r] \in Run /\ op \in Op \cup {None}
  BY DEF TypeOK
<1>2. CASE cancelled
  BY <1>1, <1>2, EndType, EndedType DEF Finish, Live, SameOp
<1>3. CASE ~cancelled
  <2>1. SetPC(r, "clear") /\ SetStatus("complete") /\ "clear" \in PC /\ "complete" \in Status
    BY <1>3 DEF Finish, PC, Status
  <2> QED
    BY <1>1, <1>3, <2>1, SetPCType, StatusKeepsOp
<1> QED
  BY <1>2, <1>3

(* One run advances: the others do not live, and keep.                     *)
LEMMA ManagerAdvances ==
    ASSUME ManagerInv, NEW r \in RunId, Live(r), TypeOK,
           \A q \in RunId \ {r} : runs'[q] = runs[q], runs'[r].pc # "unused",
           SameOp, FilesNamed', Managed(r)', Heeds(r)', UNCHANGED <<askedAt, flying>>
    PROVE  ManagerInv'
<1>1. ASSUME NEW q \in RunId \ {r} PROVE Managed(q)' /\ Heeds(q)' /\ ~Live(q) /\ ~Live(q)'
  <2>1. ~Live(q) /\ runs'[q] = runs[q]
    BY DEF ManagerInv, SingleLive
  <2>2. runs[q].pc \in {"unused", "done"}
    BY <2>1 DEF Live
  <2>3. Heeds(q)
    BY DEF ManagerInv
  <2> QED
    BY <2>1, <2>2, <2>3 DEF Managed, Heeds, Live, Early, Working, Deleting, Stoppable
<1>2. SingleLive'
  BY <1>1 DEF SingleLive
<1>3. op' # None => runs'[op'.owner].pc # "unused"
  <2> SUFFICES ASSUME op' # None PROVE runs'[op'.owner].pc # "unused"
    OBVIOUS
  <2>1. op # None /\ op'.owner = op.owner /\ op.owner \in RunId
    BY NoneAssumption DEF SameOp, TypeOK, Op
  <2> QED
    BY <2>1 DEF ManagerInv
<1> QED
  BY <1>1, <1>2, <1>3 DEF ManagerInv

(* ... and ends or has only its file to clear.                             *)
LEMMA ManagerEnds ==
    ASSUME ManagerInv, NEW r \in RunId, Live(r), TypeOK,
           \A q \in RunId \ {r} : runs'[q] = runs[q],
           runs'[r].pc \in {"clear", "done"},
           runs'[r].pc = "clear" => ~cancelled,
           SameOp, FilesNamed', UNCHANGED <<askedAt, flying>>
    PROVE  ManagerInv'
<1>1. Managed(r) /\ Heeds(r)
  BY DEF ManagerInv
<1>2. Managed(r)'
  BY <1>1 DEF Managed, SameOp, Live, Early, Working, Deleting
<1>3. Heeds(r)'
  BY <1>1 DEF Heeds, Live, Stoppable
<1> QED
  BY <1>2, <1>3, ManagerAdvances

(* A task of a command moves on: nothing the manager knows of.             *)
LEMMA TaskMoves ==
    ASSUME TypeOK, NEW r \in RunId, NEW u \in Uid, Work(r, u)
    PROVE  /\ \A q \in RunId : /\ runs'[q].pc = runs[q].pc /\ runs'[q].type = runs[q].type
                               /\ runs'[q].mbox = runs[q].mbox /\ runs'[q].uids = runs[q].uids
                               /\ runs'[q].snap = runs[q].snap
           /\ runs[r].pc \in {"archive", "delete", "purge"}
           /\ UNCHANGED <<manager, token, recovery, view, history, bounds>>
           /\ flagged \subseteq flagged'
           /\ \A q \in RunId, v \in Uid : runs'[q].task[v] = "deleting" =>
                 \/ runs[q].task[v] = "deleting"
                 \/ q = r /\ runs[q].pc = "delete" /\ ~Stopped(q, "delete")
<1>1. PICK t \in Task : SetTask(r, u, t)
  BY DEF Work, Fetch, StoreBegins, StoreEnds, Skip, DeleteIsSent,
         DeleteIsAnswered, Answers, Purge, Task
<1>2. \A q \in RunId : /\ runs'[q].pc = runs[q].pc /\ runs'[q].type = runs[q].type
                       /\ runs'[q].mbox = runs[q].mbox /\ runs'[q].uids = runs[q].uids
                       /\ runs'[q].snap = runs[q].snap
  BY <1>1, SetTaskType DEF TypeOK
<1>3. /\ runs[r].pc \in {"archive", "delete", "purge"} /\ flagged \subseteq flagged'
      /\ UNCHANGED <<manager, token, recovery, view, history, bounds>>
  BY DEF Work, Fetch, StoreBegins, StoreEnds, Skip, DeleteIsSent,
         DeleteIsAnswered, Answers, Purge, commands
<1>4. runs'[r].task[u] = "deleting" =>
        \/ runs[r].task[u] = "deleting"
        \/ runs[r].pc = "delete" /\ ~Stopped(r, "delete")
  <2>1. CASE DeleteIsSent(r, u)
    BY <2>1 DEF DeleteIsSent
  <2>2. CASE ~DeleteIsSent(r, u)
    <3>1. PICK s \in {"fetched", "storing", "stored", "failed", "skipped", "deleted"} :
              SetTask(r, u, s)
      BY <2>2 DEF Work, Fetch, StoreBegins, StoreEnds, Skip, DeleteIsAnswered, Answers,
         Purge
    <3>2. s \in Task
      BY DEF Task
    <3>3. runs'[r].task[u] = s
      BY <3>1, <3>2 DEF SetTask, TypeOK, Run
    <3> QED
      BY <3>3
  <2> QED
    BY <2>1, <2>2
<1>5. /\ \A v \in Uid \ {u} : runs'[r].task[v] = runs[r].task[v]
      /\ \A q \in RunId \ {r} : runs'[q] = runs[q]
  BY <1>1, SetTaskType DEF TypeOK
<1> QED
  BY <1>2, <1>3, <1>4, <1>5

(* A new run, when no other lives.                                         *)
LEMMA ManagerLaunches ==
    ASSUME NoOverlap, TypeOK, ManagerInv, NEW r \in RunId, NEW type \in AllTypes,
           NEW mbox \in Mailbox, NEW uids \in SUBSET Uid, Launch(r, type, mbox, uids),
           \A u \in uids : <<type, <<mbox, u>>>> \in selected',
           selected \subseteq selected', pendingFile' = pendingFile,
           banner' \in {banner, None}, UNCHANGED <<askedAt, flying, commands>>
    PROVE  ManagerInv'
<1>1. /\ \A q \in RunId : ~Live(q)
      /\ \A q \in RunId \ {r} : runs'[q] = runs[q]
      /\ runs[r].pc = "unused"
  BY DEF Launch, NoOverlap, TypeOK
<1>2. /\ runs'[r].pc = "persist" /\ runs'[r].type = type /\ runs'[r].mbox = mbox
      /\ runs'[r].uids = uids /\ runs'[r].snap = OfRun(r)'
      /\ op'.type = type /\ op'.mbox = mbox /\ op'.owner = r
  BY DEF Launch, TypeOK, OfRun, FileOf
<1>3. op' # None
  BY LaunchType
<1>4. Managed(r)'
  BY <1>2, <1>3 DEF Managed, OfRun, Named
<1>5. Heeds(r)'
  BY <1>1, <1>2 DEF Heeds, ManagerInv, Stoppable
<1>6. \A q \in RunId \ {r} : Managed(q)' /\ Heeds(q)' /\ ~Live(q)'
  <2> TAKE q \in RunId \ {r}
  <2>1. runs'[q] = runs[q] /\ runs[q].pc \in {"unused", "done"} /\ Heeds(q)
    BY <1>1 DEF Live, ManagerInv
  <2> QED
    BY <2>1 DEF Managed, Heeds, Live, Early, Working, Deleting, Stoppable
<1>7. FilesNamed'
  BY DEF FilesNamed, Named, ManagerInv
<1>8. SingleLive'
  BY <1>6 DEF SingleLive
<1> QED
  BY <1>2, <1>4, <1>5, <1>6, <1>7, <1>8 DEF ManagerInv

(* A step that leaves the runs, the operation and the flags alone.         *)
LEMMA ManagerStands ==
    ASSUME ManagerInv, UNCHANGED <<manager, runs, commands, selected, askedAt, flying>>,
           pendingFile' \in {pendingFile, None}, banner' \in {banner, None}
    PROVE  ManagerInv'
<1>1. FilesNamed'
  BY DEF ManagerInv, FilesNamed, Named
<1>2. \A r \in RunId : Managed(r)' /\ Heeds(r)'
  BY DEF ManagerInv, Managed, Heeds, Live, Named, OfRun, manager, commands
<1> QED
  BY <1>1, <1>2 DEF ManagerInv, SingleLive, Live, manager

LEMMA NextManager ==
    ASSUME NoOverlap PROVE TypeInv /\ ManagerInv /\ [Next]_vars => ManagerInv'
<1> SUFFICES ASSUME TypeInv, ManagerInv, [Next]_vars PROVE ManagerInv'
  OBVIOUS
<1>a. TypeOK /\ TypeOK'
  BY NextType DEF TypeInv
<1>b. \A r \in RunId : Managed(r) /\ Heeds(r)
  BY DEF ManagerInv
<1>c. runs \in [RunId -> Run] /\ op \in Op \cup {None} /\ \A r \in RunId : runs[r] \in Run
  BY <1>a DEF TypeOK
<1>d. FilesNamed
  BY DEF ManagerInv
<1>1. ASSUME NEW r \in RunId, Start(r) PROVE ManagerInv'
  <2>1. PICK type \in Types, uids \in SUBSET Uid :
            /\ Launch(r, type, view, uids)
            /\ selected' = selected \cup ({type} \X ({view} \X uids))
    BY <1>1 DEF Start
  <2>2. type \in AllTypes /\ view \in Mailbox
    BY <1>a, ConstantsAssumption DEF TypeOK
  <2>3. \A u \in uids : <<type, <<view, u>>>> \in selected'
    BY <2>1
  <2>4. selected \subseteq selected'
    BY <2>1
  <2> QED
    BY <1>1, <1>a, <2>1, <2>2, <2>3, <2>4, ManagerLaunches DEF Start, recovery
<1>2. ASSUME NEW r \in RunId, Resume(r) PROVE ManagerInv'
  <2>1. banner \in File /\ Named(banner)
    BY <1>2, <1>a, <1>d DEF Resume, TypeOK, FilesNamed
  <2>2. banner.type \in AllTypes /\ banner.mbox \in Mailbox /\ banner.uids \in SUBSET Uid
    BY <2>1 DEF File
  <2>3. \A u \in banner.uids : <<banner.type, <<banner.mbox, u>>>> \in selected
    BY <2>1 DEF Named
  <2> QED
    BY <1>2, <1>a, <2>2, <2>3, ManagerLaunches DEF Resume, history, commands
<1>3. ASSUME NEW r \in RunId, Persisted(r) PROVE ManagerInv'
  <2>1. /\ runs'[r].pc = "token" /\ runs'[r].type = runs[r].type
        /\ runs'[r].mbox = runs[r].mbox /\ runs'[r].uids = runs[r].uids
        /\ runs[r].pc = "persist"
        /\ \A q \in RunId \ {r} : runs'[q] = runs[q]
    BY <1>3, <1>c, SetPCType DEF Persisted, PC
  <2>2. FilesNamed'
    <3>1. pendingFile' = OfRun(r) /\ Named(OfRun(r)) /\ UNCHANGED <<banner, selected>>
      BY <1>3, <1>b DEF Persisted, Managed, Working, Early, history
    <3> QED
      BY <3>1, <1>d DEF FilesNamed, Named
  <2>3. Managed(r)'
    BY <1>3, <1>b, <2>1 DEF Persisted, Managed, Live, Early, Working, Deleting, Named,
       OfRun, manager, history
  <2>4. Heeds(r)'
    BY <1>3, <1>b, <2>1 DEF Persisted, Heeds, Stoppable, history
  <2> QED
    BY <1>3, <1>a, <2>1, <2>2, <2>3, <2>4, ManagerAdvances
       DEF Persisted, Live, SameOp, manager, history
<1>4. ASSUME NEW r \in RunId, PersistFails(r) \/ StepFails(r) PROVE ManagerInv'
  <2>1. Live(r) /\ End(r)
    BY <1>4 DEF PersistFails, StepFails, Live
  <2>2. runs'[r].pc = "done" /\ \A q \in RunId \ {r} : runs'[q] = runs[q]
    BY <2>1, <1>c, EndType, EndedType DEF Live
  <2>3. SameOp
    BY <1>4, <1>c, StatusKeepsOp DEF PersistFails, StepFails, SameOp, manager, Status
  <2>4. FilesNamed' /\ UNCHANGED <<askedAt, flying>>
    BY <1>4, <1>d DEF PersistFails, StepFails, FilesNamed, Named, recovery, history
  <2> QED
    BY <1>a, <2>1, <2>2, <2>3, <2>4, ManagerEnds
<1>5. ASSUME NEW r \in RunId, TokenFresh(r) PROVE ManagerInv'
  <2>1. FilesNamed' /\ UNCHANGED <<askedAt, flying>> /\ Live(r) /\ runs[r].pc = "token"
    BY <1>5, <1>d DEF TokenFresh, FilesNamed, Named, recovery, history, Live
  <2>2. /\ runs'[r].pc \in {"archiveSent", "deleteSent", "purge"}
        /\ runs'[r].type = runs[r].type
        /\ runs'[r].pc # "purge" => runs'[r].mbox = runs[r].mbox /\ runs'[r].uids = runs[r].uids
        /\ \A q \in RunId \ {r} : runs'[q] = runs[q]
    <3>1. CASE runs[r].type = "delete_everywhere"
      BY <1>5, <1>c, <3>1 DEF TokenFresh, Run
    <3>2. CASE runs[r].type # "delete_everywhere"
      BY <1>5, <1>c, <3>2, SetPCType DEF TokenFresh, PC
    <3> QED
      BY <3>1, <3>2
  <2>3. SameOp
    BY <1>5, <1>c, StatusKeepsOp DEF TokenFresh, SameOp, Status, Active
  <2>4. Managed(r)'
    BY <1>5, <1>b, <2>1, <2>2, <2>3 DEF TokenFresh, Managed, SameOp, Live, Early, Working,
       Deleting, Named, OfRun, history
  <2>5. Heeds(r)'
    BY <1>5, <1>b, <2>1, <2>2 DEF TokenFresh, Heeds, Stoppable, commands
  <2> QED
    BY <1>a, <2>1, <2>2, <2>3, <2>4, <2>5, ManagerAdvances
<1>6. ASSUME NEW r \in RunId, ArchiveReturns(r) \/ DeleteReturns(r) \/ PurgeReturns(r),
             Finish(r)
      PROVE  ManagerInv'
  <2>1. Live(r) /\ UNCHANGED <<recovery, askedAt, flying, selected>>
    BY <1>6 DEF ArchiveReturns, DeleteReturns, PurgeReturns, Live, history
  <2>2. FilesNamed'
    BY <1>d, <2>1 DEF FilesNamed, Named, recovery
  <2> QED
    BY <1>a, <1>6, <2>1, <2>2, FinishMoves, ManagerEnds
<1>7. ASSUME NEW r \in RunId, ArchiveReturns(r), ~Finish(r) PROVE ManagerInv'
  <2>1. SetPC(r, "verify") /\ SetStatus("verifying") /\ ~cancelled /\ runs[r].pc = "archive"
    BY <1>7 DEF ArchiveReturns
  <2>2. /\ runs'[r].pc = "verify" /\ runs'[r].type = runs[r].type
        /\ runs'[r].mbox = runs[r].mbox /\ runs'[r].uids = runs[r].uids
        /\ \A q \in RunId \ {r} : runs'[q] = runs[q]
    BY <1>c, <2>1, SetPCType DEF PC
  <2>3. SameOp
    BY <1>c, <2>1, StatusKeepsOp DEF Status, Active
  <2>4. UNCHANGED <<cancelled, recovery, askedAt, flying, selected, commands>>
    BY <1>7 DEF ArchiveReturns, history
  <2>5. FilesNamed'
    BY <1>d, <2>4 DEF FilesNamed, Named, recovery
  <2>6. Managed(r)'
    BY <1>b, <2>1, <2>2, <2>3, <2>4 DEF Managed, SameOp, Live, Early, Working, Deleting,
       Named, OfRun
  <2>7. Heeds(r)'
    BY <1>b, <2>1, <2>2, <2>4 DEF Heeds, Stoppable, commands
  <2> QED
    BY <1>a, <2>1, <2>2, <2>3, <2>4, <2>5, <2>6, <2>7, ManagerAdvances DEF Live
<1>8. ASSUME NEW r \in RunId, Verify(r) PROVE ManagerInv'
  <2>1. FilesNamed' /\ UNCHANGED <<askedAt, flying>> /\ Live(r) /\ runs[r].pc = "verify"
    BY <1>8, <1>d DEF Verify, FilesNamed, Named, recovery, history, Live
  <2>2. CASE cancelled
    <3>1. /\ runs'[r].pc = "done" /\ SameOp
          /\ \A q \in RunId \ {r} : runs'[q] = runs[q]
      BY <1>8, <1>c, <2>1, <2>2, EndType, EndedType DEF Verify, SameOp
    <3> QED
      BY <1>a, <2>1, <3>1, ManagerEnds
  <2>3. CASE ~cancelled
    <3>1. /\ op \in Op /\ op.type = runs[r].type /\ op.mbox = runs[r].mbox /\ op.owner = r
      BY <1>b, <1>c, <2>1 DEF Managed, Early, Live
    <3>2. /\ op' = [op EXCEPT !.status = "deleting", !.uids = Verified(r)]
          /\ runs' = [runs EXCEPT ![r] = [runs[r] EXCEPT !.pc = "persist2",
                                  !.uids = Verified(r), !.snap = FileOf(op')]]
      BY <1>8, <1>c, <2>3 DEF Verify
    <3>3. /\ op'.type = op.type /\ op'.mbox = op.mbox /\ op'.owner = op.owner
          /\ op'.uids = Verified(r) /\ op' \in Op /\ op' # None
      <4>1. Verified(r) \in SUBSET Uid
        BY <1>c DEF Verified, Run
      <4> QED
        BY <3>1, <3>2, <4>1, NoneAssumption DEF Op, Status, Active
    <3>4. runs'[r] = [runs[r] EXCEPT !.pc = "persist2", !.uids = Verified(r),
                                     !.snap = FileOf(op')]
          /\ \A q \in RunId \ {r} : runs'[q] = runs[q]
      BY <1>c, <3>2
    <3>5. /\ runs'[r].pc = "persist2" /\ runs'[r].type = runs[r].type
          /\ runs'[r].mbox = runs[r].mbox /\ runs'[r].uids = Verified(r)
          /\ runs'[r].snap = FileOf(op')
      BY <1>c, <3>4 DEF Run
    <3>6. Named(OfRun(r))'
      <4>1. Verified(r) \subseteq runs[r].uids /\ Named(OfRun(r)) /\ selected' = selected
        BY <1>8, <1>b, <2>1 DEF Verified, Verify, Managed, Working, Early, history
      <4> QED
        BY <4>1, <3>5 DEF Named, OfRun
    <3>7. Managed(r)'
      BY <3>1, <3>3, <3>5, <3>6 DEF Managed, Early, OfRun, FileOf, Live
    <3>8. SameOp
      BY <3>1, <3>3, NoneAssumption DEF SameOp
    <3>9. Heeds(r)'
      BY <1>8, <1>b, <2>1, <2>3, <3>5 DEF Verify, Heeds, Stoppable, commands
    <3> QED
      BY <1>a, <2>1, <3>4, <3>5, <3>7, <3>8, <3>9, ManagerAdvances
  <2> QED
    BY <2>2, <2>3
<1>9. ASSUME NEW r \in RunId, Persisted2(r) PROVE ManagerInv'
  <2>1. /\ runs'[r].pc = "token2" /\ runs'[r].type = runs[r].type
        /\ runs'[r].mbox = runs[r].mbox /\ runs'[r].uids = runs[r].uids
        /\ runs[r].pc = "persist2"
        /\ \A q \in RunId \ {r} : runs'[q] = runs[q]
    BY <1>9, <1>c, SetPCType DEF Persisted2, PC
  <2>2. FilesNamed'
    <3>1. pendingFile' = OfRun(r) /\ Named(OfRun(r)) /\ UNCHANGED <<banner, selected>>
      BY <1>9, <1>b DEF Persisted2, Managed, Working, Deleting, history
    <3> QED
      BY <3>1, <1>d DEF FilesNamed, Named
  <2>3. Managed(r)'
    BY <1>9, <1>b, <2>1 DEF Persisted2, Managed, Live, Early, Working, Deleting, Named,
       OfRun, manager, history
  <2>4. Heeds(r)'
    BY <1>9, <1>b, <2>1 DEF Persisted2, Heeds, Stoppable, history
  <2> QED
    BY <1>9, <1>a, <2>1, <2>2, <2>3, <2>4, ManagerAdvances
       DEF Persisted2, Live, SameOp, manager, history
<1>10. ASSUME NEW r \in RunId, ArchiveBegins(r) \/ TokenFresh2(r) \/ DeleteBegins(r)
       PROVE  ManagerInv'
  <2>1. /\ runs'[r].type = runs[r].type
        /\ runs'[r].mbox = runs[r].mbox /\ runs'[r].uids = runs[r].uids
        /\ \A q \in RunId \ {r} : runs'[q] = runs[q]
        /\ \/ runs[r].pc = "archiveSent" /\ runs'[r].pc = "archive"
           \/ runs[r].pc = "token2" /\ runs'[r].pc = "deleteSent"
           \/ runs[r].pc = "deleteSent" /\ runs'[r].pc = "delete" /\ token' = <<r, "delete">>
    <3>1. CASE ArchiveBegins(r)
      BY <3>1, <1>c, SetPCType DEF ArchiveBegins, PC
    <3>2. CASE TokenFresh2(r)
      BY <3>2, <1>c, SetPCType DEF TokenFresh2, PC
    <3>3. CASE DeleteBegins(r)
      BY <3>3, <1>c DEF DeleteBegins, Run
    <3> QED
      BY <1>10, <3>1, <3>2, <3>3
  <2>2. UNCHANGED <<manager, recovery, selected, askedAt, flying, flagged>>
    BY <1>10 DEF ArchiveBegins, TokenFresh2, DeleteBegins, commands, history
  <2>3. FilesNamed' /\ SameOp
    BY <1>d, <2>2 DEF FilesNamed, Named, recovery, SameOp, manager
  <2>4. Managed(r)'
    BY <1>b, <2>1, <2>2 DEF Managed, Live, Early, Working, Deleting, Named, OfRun, manager
  <2>5. Heeds(r)'
    BY <1>b, <2>1, <2>2 DEF Heeds, Stoppable, manager
  <2> QED
    BY <1>a, <2>1, <2>2, <2>3, <2>4, <2>5, ManagerAdvances DEF Live
<1>11. ASSUME NEW r \in RunId, Cleared(r) PROVE ManagerInv'
  <2>1. Live(r) /\ End(r)
    BY <1>11 DEF Cleared, Live
  <2>2. runs'[r].pc = "done" /\ \A q \in RunId \ {r} : runs'[q] = runs[q]
    BY <2>1, <1>c, EndType, EndedType DEF Live
  <2>3. SameOp /\ FilesNamed' /\ UNCHANGED <<askedAt, flying>>
    BY <1>11, <1>d DEF Cleared, SameOp, manager, FilesNamed, Named, history
  <2> QED
    BY <1>a, <2>1, <2>2, <2>3, ManagerEnds
<1>12. ASSUME NEW r \in RunId, NEW u \in Uid, Work(r, u) PROVE ManagerInv'
  <2>1. /\ \A q \in RunId : /\ runs'[q].pc = runs[q].pc /\ runs'[q].type = runs[q].type
                            /\ runs'[q].mbox = runs[q].mbox /\ runs'[q].uids = runs[q].uids
                            /\ runs'[q].snap = runs[q].snap
        /\ UNCHANGED <<manager, token, recovery, history>>
        /\ flagged \subseteq flagged'
        /\ \A q \in RunId, v \in Uid : runs'[q].task[v] = "deleting" =>
              \/ runs[q].task[v] = "deleting"
              \/ runs[q].pc = "delete" /\ ~Stopped(q, "delete")
    BY <1>12, <1>a, TaskMoves
  <2>2. \A q \in RunId : Managed(q)'
    BY <1>b, <2>1 DEF Managed, Live, Named, OfRun, manager, history
  <2>3. \A q \in RunId : Heeds(q)'
    <3> SUFFICES ASSUME NEW q \in RunId PROVE Heeds(q)'
      OBVIOUS
    <3>1. Heeds(q) /\ runs'[q].pc = runs[q].pc /\ cancelled' = cancelled /\ token' = token
          /\ askedAt' = askedAt /\ flying' = flying
      BY <1>b, <2>1 DEF manager, history
    <3>2. <<q, "delete">> \in flagged => <<q, "delete">> \in flagged'
      BY <2>1
    <3>3. <<q, "delete">> \in flagged => \A v \in Uid :
             runs'[q].task[v] = "deleting" => runs[q].task[v] = "deleting"
      BY <2>1 DEF Stopped
    <3> QED
      BY <3>1, <3>2, <3>3 DEF Heeds
  <2>4. FilesNamed'
    BY <1>d, <2>1 DEF FilesNamed, Named, recovery, history
  <2>5. SingleLive'
    BY <2>1 DEF ManagerInv, SingleLive, Live
  <2>6. op' # None => runs'[op'.owner].pc # "unused"
    BY <1>c, <2>1, NoneAssumption DEF ManagerInv, manager, Op
  <2> QED
    BY <2>2, <2>3, <2>4, <2>5, <2>6 DEF ManagerInv
<1>13. ASSUME ResumeRefused \/ Discard \/ ClearLands \/ SwitchMailbox PROVE ManagerInv'
  BY <1>13, ManagerStands DEF ResumeRefused, Discard, ClearLands, SwitchMailbox, recovery,
     history
<1>14. CASE Cancel
  <2>1. op \in Op /\ op # None /\ op.owner \in RunId
    BY <1>14, <1>c DEF Cancel, IsRunning, Op
  <2>2. SameOp /\ UNCHANGED <<runs, token, pendingFile, banner, selected>> /\ cancelled'
    BY <1>14, <1>c, StatusKeepsOp DEF Cancel, Status
  <2>3. /\ flagged' = flagged \cup {token}
        /\ askedAt' = [askedAt EXCEPT ![op.owner] = runs[op.owner].pc]
        /\ flying' = [flying EXCEPT ![op.owner] =
                        {u \in Uid : runs[op.owner].task[u] = "deleting"}]
    BY <1>14 DEF Cancel
  <2>4. FilesNamed'
    BY <1>d, <2>2 DEF FilesNamed, Named
  <2>5. \A q \in RunId : Managed(q)'
    BY <1>b, <2>2 DEF Managed, SameOp, Live, Named, OfRun
  <2>6. \A q \in RunId : Heeds(q)'
    <3> SUFFICES ASSUME NEW q \in RunId PROVE Heeds(q)'
      OBVIOUS
    <3>1. CASE q = op.owner
      <4>1. /\ askedAt'[q] = runs[q].pc /\ runs[q].pc # "unused"
            /\ flying'[q] = {u \in Uid : runs[q].task[u] = "deleting"}
        BY <1>a, <2>1, <2>3, <3>1 DEF TypeOK, ManagerInv
      <4>2. runs[q].pc = "delete" => token = <<q, "delete">>
        BY <1>b DEF Heeds
      <4> QED
        BY <2>2, <2>3, <4>1, <4>2 DEF Heeds, Stoppable
    <3>2. CASE q # op.owner
      <4>1. ~Live(q)
        BY <1>b, <3>2 DEF Managed
      <4>2. askedAt'[q] = askedAt[q] /\ flying'[q] = flying[q] /\ Heeds(q)
        BY <1>a, <1>b, <2>3, <3>2 DEF TypeOK
      <4> QED
        BY <2>2, <4>1, <4>2 DEF Heeds, Live, Stoppable
    <3> QED
      BY <3>1, <3>2
  <2>7. SingleLive' /\ (op' # None => runs'[op'.owner].pc # "unused")
    BY <2>2 DEF ManagerInv, SingleLive, Live, SameOp
  <2> QED
    BY <2>4, <2>5, <2>6, <2>7 DEF ManagerInv
<1>15. CASE Crash
  <2>1. \A r \in RunId : runs'[r].pc = IF runs[r].pc = "unused" THEN "unused" ELSE "done"
    BY <1>15, <1>c DEF Crash, Ended, Run
  <2>2. op' = None /\ UNCHANGED <<selected, askedAt, flying>>
    BY <1>15 DEF Crash, history
  <2>3. \A r \in RunId : Managed(r)' /\ ~Live(r)'
    BY <2>1 DEF Managed, Live, Early, Working, Deleting
  <2>4. \A r \in RunId : Heeds(r)'
    BY <1>b, <2>1, <2>2 DEF Heeds, Stoppable
  <2>5. FilesNamed'
    <3>1. pendingFile' \in {pendingFile, Torn} /\ banner' \in {None, pendingFile'}
      BY <1>15 DEF Crash
    <3>2. banner' # None => pendingFile' \notin {None, Torn} /\ banner' = pendingFile'
      BY <1>15 DEF Crash
    <3> QED
      BY <1>d, <2>2, <3>1, <3>2 DEF FilesNamed, Named
  <2> QED
    BY <2>2, <2>3, <2>4, <2>5 DEF ManagerInv, SingleLive
<1>16. CASE UNCHANGED vars
  BY <1>16, ManagerStands DEF vars, recovery, history
<1>17. ASSUME NEW r \in RunId, ArchiveReturns(r) \/ DeleteReturns(r) \/ PurgeReturns(r)
       PROVE  ManagerInv'
  <2>1. CASE Finish(r)
    BY <1>6, <1>17, <2>1
  <2>2. CASE ~Finish(r)
    BY <1>7, <1>17, <2>2 DEF DeleteReturns, PurgeReturns
  <2> QED
    BY <2>1, <2>2
<1>18. ASSUME NEW r \in RunId, Step(r) \/ PersistFails(r) \/ StepFails(r) PROVE ManagerInv'
  BY <1>18, <1>3, <1>4, <1>5, <1>8, <1>9, <1>10, <1>11, <1>17 DEF Step
<1> QED
  BY <1>1, <1>2, <1>12, <1>13, <1>14, <1>15, <1>16, <1>18 DEF Next

(* What the recovery file would resume is what the user chose, for every   *)
(* number of runs, resumes, cancels, crashes and failing writes, provided  *)
(* runs do not overlap.  (_persist, _doDelete, resume)                     *)
THEOREM FileIsTheSelection ==
    ASSUME NoOverlap PROVE Spec => []FileNamesSelection
<1>1. ManagerInv => FileNamesSelection
  BY DEF ManagerInv, FilesNamed, Named, FileNamesSelection
<1>2. TypeInv /\ ManagerInv /\ [Next]_vars => ManagerInv'
  BY NextManager
<1> QED
  BY <1>1, <1>2, InitType, NextType, InitManager, PTL DEF Spec

(* Only the two deleting commands take a message off the server.           *)
LEMMA OnlyTasksRemove ==
    ASSUME Next, removedBy' # removedBy
    PROVE  \E r \in RunId, u \in Uid : DeleteIsAnswered(r, u) \/ Purge(r, u)
<1>1. ASSUME NEW r \in RunId, Start(r) \/ Resume(r) PROVE FALSE
  BY <1>1 DEF Start, Resume, mail
<1>2. ASSUME NEW r \in RunId, Step(r) \/ PersistFails(r) \/ StepFails(r) PROVE FALSE
  <2>1. CASE PersistFails(r) \/ StepFails(r)
    BY <2>1 DEF PersistFails, StepFails, mail
  <2>2. CASE Persisted(r) \/ TokenFresh(r) \/ ArchiveBegins(r) \/ ArchiveReturns(r)
    BY <2>2 DEF Persisted, TokenFresh, ArchiveBegins, ArchiveReturns, mail
  <2>3. CASE Verify(r) \/ Persisted2(r) \/ TokenFresh2(r) \/ DeleteBegins(r)
    BY <2>3 DEF Verify, Persisted2, TokenFresh2, DeleteBegins, mail
  <2>4. CASE DeleteReturns(r) \/ PurgeReturns(r) \/ Cleared(r)
    BY <2>4 DEF DeleteReturns, PurgeReturns, Cleared, mail
  <2> QED
    BY <1>2, <2>1, <2>2, <2>3, <2>4 DEF Step
<1>3. ASSUME NEW r \in RunId, NEW u \in Uid, Work(r, u)
      PROVE  DeleteIsAnswered(r, u) \/ Purge(r, u)
  BY <1>3 DEF Work, Fetch, StoreBegins, StoreEnds, Skip, DeleteIsSent, mail
<1>4. CASE ResumeRefused \/ Discard \/ Cancel \/ ClearLands \/ SwitchMailbox \/ Crash
  BY <1>4 DEF ResumeRefused, Discard, Cancel, ClearLands, SwitchMailbox, Crash, mail
<1> QED
  BY <1>1, <1>2, <1>3, <1>4 DEF Next

(* After a Cancel that met it while archiving or verifying, a run removes  *)
(* nothing more from the server; after one that met it while deleting,     *)
(* only what its tasks had sent off by then: whatever the order in which   *)
(* tasks, flags and answers arrive.                                        *)
(* (BulkOperationManager.js:83-95, ArchiveCancelToken, archive.rs:437-441) *)
THEOREM CancelledStops ==
    ASSUME NoOverlap PROVE Spec => CancelStopsDeletes
<1>1. TypeInv /\ ManagerInv /\ [Next]_vars =>
        [\A r \in RunId : askedAt[r] \in {"archiveSent", "archive", "verify", "delete"} =>
            \A m \in Msg : removedBy'[m] = r /\ removedBy[m] # r =>
                askedAt[r] = "delete" /\ \E u \in flying[r] : m = Mail(r, u)]_vars
  <2> SUFFICES ASSUME TypeInv, ManagerInv, Next, NEW r \in RunId,
                      askedAt[r] \in {"archiveSent", "archive", "verify", "delete"},
                      NEW m \in Msg, removedBy'[m] = r, removedBy[m] # r
               PROVE  askedAt[r] = "delete" /\ \E u \in flying[r] : m = Mail(r, u)
    OBVIOUS
  <2>1. TypeOK /\ Heeds(r)
    BY DEF TypeInv, ManagerInv
  <2>2. PICK q \in RunId, u \in Uid : DeleteIsAnswered(q, u) \/ Purge(q, u)
    BY OnlyTasksRemove
  <2>3. q = r /\ m = Mail(r, u)
    BY <2>1, <2>2, AnswersType DEF DeleteIsAnswered, Purge
  <2>4. \/ runs[r].pc = "delete" /\ runs[r].task[u] = "deleting"
        \/ runs[r].pc = "purge"
    BY <2>2, <2>3 DEF DeleteIsAnswered, Purge
  <2> QED
    BY <2>1, <2>3, <2>4 DEF Heeds, Stoppable
<1>2. TypeInv /\ ManagerInv /\ [Next]_vars => ManagerInv'
  BY NextManager
<1> QED
  BY <1>1, <1>2, InitType, NextType, InitManager, PTL DEF Spec, CancelStopsDeletes

-----------------------------------------------------------------------------
(* Where a run goes from one await to the next.                            *)

Keeps(r) == /\ runs'[r].mbox = runs[r].mbox /\ runs'[r].uids = runs[r].uids
            /\ runs'[r].task = runs[r].task
Goes(r, from, to) == runs[r].pc = from /\ runs'[r].pc = to

Moved(r) ==
    \/ /\ runs'[r].pc \in {"clear", "done"}
       /\ runs[r].pc = "archive" => Drained(r) \/ Untouched(r)
    \/ Goes(r, "persist", "token") /\ Keeps(r) /\ pendingFile' = runs[r].snap
    \/ /\ UNCHANGED pendingFile
       /\ \/ Goes(r, "token", "archiveSent") /\ Keeps(r)
          \/ Goes(r, "token", "deleteSent") /\ Keeps(r) /\ runs[r].type = "delete"
          \/ Goes(r, "token", "purge") /\ runs'[r].task = runs[r].task
                /\ runs[r].type = "delete_everywhere"
          \/ Goes(r, "archiveSent", "archive") /\ Keeps(r) /\ token' = <<r, "archive">>
          \/ Goes(r, "archive", "verify") /\ Keeps(r) /\ Drained(r) /\ ~cancelled
                /\ runs[r].type = "archive_and_delete"
          \/ Goes(r, "verify", "persist2") /\ ~cancelled
                /\ runs'[r].mbox = runs[r].mbox /\ runs'[r].uids = Verified(r)
          \/ Goes(r, "token2", "deleteSent") /\ Keeps(r)
          \/ Goes(r, "deleteSent", "delete") /\ token' = <<r, "delete">>
                /\ runs'[r].mbox = runs[r].mbox /\ runs'[r].uids = runs[r].uids
                /\ runs'[r].task = Todo
    \/ Goes(r, "persist2", "token2") /\ Keeps(r) /\ pendingFile' = runs[r].snap

LEMMA StepMoves ==
    ASSUME TypeInv, NEW r \in RunId, Step(r) \/ PersistFails(r) \/ StepFails(r)
    PROVE  /\ Live(r) /\ Moved(r) /\ runs'[r].type = runs[r].type
           /\ \A q \in RunId \ {r} : runs'[q] = runs[q]
           /\ UNCHANGED <<cancelled, flagged, clearing, banner, view, removedBy, selected,
                          askedAt, flying, cancels>>
           /\ ~(Goes(r, "archiveSent", "archive") \/ Goes(r, "deleteSent", "delete"))
                => UNCHANGED token
           /\ runs[r].pc # "purge" => UNCHANGED vault
<1>t. /\ runs \in [RunId -> Run] /\ runs[r] \in Run /\ op \in Op \cup {None}
      /\ Live(r) => op # None
  BY DEF TypeInv, TypeOK, LiveHasOp
<1>1. ASSUME End(r), Live(r)
      PROVE  /\ runs'[r].pc = "done" /\ runs'[r].type = runs[r].type
             /\ \A q \in RunId \ {r} : runs'[q] = runs[q]
  BY <1>1, <1>t, EndType, EndedType DEF Live
<1>2. ASSUME Finish(r), Live(r)
      PROVE  /\ runs'[r].pc \in {"clear", "done"} /\ runs'[r].type = runs[r].type
             /\ \A q \in RunId \ {r} : runs'[q] = runs[q]
  <2>1. CASE cancelled
    BY <1>1, <1>2, <2>1 DEF Finish
  <2>2. CASE ~cancelled
    BY <1>2, <1>t, <2>2, SetPCType DEF Finish, PC
  <2> QED
    BY <2>1, <2>2
<1>3. CASE PersistFails(r) \/ StepFails(r) \/ Cleared(r)
  <2>1. End(r) /\ Live(r)
    BY <1>3 DEF PersistFails, StepFails, Cleared, Live
  <2>2. /\ runs'[r].pc = "done" /\ runs'[r].type = runs[r].type
        /\ \A q \in RunId \ {r} : runs'[q] = runs[q]
    BY <1>1, <2>1
  <2>3. /\ UNCHANGED <<cancelled, flagged, clearing, banner, view, removedBy, selected,
                       askedAt, flying, cancels, token, vault>>
        /\ runs[r].pc = "archive" => Untouched(r)
    BY <1>3 DEF PersistFails, StepFails, Cleared, manager, commands, recovery, mail, history,
       bounds
  <2> QED
    BY <2>1, <2>2, <2>3 DEF Moved, history, bounds
<1>4. CASE Persisted(r)
  <2>1. /\ Goes(r, "persist", "token") /\ Keeps(r) /\ runs'[r].type = runs[r].type
        /\ \A q \in RunId \ {r} : runs'[q] = runs[q]
    BY <1>4, <1>t, SetPCType DEF Persisted, PC, Goes, Keeps
  <2> QED
    BY <1>4, <2>1 DEF Persisted, Moved, Live, Goes, manager, commands, mail, history, bounds
<1>5. CASE TokenFresh(r)
  <2>1. /\ \/ Goes(r, "token", "archiveSent") /\ Keeps(r)
           \/ Goes(r, "token", "deleteSent") /\ Keeps(r) /\ runs[r].type = "delete"
           \/ Goes(r, "token", "purge") /\ runs'[r].task = runs[r].task
                /\ runs[r].type = "delete_everywhere"
        /\ runs'[r].type = runs[r].type /\ \A q \in RunId \ {r} : runs'[q] = runs[q]
    <3>1. CASE runs[r].type = "delete_everywhere"
      BY <1>5, <1>t, <3>1 DEF TokenFresh, Run, Goes
    <3>2. CASE runs[r].type # "delete_everywhere"
      BY <1>5, <1>t, <3>2, SetPCType DEF TokenFresh, PC, Goes, Keeps
    <3> QED
      BY <3>1, <3>2
  <2> QED
    BY <1>5, <2>1 DEF TokenFresh, Moved, Live, Goes, commands, recovery, mail, history, bounds
<1>6. CASE ArchiveBegins(r)
  <2>1. /\ Goes(r, "archiveSent", "archive") /\ Keeps(r) /\ runs'[r].type = runs[r].type
        /\ \A q \in RunId \ {r} : runs'[q] = runs[q]
    BY <1>6, <1>t, SetPCType DEF ArchiveBegins, PC, Goes, Keeps
  <2> QED
    BY <1>6, <2>1 DEF ArchiveBegins, Moved, Live, Goes, manager, recovery, mail, history, bounds
<1>7. CASE ArchiveReturns(r)
  <2>1. Live(r) /\ UNCHANGED <<cancelled, commands, recovery, view, mail, history, bounds>> /\ Drained(r)
    BY <1>7 DEF ArchiveReturns, Live
  <2>2. CASE Finish(r)
    BY <1>2, <2>1, <2>2 DEF Moved, commands, recovery, mail, history, bounds
  <2>3. CASE ~Finish(r)
    <3>1. /\ SetPC(r, "verify") /\ ~cancelled /\ runs[r].type = "archive_and_delete"
          /\ runs[r].pc = "archive" /\ Drained(r)
      BY <1>7, <2>3 DEF ArchiveReturns
    <3>2. /\ Goes(r, "archive", "verify") /\ Keeps(r) /\ runs'[r].type = runs[r].type
          /\ \A q \in RunId \ {r} : runs'[q] = runs[q]
      BY <1>t, <3>1, SetPCType DEF PC, Goes, Keeps
    <3> QED
      BY <2>1, <3>1, <3>2 DEF Moved, commands, recovery, mail, history, bounds
  <2> QED
    BY <2>2, <2>3
<1>8. CASE DeleteReturns(r) \/ PurgeReturns(r)
  <2>1. Live(r) /\ UNCHANGED <<cancelled, commands, recovery, view, removedBy, history, bounds>>
        /\ Finish(r) /\ (runs[r].pc # "purge" => UNCHANGED vault) /\ Drained(r)
    BY <1>8 DEF DeleteReturns, PurgeReturns, Live, mail
  <2> QED
    BY <1>2, <2>1 DEF Moved, commands, recovery, history, bounds
<1>9. CASE Verify(r)
  <2>1. Live(r) /\ UNCHANGED <<cancelled, commands, recovery, view, mail, history, bounds>>
        /\ runs[r].pc # "archive"
    BY <1>9 DEF Verify, Live
  <2>2. CASE cancelled
    BY <1>9, <1>1, <2>1, <2>2 DEF Verify, Moved, commands, recovery, mail, history, bounds
  <2>3. CASE ~cancelled
    <3>1. runs' = [runs EXCEPT ![r] = [runs[r] EXCEPT !.pc = "persist2",
                     !.uids = Verified(r), !.snap = FileOf(op')]]
      BY <1>9, <1>t, <2>3 DEF Verify
    <3>2. /\ Goes(r, "verify", "persist2") /\ runs'[r].mbox = runs[r].mbox
          /\ runs'[r].uids = Verified(r) /\ runs'[r].type = runs[r].type
          /\ \A q \in RunId \ {r} : runs'[q] = runs[q]
      BY <1>9, <1>t, <3>1 DEF Verify, Goes, Run
    <3> QED
      BY <2>1, <2>3, <3>2 DEF Moved, commands, recovery, mail, history, bounds
  <2> QED
    BY <2>2, <2>3
<1>10. CASE Persisted2(r)
  <2>1. /\ Goes(r, "persist2", "token2") /\ Keeps(r) /\ runs'[r].type = runs[r].type
        /\ \A q \in RunId \ {r} : runs'[q] = runs[q]
    BY <1>10, <1>t, SetPCType DEF Persisted2, PC, Goes, Keeps
  <2> QED
    BY <1>10, <2>1 DEF Persisted2, Moved, Live, Goes, manager, commands, mail, history, bounds
<1>11. CASE TokenFresh2(r)
  <2>1. /\ Goes(r, "token2", "deleteSent") /\ Keeps(r) /\ runs'[r].type = runs[r].type
        /\ \A q \in RunId \ {r} : runs'[q] = runs[q]
    BY <1>11, <1>t, SetPCType DEF TokenFresh2, PC, Goes, Keeps
  <2> QED
    BY <1>11, <2>1 DEF TokenFresh2, Moved, Live, Goes, manager, commands, recovery, mail, history, bounds
<1>12. CASE DeleteBegins(r)
  <2>1. /\ Goes(r, "deleteSent", "delete") /\ runs'[r].type = runs[r].type
        /\ runs'[r].mbox = runs[r].mbox /\ runs'[r].uids = runs[r].uids
        /\ runs'[r].task = Todo
        /\ \A q \in RunId \ {r} : runs'[q] = runs[q]
    BY <1>12, <1>t DEF DeleteBegins, Goes, Run
  <2> QED
    BY <1>12, <2>1 DEF DeleteBegins, Moved, Live, Goes, manager, recovery, mail, history, bounds
<1> QED
  BY <1>3, <1>4, <1>5, <1>6, <1>7, <1>8, <1>9, <1>10, <1>11, <1>12 DEF Step

LEMMA LaunchMoves ==
    ASSUME TypeOK, NEW r \in RunId, Start(r) \/ Resume(r)
    PROVE  /\ runs[r].pc = "unused" /\ runs'[r].pc = "persist" /\ runs'[r].task = Todo
           /\ \A q \in RunId \ {r} : runs'[q] = runs[q]
           /\ NoOverlap => \A q \in RunId : ~Live(q)
           /\ UNCHANGED <<commands, clearing, pendingFile, mail>>
           /\ banner' \in {None, banner}
           /\ cancelled' = FALSE
<1>1. PICK type, mbox, uids : Launch(r, type, mbox, uids)
  BY DEF Start, Resume
<1> QED
  BY <1>1 DEF Start, Resume, Launch, NoOverlap, recovery, TypeOK

(* The kinds of steps, with what none of them but the named ones touches.  *)
LEMMA StepKinds ==
    ASSUME Next
    PROVE  \/ \E r \in RunId : Start(r) \/ Resume(r)
           \/ \E r \in RunId : Step(r) \/ PersistFails(r) \/ StepFails(r)
           \/ \E r \in RunId, u \in Uid : Work(r, u)
           \/ /\ ResumeRefused \/ Discard \/ Cancel \/ ClearLands \/ SwitchMailbox
              /\ UNCHANGED <<runs, mail>>
           \/ Crash
  BY DEF Next, ResumeRefused, Discard, Cancel, ClearLands, SwitchMailbox

LEMMA CrashEnds ==
    ASSUME TypeOK, Crash
    PROVE  \A r \in RunId : runs'[r].pc \in {"unused", "done"} /\ runs'[r].type = runs[r].type
  BY EndedType DEF TypeOK, Crash

-----------------------------------------------------------------------------
(* The file names the work of the live run: nothing but its own end or a   *)
(* Discard clears it, and no Discard button is up beside a live run.       *)

NoLateAnswer == "lateAnswer" \notin Env

Unfinished == {"token", "archiveSent", "archive", "verify", "persist2", "token2",
               "deleteSent", "delete"}

Kept ==
    /\ ~clearing
    /\ \A r \in RunId : Live(r) => banner = None
    /\ Recoverable

(* Only a Cancel starts to clear the file of a live run. *)
KeptInv == cancels = 0 => Kept

LEMMA InitKept == Init => KeptInv
  BY DEF Init, KeptInv, Kept, Live, Recoverable

LEMMA CancelsCount ==
    ASSUME TypeOK, Next PROVE cancels' = cancels \/ (Cancel /\ cancels' # 0)
<1>1. ASSUME NEW r \in RunId, Start(r) \/ Resume(r) PROVE cancels' = cancels
  BY <1>1 DEF Start, Resume, bounds
<1>2. ASSUME NEW r \in RunId, Step(r) \/ PersistFails(r) \/ StepFails(r)
      PROVE  cancels' = cancels
  BY <1>2 DEF Step, Persisted, TokenFresh, ArchiveBegins, ArchiveReturns, Verify,
     Persisted2, TokenFresh2, DeleteBegins, DeleteReturns, PurgeReturns, Cleared,
     PersistFails, StepFails, bounds
<1>3. ASSUME NEW r \in RunId, NEW u \in Uid, Work(r, u) PROVE cancels' = cancels
  BY <1>3, TaskMoves DEF bounds
<1>4. CASE Cancel
  BY <1>4 DEF Cancel, TypeOK
<1>5. CASE ResumeRefused \/ Discard \/ ClearLands \/ SwitchMailbox \/ Crash
  BY <1>5 DEF ResumeRefused, Discard, ClearLands, SwitchMailbox, Crash, bounds
<1> QED
  BY <1>1, <1>2, <1>3, <1>4, <1>5 DEF Next

(* No run is left with work to lose.                                       *)
LEMMA NobodyLives ==
    ASSUME ~clearing', \A r \in RunId : runs'[r].pc \in {"unused", "persist", "done"},
           (\E r \in RunId : Live(r)') => banner' = None
    PROVE  Kept'
  BY DEF Kept, Recoverable

LEMMA NextKept ==
    ASSUME NoOverlap, NoLateAnswer
    PROVE  TypeInv /\ ManagerInv /\ KeptInv /\ [Next]_vars => KeptInv'
<1> SUFFICES ASSUME TypeInv, ManagerInv, KeptInv, Next, cancels' = 0 PROVE Kept'
  BY DEF vars, KeptInv, Kept, Recoverable, Live, recovery, bounds
<1>n. cancels = 0 /\ Kept /\ (Cancel => FALSE)
  BY CancelsCount DEF KeptInv, TypeInv, Cancel, TypeOK
<1>t. TypeOK /\ runs \in [RunId -> Run] /\ \A r \in RunId : runs[r] \in Run
  BY DEF TypeInv, TypeOK
<1>1. ASSUME NEW r \in RunId, Start(r) \/ Resume(r) PROVE Kept'
  <2>1. banner' = None
    BY <1>1 DEF Start, Resume, NoLateAnswer, recovery
  <2>2. \A q \in RunId : runs'[q].pc \in {"unused", "persist", "done"}
    BY <1>1, <1>t, LaunchMoves DEF Live
  <2> QED
    BY <1>1, <1>t, <2>1, <2>2, LaunchMoves, NobodyLives, <1>n DEF Kept
<1>2. ASSUME NEW r \in RunId, Step(r) \/ PersistFails(r) \/ StepFails(r) PROVE Kept'
  <2>1. /\ Live(r) /\ Moved(r) /\ runs'[r].type = runs[r].type
        /\ \A q \in RunId \ {r} : runs'[q] = runs[q]
        /\ UNCHANGED <<clearing, banner>>
    BY <1>2, StepMoves DEF recovery
  <2>2. \A q \in RunId \ {r} : runs'[q].pc \in {"unused", "done"}
    BY <2>1 DEF ManagerInv, SingleLive, Live
  <2>3. banner = None /\ ~clearing
    BY <2>1, <1>n DEF Kept
  <2>4. runs[r].pc \in Unfinished =>
            /\ pendingFile \notin {None, Torn} /\ pendingFile.type = runs[r].type
            /\ pendingFile.mbox = runs[r].mbox /\ runs[r].uids \subseteq pendingFile.uids
    BY <1>n DEF Kept, Recoverable, Unfinished
  <2>5. runs[r].pc \in {"persist", "persist2"} =>
            /\ runs[r].snap \notin {None, Torn} /\ runs[r].snap.type = runs[r].type
            /\ runs[r].snap.mbox = runs[r].mbox /\ runs[r].snap.uids = runs[r].uids
    <3>1. runs[r].snap \in File
      BY <1>t DEF Run
    <3>2. runs[r].pc \in {"persist", "persist2"} => runs[r].snap = OfRun(r)
      BY DEF ManagerInv, Managed
    <3>3. /\ OfRun(r).type = runs[r].type /\ OfRun(r).mbox = runs[r].mbox
          /\ OfRun(r).uids = runs[r].uids
      BY DEF OfRun
    <3> QED
      BY <3>1, <3>2, <3>3, NoneAssumption
  <2>6. runs'[r].pc \in Unfinished =>
            /\ pendingFile' \notin {None, Torn} /\ pendingFile'.type = runs'[r].type
            /\ pendingFile'.mbox = runs'[r].mbox /\ runs'[r].uids \subseteq pendingFile'.uids
    <3>1. Verified(r) \subseteq runs[r].uids
      BY DEF Verified
    <3> QED
      BY <2>1, <2>4, <2>5, <3>1 DEF Moved, Goes, Keeps, Unfinished
  <2> QED
    BY <2>1, <2>2, <2>3, <2>6 DEF Kept, Recoverable, Unfinished
<1>3. ASSUME NEW r \in RunId, NEW u \in Uid, Work(r, u) PROVE Kept'
  BY <1>3, <1>t, <1>n, TaskMoves DEF Kept, Recoverable, Live, recovery
<1>4. CASE ResumeRefused \/ SwitchMailbox
  BY <1>4, <1>n DEF ResumeRefused, SwitchMailbox, Kept, Recoverable, Live, recovery
<1>5. CASE Discard
  <2>1. \A r \in RunId : ~Live(r)
    BY <1>5, <1>n DEF Discard, Kept
  <2>2. \A r \in RunId : runs'[r].pc \in {"unused", "done"}
    BY <1>5, <2>1 DEF Discard, Live
  <2> QED
    BY <1>5, <1>n, <2>2, NobodyLives DEF Discard, Kept
<1>6. CASE Cancel \/ ClearLands
  BY <1>6, <1>n DEF ClearLands, Kept
<1>7. CASE Crash
  <2>1. ~clearing' /\ \A r \in RunId : runs'[r].pc \in {"unused", "done"}
    BY <1>7, <1>t, CrashEnds DEF Crash
  <2> QED
    BY <2>1, NobodyLives DEF Live
<1> QED
  BY <1>1, <1>2, <1>3, <1>4, <1>5, <1>6, <1>7, StepKinds

(* A crash, at any await of an operation, finds the work left on file as   *)
(* long as nobody has pressed Cancel: with failing writes, fetches,        *)
(* commands and deletes, and whatever earlier runs and crashes left        *)
(* behind.  (_persist before the first command and after the verification) *)
THEOREM WorkIsRecoverable ==
    ASSUME NoOverlap, NoLateAnswer PROVE Spec => []Recoverable
<1>1. KeptInv => Recoverable
  BY DEF KeptInv, Kept, Recoverable
<1>2. TypeInv /\ ManagerInv /\ [Next]_vars => ManagerInv'
  BY NextManager
<1>3. TypeInv /\ ManagerInv /\ KeptInv /\ [Next]_vars => KeptInv'
  BY NextKept
<1> QED
  BY <1>1, <1>2, <1>3, InitType, NextType, InitManager, InitKept, PTL DEF Spec

-----------------------------------------------------------------------------
(* A purge: the vault loses the copies of UIDs that were let go, which is  *)
(* what the task of each has become.                                       *)

PurgeSafe(r) ==
    /\ runs[r].pc \in {"persist", "token"} => runs[r].task = Todo
    /\ runs[r].pc = "purge" => \A u \in Uid :
          runs[r].task[u] = "deleted" => ~OnServer(Mail(r, u))

PurgeInv == \A r \in RunId : PurgeSafe(r)

LEMMA InitPurge == Init => PurgeInv
  BY DEF Init, PurgeInv, PurgeSafe

(* What left the server does not come back.                                *)
LEMMA StaysRemoved ==
    ASSUME TypeOK, Next, NEW m \in Msg, ~OnServer(m)
    PROVE  ~OnServer(m)'
<1>1. CASE removedBy' = removedBy
  BY <1>1 DEF OnServer
<1>2. CASE removedBy' # removedBy
  <2>1. PICK r \in RunId, u \in Uid : DeleteIsAnswered(r, u) \/ Purge(r, u)
    BY <1>2, OnlyTasksRemove
  <2>2. Answers(r, u)
    BY <2>1 DEF DeleteIsAnswered, Purge
  <2> QED
    BY <2>2, AnswersType DEF OnServer
<1> QED
  BY <1>1, <1>2

LEMMA NextPurge == TypeInv /\ PurgeInv /\ [Next]_vars => PurgeInv'
<1> SUFFICES ASSUME TypeInv, PurgeInv, Next PROVE PurgeInv'
  BY DEF vars, PurgeInv, PurgeSafe, OnServer, Mail, mail
<1>t. TypeOK /\ runs \in [RunId -> Run]
  BY DEF TypeInv, TypeOK
<1>m. \A m \in Msg : ~OnServer(m) => ~OnServer(m)'
  BY <1>t, StaysRemoved
<1>k. ASSUME NEW q \in RunId, runs'[q] = runs[q] PROVE PurgeSafe(q)'
  <2>1. \A u \in Uid : Mail(q, u) \in Msg /\ Mail(q, u)' = Mail(q, u)
    BY <1>t, <1>k, MailType DEF Mail
  <2>2. PurgeSafe(q)
    BY DEF PurgeInv
  <2>3. \A u \in Uid : ~OnServer(Mail(q, u)) => ~OnServer(Mail(q, u))'
    BY <1>m, <2>1 DEF OnServer
  <2> QED
    BY <1>k, <2>2, <2>3 DEF PurgeSafe
<1>1. ASSUME NEW r \in RunId, Start(r) \/ Resume(r) PROVE PurgeInv'
  <2>1. PurgeSafe(r)'
    BY <1>1, <1>t, LaunchMoves DEF PurgeSafe
  <2> QED
    BY <1>1, <1>t, <1>k, <2>1, LaunchMoves DEF PurgeInv
<1>2. ASSUME NEW r \in RunId, Step(r) \/ PersistFails(r) \/ StepFails(r) PROVE PurgeInv'
  <2>1. Moved(r) /\ \A q \in RunId \ {r} : runs'[q] = runs[q]
    BY <1>2, StepMoves
  <2>2. PurgeSafe(r)
    BY DEF PurgeInv
  <2>3. PurgeSafe(r)'
    BY <2>1, <2>2 DEF Moved, Goes, Keeps, PurgeSafe, Todo
  <2> QED
    BY <1>k, <2>1, <2>3 DEF PurgeInv
<1>3. ASSUME NEW r \in RunId, NEW u \in Uid, Work(r, u) PROVE PurgeInv'
  <2>1. PICK t \in Task : SetTask(r, u, t)
    BY <1>3 DEF Work, Fetch, StoreBegins, StoreEnds, Skip, DeleteIsSent,
       DeleteIsAnswered, Answers, Purge, Task
  <2>0. t \in Task /\ runs \in [RunId -> Run] /\ SetTask(r, u, t)
    BY <1>t, <2>1
  <2>2. /\ runs'[r].pc = runs[r].pc /\ runs'[r].mbox = runs[r].mbox
        /\ runs'[r].task[u] = t /\ \A v \in Uid \ {u} : runs'[r].task[v] = runs[r].task[v]
        /\ \A q \in RunId \ {r} : runs'[q] = runs[q]
    BY <2>0 DEF SetTask, Run
  <2>3. PurgeSafe(r)'
    <3>1. CASE runs[r].pc # "purge"
      BY <1>3, <1>t, <2>2, <3>1, TaskMoves DEF PurgeSafe
    <3>2. CASE runs[r].pc = "purge"
      <4>1. Purge(r, u)
        BY <1>3, <3>2 DEF Work, Fetch, StoreBegins, StoreEnds, Skip, DeleteIsSent,
           DeleteIsAnswered
      <4>2. t = "deleted" => Remove(r, Mail(r, u))
        <5>1. CASE SetTask(r, u, "deleted") /\ Remove(r, Mail(r, u))
          BY <5>1
        <5>2. CASE SetTask(r, u, "failed")
          <6>1. runs'[r].task[u] = "failed"
            BY <1>t, <5>2, SetTaskType DEF Task
          <6> QED
            BY <2>2, <6>1
        <5> QED
          BY <4>1, <5>1, <5>2 DEF Purge, Answers
      <4>3. Mail(r, u) \in Msg /\ r # 0
        BY <1>t, MailType DEF RunId
      <4>4. t = "deleted" => ~OnServer(Mail(r, u))'
        BY <1>t, <4>2, <4>3, <2>2 DEF Remove, OnServer, Mail, TypeOK
      <4>5. \A v \in Uid : ~OnServer(Mail(r, v)) => ~OnServer(Mail(r, v))'
        BY <1>m, <1>t, <2>2, MailType DEF OnServer, Mail
      <4> QED
        BY <2>2, <3>2, <4>4, <4>5 DEF PurgeInv, PurgeSafe
    <3> QED
      BY <3>1, <3>2
  <2> QED
    BY <1>k, <2>2, <2>3 DEF PurgeInv
<1>4. CASE UNCHANGED runs
  BY <1>4, <1>k DEF PurgeInv
<1>5. CASE Crash
  BY <1>5, <1>t, CrashEnds DEF PurgeInv, PurgeSafe
<1> QED
  BY <1>1, <1>2, <1>3, <1>4, <1>5, StepKinds

(* "server delete failed -> keep the local copies": whatever else runs,    *)
(* overlaps or crashes, the end of a purge takes the vault copy of a       *)
(* message only when the server no longer has it.  (purgeEverywhere)       *)
THEOREM LastCopyIsKept == Spec => PurgeKeepsLastCopy
<1>1. TypeInv /\ PurgeInv /\ [Next]_vars =>
        [\A r \in RunId, m \in Msg :
            runs[r].pc = "purge" /\ runs'[r].pc # "purge"
               /\ vault[m] # "none" /\ vault'[m] = "none"
            => ~OnServer(m)]_vars
  <2> SUFFICES ASSUME TypeInv, PurgeInv, Next, NEW r \in RunId, NEW m \in Msg,
                      runs[r].pc = "purge", runs'[r].pc # "purge",
                      vault[m] # "none", vault'[m] = "none"
               PROVE  ~OnServer(m)
    OBVIOUS
  <2>t. TypeOK
    BY DEF TypeInv
  <2>1. PurgeReturns(r)
    <3>1. ASSUME NEW q \in RunId, Start(q) \/ Resume(q) PROVE FALSE
      BY <3>1, <2>t, LaunchMoves
    <3>2. ASSUME NEW q \in RunId, Step(q) \/ PersistFails(q) \/ StepFails(q)
          PROVE  q = r
      BY <3>2, StepMoves
    <3>3. ASSUME NEW q \in RunId, NEW u \in Uid, Work(q, u) PROVE FALSE
      BY <3>3, <2>t, TaskMoves
    <3>4. ~Crash
      BY DEF Crash, mail
    <3>5. Step(r) \/ PersistFails(r) \/ StepFails(r)
      BY <3>1, <3>2, <3>3, <3>4, StepKinds
    <3>6. ~StepFails(r)
      BY DEF StepFails, mail
    <3> QED
      BY <3>5, <3>6 DEF Step, PersistFails, Persisted, TokenFresh, ArchiveBegins,
         ArchiveReturns, Verify, Persisted2, TokenFresh2, DeleteBegins, DeleteReturns, Cleared
  <2>2. /\ m[1] = runs[r].mbox /\ m[2] \in runs[r].uids
        /\ runs[r].task[m[2]] = "deleted"
    BY <2>1 DEF PurgeReturns
  <2>3. m = Mail(r, m[2]) /\ m[2] \in Uid
    BY <2>2 DEF Mail, Msg
  <2> QED
    BY <2>2, <2>3 DEF PurgeInv, PurgeSafe
<1> QED
  BY <1>1, InitType, NextType, InitPurge, NextPurge, PTL DEF Spec, PurgeKeepsLastCopy

-----------------------------------------------------------------------------
(* What the vault holds of a message an archive-and-delete removed.        *)

(* The vault's writes succeed, and no file a crash cut short is taken for  *)
(* a copy: it would be when the fetch that was to replace it fails.        *)
SoundStores ==
    /\ "writeFail" \notin Env
    /\ "crash" \in Env => "fetchFail" \notin Env /\ "bandwidth" \notin Env

(* The token archive_emails installs is flagged by Cancel or by the        *)
(* bandwidth limit, and by nothing else.                                   *)
ArchiveToken(r) ==
    /\ <<r, "archive">> \in flagged \cup {token} =>
          runs[r].pc \notin {"unused", "persist", "token", "archiveSent"}
    /\ "bandwidth" \notin Env /\ <<r, "archive">> \in flagged /\ Live(r) => cancelled

TokenInv == \A r \in RunId : ArchiveToken(r)

LEMMA InitToken == Init => TokenInv
<1> SUFFICES ASSUME Init, NEW r \in RunId PROVE ArchiveToken(r)
  BY DEF TokenInv
<1>1. <<r, "archive">> # <<0, "boot">>
  OBVIOUS
<1> QED
  BY <1>1 DEF Init, ArchiveToken

LEMMA SameToken ==
    ASSUME TokenInv, UNCHANGED <<runs, cancelled, token, flagged>>
    PROVE  TokenInv'
<1> SUFFICES ASSUME NEW r \in RunId PROVE ArchiveToken(r)'
  BY DEF TokenInv
<1>1. ArchiveToken(r)
  BY DEF TokenInv
<1> QED
  BY <1>1, Zenon DEF ArchiveToken, Live

LEMMA NextToken ==
    ASSUME NoOverlap PROVE TypeInv /\ TokenInv /\ [Next]_vars => TokenInv'
<1> SUFFICES ASSUME TypeInv, TokenInv, Next PROVE TokenInv'
  BY SameToken DEF vars, manager, commands
<1>t. TypeOK
  BY DEF TypeInv
<1>1. ASSUME NEW r \in RunId, Start(r) \/ Resume(r) PROVE TokenInv'
  <2>1. /\ runs[r].pc = "unused" /\ UNCHANGED <<token, flagged>>
        /\ \A q \in RunId \ {r} : runs'[q] = runs[q]
        /\ \A q \in RunId : ~Live(q)
    BY <1>1, <1>t, LaunchMoves DEF commands
  <2> QED
    BY <2>1 DEF TokenInv, ArchiveToken, Live
<1>2. ASSUME NEW r \in RunId, Step(r) \/ PersistFails(r) \/ StepFails(r) PROVE TokenInv'
  <2>1. /\ Live(r) /\ Moved(r) /\ UNCHANGED <<cancelled, flagged>>
        /\ \A q \in RunId \ {r} : runs'[q] = runs[q]
        /\ ~(Goes(r, "archiveSent", "archive") \/ Goes(r, "deleteSent", "delete"))
              => UNCHANGED token
    BY <1>2, StepMoves
  <2>2. token' \in {token, <<r, "archive">>, <<r, "delete">>}
        /\ (token' = <<r, "archive">> => token' = token \/ Goes(r, "archiveSent", "archive"))
    BY <2>1 DEF Moved, Goes
  <2>3. ArchiveToken(r)'
    BY <2>1, <2>2 DEF TokenInv, ArchiveToken, Moved, Goes, Live
  <2>4. ASSUME NEW q \in RunId \ {r} PROVE ArchiveToken(q)'
    BY <2>1, <2>2 DEF TokenInv, ArchiveToken, Live
  <2> QED
    BY <2>3, <2>4 DEF TokenInv
<1>3. ASSUME NEW r \in RunId, NEW u \in Uid, Work(r, u) PROVE TokenInv'
  <2>1. /\ \A q \in RunId : runs'[q].pc = runs[q].pc
        /\ UNCHANGED <<cancelled, token>>
    BY <1>3, <1>t, TaskMoves DEF manager
  <2>2. \/ UNCHANGED flagged
        \/ /\ runs[r].pc = "archive" /\ "bandwidth" \in Env
           /\ flagged' = flagged \cup {<<r, "archive">>}
    BY <1>3 DEF Work, Fetch, StoreBegins, StoreEnds, Skip, DeleteIsSent,
       DeleteIsAnswered, Purge, commands
  <2> SUFFICES ASSUME NEW q \in RunId PROVE ArchiveToken(q)'
    BY DEF TokenInv
  <2>3. ArchiveToken(q) /\ (<<q, "archive">> = <<r, "archive">> => q = r)
    BY DEF TokenInv
  <2>4. <<q, "archive">> \in flagged' /\ <<q, "archive">> \notin flagged =>
           runs[q].pc = "archive" /\ "bandwidth" \in Env
    BY <2>2, <2>3
  <2>5. <<q, "archive">> \in flagged' \cup {token'} =>
           runs'[q].pc \notin {"unused", "persist", "token", "archiveSent"}
    BY <2>1, <2>3, <2>4 DEF ArchiveToken
  <2>6. "bandwidth" \notin Env /\ <<q, "archive">> \in flagged'
           /\ runs'[q].pc \notin {"unused", "done"} => cancelled'
    BY <2>1, <2>3, <2>4, Zenon DEF ArchiveToken, Live
  <2> QED
    BY <2>5, <2>6, Zenon DEF ArchiveToken, Live
<1>4. CASE ResumeRefused \/ Discard \/ ClearLands \/ SwitchMailbox
  <2>1. UNCHANGED <<runs, cancelled, token, flagged>>
    BY <1>4 DEF ResumeRefused, Discard, ClearLands, SwitchMailbox, manager, commands
  <2> QED
    BY <2>1, SameToken
<1>5. CASE Cancel
  <2>1. UNCHANGED <<runs, token>> /\ cancelled' /\ flagged' = flagged \cup {token}
    BY <1>5 DEF Cancel
  <2> SUFFICES ASSUME NEW r \in RunId PROVE ArchiveToken(r)'
    BY DEF TokenInv
  <2>2. flagged' \cup {token'} = flagged \cup {token} /\ ArchiveToken(r)
    BY <2>1 DEF TokenInv
  <2> QED
    BY <2>1, <2>2, Zenon DEF ArchiveToken
<1>6. CASE Crash
  <2> SUFFICES ASSUME NEW r \in RunId PROVE ArchiveToken(r)'
    BY DEF TokenInv
  <2>1. <<r, "archive">> # <<0, "boot">>
    OBVIOUS
  <2> QED
    BY <1>6, <2>1 DEF Crash, ArchiveToken
<1> QED
  BY <1>1, <1>2, <1>3, <1>4, <1>5, <1>6, StepKinds

(* The verification will not take a torn file for the copy of m.           *)
Fine(m) == ~OnServer(m) \/ vault[m] # "torn"

CopySafe(r) ==
    /\ runs[r].pc = "archive" =>
          /\ \A u \in Uid \ runs[r].uids : runs[r].task[u] = "todo"
          /\ \A u \in runs[r].uids :
                /\ runs[r].task[u] = "stored" => vault[Mail(r, u)] = "whole"
                /\ runs[r].task[u] \in {"failed", "skipped"} => Fine(Mail(r, u)) \/ cancelled
                /\ runs[r].task[u] # "deleted"
    /\ runs[r].pc = "verify" /\ ~cancelled =>
          \A u \in runs[r].uids : Fine(Mail(r, u))
    /\ runs[r].pc \in Deleting /\ runs[r].type = "archive_and_delete" =>
          \A u \in runs[r].uids : OnServer(Mail(r, u)) => vault[Mail(r, u)] = "whole"

(* LocalCopyStays without its exemption: nobody deletes everywhere here.   *)
AllWhole ==
    \A m \in Msg :
        ~OnServer(m) /\ runs[removedBy[m]].type = "archive_and_delete"
        => vault[m] = "whole"

(* Only a crash leaves a torn file behind.                                 *)
TornIsStoring ==
    \A m \in Msg : vault[m] = "torn" =>
        \E r \in RunId, u \in Uid :
            /\ runs[r].pc = "archive" /\ u \in runs[r].uids
            /\ runs[r].task[u] = "storing" /\ m = Mail(r, u)

WholeInv ==
    /\ \A r \in RunId : CopySafe(r)
    /\ AllWhole
    /\ "crash" \notin Env => TornIsStoring

LEMMA InitWhole == Init => WholeInv
  BY DEF Init, WholeInv, CopySafe, AllWhole, TornIsStoring, OnServer, Deleting

(* One run moves and the others do not live: what is left to show.         *)
LEMMA WholeMoves ==
    ASSUME SafeInv, NEW r \in RunId, Live(r),
           \A q \in RunId \ {r} : runs'[q] = runs[q],
           CopySafe(r)', AllWhole', "crash" \notin Env => TornIsStoring'
    PROVE  WholeInv'
<1>1. ASSUME NEW q \in RunId \ {r} PROVE CopySafe(q)'
  <2>1. runs'[q] = runs[q] /\ runs[q].pc \in {"unused", "done"}
    BY DEF SafeInv, SingleLive, Live
  <2> QED
    BY <2>1 DEF CopySafe, Deleting
<1> QED
  BY <1>1 DEF WholeInv

(* Nothing leaves the server, no file changes, no run changes its type.    *)
LEMMA SameWhole ==
    ASSUME SafeInv, WholeInv, UNCHANGED mail,
           \A q \in RunId : runs[q].pc # "unused" => runs'[q].type = runs[q].type
    PROVE  AllWhole'
<1> SUFFICES ASSUME NEW m \in Msg, ~OnServer(m),
                    runs'[removedBy[m]].type = "archive_and_delete"
             PROVE  vault[m] = "whole"
  BY DEF AllWhole, OnServer, mail
<1>1. removedBy[m] \in RunId /\ runs[removedBy[m]].pc # "unused"
  BY DEF SafeInv, RemoverRan
<1> QED
  BY <1>1 DEF WholeInv, AllWhole

(* What is on file of a mail whose store has not begun, or has failed.     *)
LEMMA NotStoring ==
    ASSUME SafeInv, WholeInv, "crash" \notin Env, NEW r \in RunId, Live(r), NEW u \in Uid,
           ~(runs[r].pc = "archive" /\ u \in runs[r].uids /\ runs[r].task[u] = "storing")
    PROVE  Fine(Mail(r, u))
<1> SUFFICES ASSUME vault[Mail(r, u)] = "torn" PROVE FALSE
  BY DEF Fine
<1>1. Mail(r, u) \in Msg
  BY MailType DEF SafeInv, TypeInv
<1>2. PICK q \in RunId, v \in Uid :
         /\ runs[q].pc = "archive" /\ v \in runs[q].uids
         /\ runs[q].task[v] = "storing" /\ Mail(r, u) = Mail(q, v)
  BY <1>1 DEF WholeInv, TornIsStoring
<1>3. q = r /\ v = u
  BY <1>2 DEF SafeInv, SingleLive, Live, Mail
<1> QED
  BY <1>2, <1>3

(* A task of archive_emails moves on.                                      *)
LEMMA ArchiveWork ==
    ASSUME NoOverlap, SoundStores, SafeInv, TokenInv, WholeInv,
           NEW r \in RunId, NEW u \in Uid,
           runs[r].pc = "archive", Fetch(r, u) \/ StoreBegins(r, u) \/ StoreEnds(r, u) \/ Skip(r, u)
    PROVE  WholeInv'
<1>t. /\ TypeOK /\ runs \in [RunId -> Run] /\ vault \in [Msg -> FileState]
      /\ \A v \in Uid : Mail(r, v) \in Msg
  BY MailType DEF SafeInv, TypeInv, TypeOK
<1>l. Live(r) /\ RunSafe(r) /\ CopySafe(r)
  BY DEF Live, SafeInv, WholeInv
<1>w. Work(r, u)
  BY DEF Work
<1>s. /\ \A q \in RunId : runs'[q].pc = runs[q].pc /\ runs'[q].type = runs[q].type
      /\ runs'[r].mbox = runs[r].mbox /\ runs'[r].uids = runs[r].uids
      /\ cancelled' = cancelled
  BY <1>t, <1>w, TaskMoves DEF manager
<1>m. \A v \in Uid : Mail(r, v)' = Mail(r, v)
  BY <1>s DEF Mail
<1>u. u \in runs[r].uids /\ removedBy' = removedBy
  BY <1>l DEF Fetch, StoreBegins, StoreEnds, Skip, CopySafe, mail
<1>f. (~OnServer(Mail(r, u)) \/ "crash" \notin Env) /\ runs[r].task[u] # "storing" =>
        Fine(Mail(r, u))
  BY <1>l, NotStoring DEF Fine
<1>c. ASSUME \A v \in Uid \ {u} : /\ runs'[r].task[v] = runs[r].task[v]
                                   /\ vault'[Mail(r, v)] = vault[Mail(r, v)],
             runs'[r].task[u] # "deleted",
             runs'[r].task[u] = "stored" => vault'[Mail(r, u)] = "whole",
             runs'[r].task[u] \in {"failed", "skipped"} =>
                 UNCHANGED vault /\ (Fine(Mail(r, u)) \/ cancelled)
      PROVE  CopySafe(r)'
  <2>0. runs'[r].pc = "archive" /\ runs'[r].uids \subseteq Uid
    BY <1>t, <1>s DEF Run
  <2>1. \A v \in Uid \ runs'[r].uids : runs'[r].task[v] = "todo"
    BY <1>c, <1>l, <1>s, <1>u DEF CopySafe
  <2>2. ASSUME NEW v \in runs'[r].uids
        PROVE  /\ runs'[r].task[v] = "stored" => vault'[Mail(r, v)] = "whole"
               /\ runs'[r].task[v] \in {"failed", "skipped"} =>
                     \/ removedBy'[Mail(r, v)] # 0 \/ vault'[Mail(r, v)] # "torn"
                     \/ cancelled'
               /\ runs'[r].task[v] # "deleted"
    <3>1. v \in Uid /\ v \in runs[r].uids
      BY <1>s, <2>0
    <3>2. CASE v = u
      BY <1>c, <1>s, <1>u, <3>1, <3>2 DEF Fine, OnServer
    <3>3. CASE v # u
      <4>1. /\ runs[r].task[v] = "stored" => vault[Mail(r, v)] = "whole"
            /\ runs[r].task[v] \in {"failed", "skipped"} => Fine(Mail(r, v)) \/ cancelled
            /\ runs[r].task[v] # "deleted"
        BY <1>l, <3>1 DEF CopySafe
      <4>2. Fine(Mail(r, v)) =>
               removedBy'[Mail(r, v)] # 0 \/ vault'[Mail(r, v)] # "torn"
        BY <1>c, <1>u, <3>1, <3>3 DEF Fine, OnServer
      <4> QED
        BY <1>c, <1>s, <3>1, <3>3, <4>1, <4>2
    <3> QED
      BY <3>2, <3>3
  <2> QED
    BY <1>m, <2>0, <2>1, <2>2 DEF CopySafe, Deleting, Fine, OnServer
<1>q. ASSUME UNCHANGED vault,
             \A v \in Uid \ {u} : runs'[r].task[v] = runs[r].task[v],
             \A q \in RunId \ {r} : runs'[q] = runs[q],
             runs[r].task[u] # "storing",
             \/ runs'[r].task[u] = "fetched"
             \/ runs'[r].task[u] \in {"failed", "skipped"}
                  /\ (Fine(Mail(r, u)) \/ cancelled)
      PROVE  WholeInv'
  <2>1. CopySafe(r)'
    BY <1>c, <1>q
  <2>2. AllWhole'
    BY <1>s, <1>u, <1>q, SameWhole DEF mail
  <2>3. TornIsStoring => TornIsStoring'
    <3> SUFFICES ASSUME TornIsStoring, NEW m \in Msg, vault[m] = "torn"
                 PROVE  \E q \in RunId, v \in Uid :
                           /\ runs'[q].pc = "archive" /\ v \in runs'[q].uids
                           /\ runs'[q].task[v] = "storing" /\ m = Mail(q, v)'
      BY <1>q DEF TornIsStoring
    <3>1. PICK q \in RunId, v \in Uid :
             /\ runs[q].pc = "archive" /\ v \in runs[q].uids
             /\ runs[q].task[v] = "storing" /\ m = Mail(q, v)
      BY DEF TornIsStoring
    <3>2. q = r /\ v # u
      BY <1>l, <1>q, <3>1 DEF SafeInv, SingleLive, Live
    <3> QED
      BY <1>s, <1>m, <1>q, <3>1, <3>2
  <2> QED
    BY <1>l, <1>q, <2>1, <2>2, <2>3, WholeMoves DEF WholeInv
<1>1. CASE Fetch(r, u)
  <2>1. PICK t \in {"fetched", "failed"} :
           /\ SetTask(r, u, t)
           /\ t = "failed" => \/ ~OnServer(Mail(r, u))
                              \/ "fetchFail" \in Env \/ "bandwidth" \in Env
    BY <1>1 DEF Fetch
  <2>2. /\ \A v \in Uid \ {u} : runs'[r].task[v] = runs[r].task[v]
        /\ \A q \in RunId \ {r} : runs'[q] = runs[q]
        /\ runs'[r].task[u] = t
    BY <1>t, <2>1 DEF SetTask, Run
  <2>3. UNCHANGED vault /\ runs[r].task[u] = "todo"
    BY <1>1 DEF Fetch, mail
  <2>4. t = "failed" => Fine(Mail(r, u))
    BY <1>f, <2>1, <2>3 DEF SoundStores
  <2> QED
    BY <1>q, <2>2, <2>3, <2>4
<1>2. CASE Skip(r, u)
  <2>1. /\ SetTask(r, u, "skipped") /\ UNCHANGED vault /\ runs[r].task[u] = "todo"
        /\ <<r, "archive">> \in flagged
    BY <1>2 DEF Skip, mail, Stopped
  <2>2. /\ \A v \in Uid \ {u} : runs'[r].task[v] = runs[r].task[v]
        /\ \A q \in RunId \ {r} : runs'[q] = runs[q]
        /\ runs'[r].task[u] = "skipped"
    BY <1>t, <2>1 DEF SetTask, Run
  <2>3. Fine(Mail(r, u)) \/ cancelled
    <3>1. CASE "bandwidth" \in Env
      BY <1>f, <2>1, <3>1 DEF SoundStores
    <3>2. CASE "bandwidth" \notin Env
      BY <1>l, <2>1, <3>2 DEF TokenInv, ArchiveToken
    <3> QED
      BY <3>1, <3>2
  <2> QED
    BY <1>q, <2>1, <2>2, <2>3
<1>3. CASE StoreBegins(r, u)
  <2>1. /\ SetTask(r, u, "storing") /\ vault' = [vault EXCEPT ![Mail(r, u)] = "torn"]
        /\ runs[r].task[u] = "fetched"
    BY <1>3 DEF StoreBegins, SoundStores
  <2>2. /\ \A v \in Uid \ {u} : runs'[r].task[v] = runs[r].task[v]
        /\ \A q \in RunId \ {r} : runs'[q] = runs[q]
        /\ runs'[r].task[u] = "storing"
    BY <1>t, <2>1 DEF SetTask, Run
  <2>3. \A v \in Uid \ {u} : vault'[Mail(r, v)] = vault[Mail(r, v)]
    BY <1>t, <2>1 DEF Mail
  <2>4. CopySafe(r)'
    BY <1>c, <2>2, <2>3
  <2>5. AllWhole'
    <3> SUFFICES ASSUME NEW m \in Msg, ~OnServer(m),
                        runs'[removedBy[m]].type = "archive_and_delete"
                 PROVE  vault'[m] = "whole"
      BY <1>u DEF AllWhole, OnServer
    <3>1. removedBy[m] \in RunId
      BY DEF SafeInv, RemoverRan
    <3>2. vault[m] = "whole"
      BY <1>s, <3>1 DEF WholeInv, AllWhole
    <3>3. m # Mail(r, u)
      BY <1>l, <2>1 DEF RunSafe
    <3> QED
      BY <1>t, <2>1, <3>2, <3>3
  <2>6. TornIsStoring => TornIsStoring'
    <3> SUFFICES ASSUME TornIsStoring, NEW m \in Msg, vault'[m] = "torn"
                 PROVE  \E q \in RunId, v \in Uid :
                           /\ runs'[q].pc = "archive" /\ v \in runs'[q].uids
                           /\ runs'[q].task[v] = "storing" /\ m = Mail(q, v)'
      BY DEF TornIsStoring
    <3>1. CASE m = Mail(r, u)
      BY <1>s, <1>m, <1>u, <2>2, <3>1
    <3>2. CASE m # Mail(r, u)
      <4>1. PICK q \in RunId, v \in Uid :
               /\ runs[q].pc = "archive" /\ v \in runs[q].uids
               /\ runs[q].task[v] = "storing" /\ m = Mail(q, v)
        BY <1>t, <2>1, <3>2 DEF TornIsStoring
      <4>2. q = r /\ v # u
        BY <1>l, <2>1, <4>1 DEF SafeInv, SingleLive, Live
      <4> QED
        BY <1>s, <1>m, <2>2, <4>1, <4>2
    <3> QED
      BY <3>1, <3>2
  <2> QED
    BY <1>l, <2>2, <2>4, <2>5, <2>6, WholeMoves DEF WholeInv
<1>4. CASE StoreEnds(r, u)
  <2>1. /\ SetTask(r, u, "stored") /\ vault' = [vault EXCEPT ![Mail(r, u)] = "whole"]
    BY <1>4 DEF StoreEnds, SoundStores
  <2>2. /\ \A v \in Uid \ {u} : runs'[r].task[v] = runs[r].task[v]
        /\ \A q \in RunId \ {r} : runs'[q] = runs[q]
        /\ runs'[r].task[u] = "stored"
    BY <1>t, <2>1 DEF SetTask, Run
  <2>3. /\ vault'[Mail(r, u)] = "whole"
        /\ \A m \in Msg : vault'[m] = vault[m] \/ (m = Mail(r, u) /\ vault'[m] = "whole")
        /\ \A v \in Uid \ {u} : vault'[Mail(r, v)] = vault[Mail(r, v)]
    BY <1>t, <2>1 DEF Mail
  <2>4. CopySafe(r)'
    BY <1>c, <2>2, <2>3
  <2>5. AllWhole'
    <3> SUFFICES ASSUME NEW m \in Msg, ~OnServer(m),
                        runs'[removedBy[m]].type = "archive_and_delete"
                 PROVE  vault'[m] = "whole"
      BY <1>u DEF AllWhole, OnServer
    <3>1. removedBy[m] \in RunId
      BY DEF SafeInv, RemoverRan
    <3>2. vault[m] = "whole"
      BY <1>s, <3>1 DEF WholeInv, AllWhole
    <3> QED
      BY <2>3, <3>2
  <2>6. TornIsStoring => TornIsStoring'
    <3> SUFFICES ASSUME TornIsStoring, NEW m \in Msg, vault'[m] = "torn"
                 PROVE  \E q \in RunId, v \in Uid :
                           /\ runs'[q].pc = "archive" /\ v \in runs'[q].uids
                           /\ runs'[q].task[v] = "storing" /\ m = Mail(q, v)'
      BY DEF TornIsStoring
    <3>1. vault[m] = "torn" /\ m # Mail(r, u)
      BY <2>3
    <3>2. PICK q \in RunId, v \in Uid :
             /\ runs[q].pc = "archive" /\ v \in runs[q].uids
             /\ runs[q].task[v] = "storing" /\ m = Mail(q, v)
      BY <3>1 DEF TornIsStoring
    <3>3. q = r /\ v # u
      BY <1>l, <3>1, <3>2 DEF SafeInv, SingleLive, Live
    <3> QED
      BY <1>s, <1>m, <2>2, <3>2, <3>3
  <2> QED
    BY <1>l, <2>2, <2>4, <2>5, <2>6, WholeMoves DEF WholeInv
<1> QED
  BY <1>1, <1>2, <1>3, <1>4

(* A task of bulk_delete_emails moves on: the copy of what it removes was  *)
(* whole before the command was issued.                                    *)
LEMMA DeleteWork ==
    ASSUME SafeInv, WholeInv, NEW r \in RunId, NEW u \in Uid,
           runs[r].pc = "delete",
           DeleteIsSent(r, u) \/ DeleteIsAnswered(r, u) \/ Skip(r, u)
    PROVE  WholeInv'
<1>t. /\ TypeOK /\ runs \in [RunId -> Run] /\ removedBy \in [Msg -> 0 .. MaxRuns]
      /\ \A v \in Uid : Mail(r, v) \in Msg
  BY MailType DEF SafeInv, TypeInv, TypeOK
<1>l. Live(r) /\ CopySafe(r)
  BY DEF Live, SafeInv, WholeInv
<1>s. /\ \A q \in RunId : runs'[q].pc = runs[q].pc /\ runs'[q].type = runs[q].type
      /\ runs'[r].mbox = runs[r].mbox /\ runs'[r].uids = runs[r].uids
  BY <1>t, TaskMoves DEF Work
<1>v. /\ UNCHANGED vault /\ u \in runs[r].uids
      /\ removedBy' = removedBy \/ Remove(r, Mail(r, u))
  BY DEF DeleteIsSent, DeleteIsAnswered, Answers, Skip, mail
<1>o. \A q \in RunId \ {r} : runs'[q] = runs[q]
  <2>1. PICK t \in Task : SetTask(r, u, t)
    BY DEF DeleteIsSent, DeleteIsAnswered, Answers, Skip, Task
  <2> QED
    BY <1>t, <2>1, SetTaskType
<1>r. \A m \in Msg : removedBy'[m] = removedBy[m]
                        \/ (removedBy[m] = 0 /\ removedBy'[m] = r /\ m = Mail(r, u))
  BY <1>t, <1>v DEF Remove, OnServer
<1>1. CopySafe(r)'
  <2>1. runs[r].uids \subseteq Uid
    BY <1>t DEF Run
  <2>2. ASSUME runs[r].type = "archive_and_delete", NEW v \in runs[r].uids,
               removedBy'[Mail(r, v)] = 0
        PROVE  vault[Mail(r, v)] = "whole"
    <3>1. removedBy[Mail(r, v)] = 0
      BY <1>t, <1>r, <2>1, <2>2 DEF RunId
    <3> QED
      BY <1>l, <2>2, <3>1 DEF CopySafe, Deleting, OnServer
  <2>3. \A v \in Uid : Mail(r, v)' = Mail(r, v)
    BY <1>s DEF Mail
  <2> QED
    BY <1>s, <1>v, <2>1, <2>2, <2>3 DEF CopySafe, Deleting, OnServer
<1>2. AllWhole'
  <2> SUFFICES ASSUME NEW m \in Msg, removedBy'[m] # 0,
                      runs'[removedBy'[m]].type = "archive_and_delete"
               PROVE  vault[m] = "whole"
    BY <1>v DEF AllWhole, OnServer
  <2>1. CASE removedBy'[m] = removedBy[m]
    <3>1. removedBy[m] \in RunId
      BY <2>1 DEF SafeInv, RemoverRan, OnServer
    <3> QED
      BY <1>s, <2>1, <3>1 DEF WholeInv, AllWhole, OnServer
  <2>2. CASE removedBy[m] = 0 /\ removedBy'[m] = r /\ m = Mail(r, u)
    <3>1. runs[r].type = "archive_and_delete"
      BY <1>s, <2>2
    <3> QED
      BY <1>l, <1>v, <2>2, <3>1 DEF CopySafe, Deleting, OnServer
  <2> QED
    BY <1>r, <2>1, <2>2
<1>3. TornIsStoring => TornIsStoring'
  <2>1. ASSUME NEW q \in RunId PROVE runs[q].pc # "archive"
    BY <1>l DEF SafeInv, SingleLive, Live
  <2> QED
    BY <1>v, <2>1 DEF TornIsStoring
<1> QED
  BY <1>l, <1>o, <1>1, <1>2, <1>3, WholeMoves DEF WholeInv

LEMMA NextWhole ==
    ASSUME NoOverlap, SoundStores
    PROVE  SafeInv /\ TokenInv /\ WholeInv /\ [Next]_vars => WholeInv'
<1> SUFFICES ASSUME SafeInv, TokenInv, WholeInv, [Next]_vars PROVE WholeInv'
  OBVIOUS
<1>t. TypeInv /\ TypeOK /\ \A r \in RunId : RunSafe(r) /\ CopySafe(r)
  BY DEF SafeInv, TypeInv, WholeInv
<1>1. ASSUME NEW r \in RunId, Start(r) \/ Resume(r) PROVE WholeInv'
  <2>1. /\ \A q \in RunId : ~Live(q)
        /\ runs[r].pc = "unused" /\ runs'[r].pc = "persist" /\ UNCHANGED mail
        /\ \A q \in RunId \ {r} : runs'[q] = runs[q]
    BY <1>1, <1>t, LaunchMoves
  <2>2. ASSUME NEW q \in RunId PROVE CopySafe(q)'
    <3>1. runs'[q].pc \in {"unused", "persist", "done"}
      BY <2>1 DEF Live
    <3> QED
      BY <3>1 DEF CopySafe, Deleting
  <2>3. AllWhole'
    BY <2>1, SameWhole
  <2>4. TornIsStoring => TornIsStoring'
    BY <2>1 DEF TornIsStoring, Live, mail
  <2> QED
    BY <2>2, <2>3, <2>4 DEF WholeInv
<1>2. ASSUME NEW r \in RunId, Step(r) \/ PersistFails(r) \/ StepFails(r) PROVE WholeInv'
  <2>1. /\ Live(r) /\ Moved(r) /\ runs'[r].type = runs[r].type
        /\ \A q \in RunId \ {r} : runs'[q] = runs[q]
        /\ UNCHANGED <<cancelled, removedBy, vault>>
    BY <1>2, <1>t, StepMoves DEF RunSafe
  <2>s. RunSafe(r) /\ CopySafe(r)
    BY <1>t
  <2>u. runs[r] \in Run /\ runs[r].uids \subseteq Uid
    BY <1>t DEF TypeOK, Run
  <2>2. CopySafe(r)'
    <3>1. CASE Goes(r, "archiveSent", "archive") /\ Keeps(r)
      BY <2>s, <2>u, <3>1 DEF Goes, Keeps, RunSafe, CopySafe, Deleting
    <3>2. CASE Goes(r, "archive", "verify") /\ Keeps(r) /\ Drained(r) /\ ~cancelled
      <4>1. ASSUME NEW u \in runs[r].uids PROVE Fine(Mail(r, u))
        <5>1. runs[r].task[u] \in {"stored", "failed", "skipped"}
          BY <2>s, <3>2 DEF Drained, CopySafe, Goes
        <5> QED
          BY <2>s, <3>2, <5>1 DEF CopySafe, Goes, Fine
      <4> QED
        BY <2>1, <3>2, <4>1 DEF CopySafe, Goes, Keeps, Deleting, Fine, OnServer, Mail
    <3>3. CASE /\ Goes(r, "verify", "persist2") /\ ~cancelled
               /\ runs'[r].mbox = runs[r].mbox /\ runs'[r].uids = Verified(r)
      <4>1. ASSUME NEW u \in Verified(r), OnServer(Mail(r, u))
            PROVE  vault[Mail(r, u)] = "whole"
        <5>1. u \in runs[r].uids /\ vault[Mail(r, u)] # "none"
          BY <4>1 DEF Verified
        <5>2. vault[Mail(r, u)] # "torn"
          BY <2>s, <3>3, <4>1, <5>1 DEF CopySafe, Goes, Fine
        <5>3. Mail(r, u) \in Msg
          BY <1>t, <2>u, <5>1, MailType
        <5> QED
          BY <1>t, <5>1, <5>2, <5>3 DEF TypeOK, FileState
      <4> QED
        BY <2>1, <3>3, <4>1 DEF CopySafe, Goes, Deleting, OnServer, Mail
    <3>4. CASE /\ \/ Goes(r, "persist2", "token2") \/ Goes(r, "token2", "deleteSent")
                  \/ Goes(r, "deleteSent", "delete")
               /\ runs'[r].mbox = runs[r].mbox /\ runs'[r].uids = runs[r].uids
      <4>1. runs[r].pc \in Deleting /\ runs'[r].pc \notin {"archive", "verify"}
        BY <3>4 DEF Goes, Deleting
      <4> QED
        BY <2>s, <2>1, <3>4, <4>1 DEF CopySafe, OnServer, Mail
    <3>5. CASE \/ runs'[r].pc \in {"clear", "done", "token", "archiveSent", "purge"}
               \/ Goes(r, "token", "deleteSent") /\ runs[r].type = "delete"
      BY <2>1, <3>5 DEF CopySafe, Goes, Deleting
    <3> QED
      BY <2>1, <3>1, <3>2, <3>3, <3>4, <3>5 DEF Moved, Goes, Keeps
  <2>3. AllWhole'
    <3>1. \A q \in RunId : runs'[q].type = runs[q].type
      BY <2>1
    <3> QED
      BY <2>1, <3>1, SameWhole DEF mail
  <2>4. TornIsStoring => TornIsStoring'
    <3> SUFFICES ASSUME TornIsStoring, NEW m \in Msg, vault[m] = "torn"
                 PROVE  FALSE
      BY <2>1 DEF TornIsStoring
    <3>1. PICK q \in RunId, u \in Uid :
             /\ runs[q].pc = "archive" /\ u \in runs[q].uids
             /\ runs[q].task[u] = "storing"
      BY DEF TornIsStoring
    <3>2. q = r
      BY <2>1, <3>1 DEF SafeInv, SingleLive, Live
    <3>3. ~Drained(r) /\ ~Untouched(r)
      BY <3>1, <3>2 DEF Drained, Untouched
    <3> QED
      BY <2>1, <3>1, <3>2, <3>3 DEF Moved, Goes
  <2> QED
    BY <2>1, <2>2, <2>3, <2>4, WholeMoves DEF WholeInv
<1>3. ASSUME NEW r \in RunId, NEW u \in Uid, Work(r, u) PROVE WholeInv'
  <2>1. runs[r].pc \in {"archive", "delete"} /\ ~Purge(r, u)
    BY <1>3, <1>t, TaskMoves DEF RunSafe, Purge
  <2>2. CASE runs[r].pc = "archive"
    BY <1>3, <2>1, <2>2, ArchiveWork
       DEF Work, DeleteIsSent, DeleteIsAnswered
  <2>3. CASE runs[r].pc = "delete"
    BY <1>3, <2>1, <2>3, DeleteWork DEF Work, Fetch, StoreBegins, StoreEnds
  <2> QED
    BY <2>1, <2>2, <2>3
<1>4. CASE UNCHANGED <<runs, mail>> /\ cancelled' \in {cancelled, TRUE}
  <2>1. ASSUME NEW r \in RunId PROVE CopySafe(r)'
    BY <1>t, <1>4 DEF CopySafe, Fine, OnServer, Mail, mail, TypeOK
  <2> QED
    BY <1>4, <2>1, SameWhole DEF WholeInv, TornIsStoring, Mail, mail
<1>5. CASE Crash
  <2>1. /\ "crash" \in Env /\ UNCHANGED mail
        /\ \A r \in RunId : runs'[r].pc \in {"unused", "done"} /\ runs'[r].type = runs[r].type
    BY <1>5, <1>t, CrashEnds DEF Crash
  <2> QED
    BY <2>1, SameWhole DEF WholeInv, CopySafe, Deleting
<1>6. ResumeRefused \/ Discard \/ Cancel \/ ClearLands \/ SwitchMailbox \/ UNCHANGED vars =>
        cancelled' \in {cancelled, TRUE} /\ UNCHANGED <<runs, mail>>
  BY DEF ResumeRefused, Discard, Cancel, ClearLands, SwitchMailbox, manager, vars
<1> QED
  BY <1>1, <1>2, <1>3, <1>4, <1>5, <1>6, StepKinds

(* What an archive-and-delete removed from the server is whole in the      *)
(* vault, though the verification asks only whether a file is there: while *)
(* the process lives, a torn file belongs to a store that is under way.    *)
(* (fetch_and_store, verify_archived_emails, bulk_delete)                  *)
THEOREM LocalCopyKept ==
    ASSUME NoOverlap, NoDeleteEverywhere, SoundStores
    PROVE  Spec => []LocalCopyStays
<1>1. WholeInv => LocalCopyStays
  BY DEF WholeInv, AllWhole, LocalCopyStays
<1>2. SafeInv /\ [Next]_vars => SafeInv'
  BY NextSafe
<1>3. TypeInv /\ TokenInv /\ [Next]_vars => TokenInv'
  BY NextToken
<1>4. SafeInv /\ TokenInv /\ WholeInv /\ [Next]_vars => WholeInv'
  BY NextWhole
<1>5. SafeInv => TypeInv
  BY DEF SafeInv
<1> QED
  BY <1>1, <1>2, <1>3, <1>4, <1>5, InitSafe, InitToken, InitWhole, PTL DEF Spec

-----------------------------------------------------------------------------
(* What leaves the server was chosen, for an operation that deletes.       *)

DeletesByType(r) ==
    runs[r].pc \in Deleting \cup {"verify"} => runs[r].type # "archive"

ChosenInv ==
    /\ \A r \in RunId : DeletesByType(r)
    /\ DeletedWasSelected

LEMMA InitChosen == Init => ChosenInv
  BY DEF Init, ChosenInv, DeletesByType, Deleting, DeletedWasSelected, OnServer

LEMMA SelectionGrows == ASSUME TypeInv, Next PROVE selected \subseteq selected'
<1>1. ASSUME NEW r \in RunId, Start(r) \/ Resume(r) PROVE selected \subseteq selected'
  BY <1>1 DEF Start, Resume, history
<1>2. ASSUME NEW r \in RunId, Step(r) \/ PersistFails(r) \/ StepFails(r)
      PROVE  selected' = selected
  BY <1>2, StepMoves
<1>3. ASSUME NEW r \in RunId, NEW u \in Uid, Work(r, u) PROVE selected' = selected
  BY <1>3, TaskMoves DEF TypeInv, history
<1>4. CASE ResumeRefused \/ Discard \/ Cancel \/ ClearLands \/ SwitchMailbox \/ Crash
  BY <1>4 DEF ResumeRefused, Discard, Cancel, ClearLands, SwitchMailbox, Crash, history
<1> QED
  BY <1>1, <1>2, <1>3, <1>4 DEF Next

LEMMA NextDeletes ==
    ASSUME TypeInv, Next, NEW r \in RunId, DeletesByType(r)
    PROVE  DeletesByType(r)'
<1>t. TypeOK
  BY DEF TypeInv
<1>0. CASE runs'[r].pc = runs[r].pc /\ runs'[r].type = runs[r].type
  BY <1>0 DEF DeletesByType
<1>1. ASSUME NEW q \in RunId, Start(q) \/ Resume(q) PROVE DeletesByType(r)'
  <2>1. runs'[q].pc = "persist" /\ (q # r => runs'[r] = runs[r])
    BY <1>t, <1>1, LaunchMoves
  <2> QED
    BY <1>0, <2>1 DEF DeletesByType, Deleting
<1>2. ASSUME NEW q \in RunId, Step(q) \/ PersistFails(q) \/ StepFails(q)
      PROVE  DeletesByType(r)'
  <2>1. Moved(q) /\ runs'[q].type = runs[q].type /\ (q # r => runs'[r] = runs[r])
    BY <1>t, <1>2, StepMoves
  <2>2. CASE q = r
    BY <2>1, <2>2 DEF DeletesByType, Deleting, Moved, Goes
  <2> QED
    BY <1>0, <2>1, <2>2
<1>3. ASSUME NEW q \in RunId, NEW u \in Uid, Work(q, u) PROVE DeletesByType(r)'
  BY <1>t, <1>0, <1>3, TaskMoves
<1>4. CASE UNCHANGED runs
  BY <1>0, <1>4
<1>5. CASE Crash
  BY <1>t, <1>5, CrashEnds DEF DeletesByType, Deleting
<1> QED
  BY <1>1, <1>2, <1>3, <1>4, <1>5, StepKinds

LEMMA RemovesTheChosen ==
    ASSUME TypeInv, TypeOK, Next, DeletedWasSelected,
           \A r \in RunId : /\ runs[r].pc # "purge"
                            /\ runs[r].pc = "delete" =>
                                  runs[r].type # "archive" /\ Named(OfRun(r))
    PROVE  DeletedWasSelected'
<1> SUFFICES ASSUME NEW m \in Msg, removedBy'[m] # 0
             PROVE  \E t \in AllTypes \ {"archive"} : <<t, m>> \in selected'
  BY DEF DeletedWasSelected, OnServer
<1>g. selected \subseteq selected'
  BY SelectionGrows
<1>1. CASE removedBy[m] # 0
  BY <1>g, <1>1 DEF DeletedWasSelected, OnServer
<1>2. CASE removedBy[m] = 0
  <2>1. PICK r \in RunId, u \in Uid : DeleteIsAnswered(r, u) \/ Purge(r, u)
    BY <1>2, OnlyTasksRemove
  <2>2. DeleteIsAnswered(r, u)
    BY <2>1 DEF Purge
  <2>3. m = Mail(r, u)
    BY <1>2, <2>2, AnswersType DEF DeleteIsAnswered
  <2>4. runs[r].pc = "delete" /\ u \in runs[r].uids
    BY <2>2 DEF DeleteIsAnswered
  <2>5. <<runs[r].type, m>> \in selected
    BY <2>3, <2>4 DEF Named, OfRun, Mail
  <2>6. runs[r].type \in AllTypes \ {"archive"}
    BY <2>4 DEF TypeOK, Run
  <2> QED
    BY <1>g, <2>5, <2>6
<1> QED
  BY <1>1, <1>2

LEMMA NextChosen ==
    ASSUME NoDeleteEverywhere
    PROVE  SafeInv /\ ManagerInv /\ ChosenInv /\ [Next]_vars => ChosenInv'
<1> SUFFICES ASSUME SafeInv, ManagerInv, ChosenInv, Next PROVE ChosenInv'
  BY DEF vars, mail, history, ChosenInv, DeletesByType, DeletedWasSelected, OnServer
<1>t. TypeInv /\ TypeOK
  BY DEF SafeInv, TypeInv
<1>1. \A r \in RunId : DeletesByType(r)'
  BY <1>t, NextDeletes DEF ChosenInv
<1>2. ASSUME NEW r \in RunId
      PROVE  /\ runs[r].pc # "purge"
             /\ runs[r].pc = "delete" => runs[r].type # "archive" /\ Named(OfRun(r))
  BY DEF SafeInv, RunSafe, ManagerInv, Managed, ChosenInv, DeletesByType, Working, Deleting
<1>3. DeletedWasSelected'
  BY <1>t, <1>2, RemovesTheChosen DEF ChosenInv
<1> QED
  BY <1>1, <1>3 DEF ChosenInv

(* No message leaves the server that the user did not choose, in that      *)
(* mailbox, for an operation that deletes: whatever is cancelled, fails,   *)
(* crashes or is resumed.  (start, resume, bulk_delete)                    *)
THEOREM OnlyChosenDeleted ==
    ASSUME NoOverlap, NoDeleteEverywhere
    PROVE  Spec => []DeletedWasSelected
<1>1. ChosenInv => DeletedWasSelected
  BY DEF ChosenInv
<1>2. SafeInv /\ [Next]_vars => SafeInv'
  BY NextSafe
<1>3. TypeInv /\ ManagerInv /\ [Next]_vars => ManagerInv'
  BY NextManager
<1>4. SafeInv /\ ManagerInv /\ ChosenInv /\ [Next]_vars => ChosenInv'
  BY NextChosen
<1>5. SafeInv => TypeInv
  BY DEF SafeInv
<1> QED
  BY <1>1, <1>2, <1>3, <1>4, <1>5, InitSafe, InitManager, InitChosen, PTL DEF Spec

-----------------------------------------------------------------------------
(* As long as nothing is resumed from the file, what overlaps does no      *)
(* harm: a run removes what it was started with, though the status, the    *)
(* flag and the file it shares are another's.                              *)

NoRestart == "crash" \notin Env

SessionInv ==
    /\ banner = None
    /\ \A r \in RunId : /\ DeletesByType(r) /\ runs[r].pc # "purge"
                        /\ runs[r].pc \in Working =>
                              runs[r].type \in Types /\ Named(OfRun(r))
    /\ DeletedWasSelected

LEMMA InitSession == Init => SessionInv
  BY DEF Init, SessionInv, DeletesByType, Deleting, Working, Early, DeletedWasSelected,
         OnServer

LEMMA NextSession ==
    ASSUME NoRestart, NoDeleteEverywhere
    PROVE  TypeInv /\ SessionInv /\ [Next]_vars => SessionInv'
<1> SUFFICES ASSUME TypeInv, SessionInv, [Next]_vars PROVE SessionInv'
  OBVIOUS
<1>t. TypeOK
  BY DEF TypeInv
<1>0. CASE UNCHANGED vars
  BY <1>0 DEF vars, recovery, mail, history, SessionInv, DeletesByType, Named, OfRun,
              DeletedWasSelected, OnServer
<1> SUFFICES ASSUME Next PROVE SessionInv'
  BY <1>0
<1> DEFINE Right(r) == runs[r].pc # "purge" /\ (runs[r].pc \in Working =>
                          runs[r].type \in Types /\ Named(OfRun(r)))
<1>1. ASSUME NEW r \in RunId PROVE Right(r)'
  <2>g. selected \subseteq selected'
    BY SelectionGrows
  <2>r. Right(r)
    BY DEF SessionInv
  <2>0. CASE /\ runs'[r].pc = runs[r].pc /\ runs'[r].type = runs[r].type
             /\ runs'[r].mbox = runs[r].mbox /\ runs'[r].uids = runs[r].uids
    BY <2>0, <2>g, <2>r DEF Named, OfRun
  <2>1. ASSUME NEW q \in RunId, Start(q) \/ Resume(q) PROVE Right(r)'
    <3>1. Start(q)
      BY <2>1 DEF Resume, SessionInv
    <3>2. PICK type \in Types, uids \in SUBSET Uid :
              Launch(q, type, view, uids) /\ selected' = selected \cup ({type} \X ({view} \X uids))
      BY <3>1 DEF Start
    <3>3. runs' = [runs EXCEPT ![q] = [pc |-> "persist", type |-> type, mbox |-> view,
                     uids |-> uids, snap |-> runs'[q].snap, task |-> Todo]]
      BY <1>t, <3>2 DEF Launch, TypeOK
    <3>4. CASE q = r
      BY <1>t, <3>2, <3>3, <3>4 DEF Named, OfRun, TypeOK
    <3>5. CASE q # r
      BY <1>t, <2>0, <3>3, <3>5 DEF TypeOK
    <3> QED
      BY <3>4, <3>5
  <2>2. ASSUME NEW q \in RunId, Step(q) \/ PersistFails(q) \/ StepFails(q)
        PROVE  Right(r)'
    <3>1. Moved(q) /\ runs'[q].type = runs[q].type /\ (q # r => runs'[r] = runs[r])
      BY <2>2, StepMoves
    <3>2. CASE q = r
      <4>1. runs[r].pc \in Working => runs'[r].pc # "purge"
        BY <2>r, <3>1, <3>2 DEF Moved, Goes, NoDeleteEverywhere, Working, Early, Deleting
      <4>2. runs'[r].pc \in Working => /\ runs[r].pc \in Working
                                      /\ runs'[r].mbox = runs[r].mbox
                                      /\ runs'[r].uids \subseteq runs[r].uids
        BY <3>1, <3>2 DEF Moved, Goes, Keeps, Verified, Working, Early, Deleting
      <4>3. runs'[r].pc # "purge"
        BY <3>1, <3>2, <4>1 DEF Moved, Goes, Working, Early, Deleting
      <4> QED
        BY <2>g, <2>r, <3>1, <3>2, <4>2, <4>3 DEF Named, OfRun
    <3> QED
      BY <2>0, <3>1, <3>2
  <2>3. ASSUME NEW q \in RunId, NEW u \in Uid, Work(q, u) PROVE Right(r)'
    BY <1>t, <2>0, <2>3, TaskMoves
  <2>4. CASE UNCHANGED runs
    BY <2>0, <2>4
  <2> QED
    BY <2>1, <2>2, <2>3, <2>4, StepKinds DEF Crash, NoRestart
<1>2. \A r \in RunId : DeletesByType(r)'
  BY NextDeletes DEF SessionInv
<1>3. DeletedWasSelected'
  BY <1>t, RemovesTheChosen DEF SessionInv, DeletesByType, Working, Deleting
<1>4. banner' = None
  <2>1. ASSUME NEW r \in RunId, Start(r) \/ Resume(r) PROVE banner' = None
    BY <2>1 DEF Start, Resume, SessionInv, recovery
  <2>2. ASSUME NEW r \in RunId, Step(r) \/ PersistFails(r) \/ StepFails(r)
        PROVE  banner' = None
    BY <2>2, StepMoves DEF SessionInv
  <2>3. ASSUME NEW r \in RunId, NEW u \in Uid, Work(r, u) PROVE banner' = None
    BY <1>t, <2>3, TaskMoves DEF SessionInv, recovery
  <2>4. CASE ResumeRefused \/ Discard \/ Cancel \/ ClearLands \/ SwitchMailbox \/ Crash
    BY <2>4 DEF ResumeRefused, Discard, Cancel, ClearLands, SwitchMailbox, Crash,
                NoRestart, SessionInv, recovery
  <2> QED
    BY <2>1, <2>2, <2>3, <2>4 DEF Next
<1> QED
  BY <1>1, <1>2, <1>3, <1>4 DEF SessionInv

(* As long as the program runs and nothing is deleted everywhere, overlap  *)
(* too removes only what was chosen: each command gets the list its own    *)
(* start() was called with.  (BulkOperationManager.js:37, 68)              *)
THEOREM OverlapDeletesTheChosen ==
    ASSUME NoRestart, NoDeleteEverywhere
    PROVE  Spec => []DeletedWasSelected
<1>1. SessionInv => DeletedWasSelected
  BY DEF SessionInv
<1>2. TypeInv /\ SessionInv /\ [Next]_vars => SessionInv'
  BY NextSession
<1> QED
  BY <1>1, <1>2, InitType, NextType, InitSession, PTL DEF Spec
=============================================================================
