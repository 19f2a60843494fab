------------------------------- MODULE ImapPool -------------------------------
(***************************************************************************)
(* The IMAP connection pool shared by the commands of the app and by the   *)
(* sync daemon: per account and per kind ("background", "priority") a list *)
(* of idle sessions behind one mutex per kind, and a semaphore whose       *)
(* permits bound the sessions in use.                                      *)
(*                                                                         *)
(* A task is one async call; one action is the code between two of its     *)
(* awaits.  What tasks do with a session differs in how they take an       *)
(* error, so a call has a manner:                                          *)
(*   "strict"   an error drops or discards the session (with_background,   *)
(*              with_priority, the archive, backup and sync commands)      *)
(*   "lenient"  as strict, but an error in the middle of the answer is     *)
(*              skipped and the call succeeds (the header and flag fetches *)
(*              that keep only the good items of a stream)                 *)
(*   "keeping"  an error is counted and the session goes back to the pool  *)
(*              (migration, restore)                                       *)
(* How long a session lay idle, and so whether it is probed with a NOOP,   *)
(* is a choice.  tokio's semaphore and mutex are fair: strong fairness of  *)
(* the tasks stands for their queues.                                      *)
(***************************************************************************)
EXTENDS Integers, Sequences, FiniteSets

CONSTANTS
    Task,           \* concurrent calls
    Key,            \* conn_key of the accounts
    Kinds,          \* the pools in the order disconnect() visits them
    Manners,        \* the manners of the calls made
    MaxPoolSize,    \* MAX_POOL_SIZE
    MaxDisconnects  \* bound: disconnect() calls of one account

ASSUME PoolAssumption ==
    /\ IsFiniteSet(Task)
    /\ Key # {}
    /\ Kinds \in {<<"background">>, <<"background", "priority">>}
    /\ Manners \subseteq {"strict", "lenient", "keeping"}
    /\ MaxPoolSize \in Nat \ {0}
    /\ MaxDisconnects \in Nat

Kind == {Kinds[i] : i \in 1 .. Len(Kinds)}
Pool == Kind \X Key
Gen == 1 .. MaxDisconnects + 1

VARIABLES
    idle,           \* the Vec of pooled sessions, the last used at the end
    gen,            \* the semaphore of a pool in the map, or the next one made
    free,           \* free permits of every semaphore
    locked,         \* kinds whose mutex is held across an await
    task,           \* where every call stands
    disconnects     \* disconnect() calls of an account begun

vars == <<idle, gen, free, locked, task, disconnects>>

(* A session: does the peer still answer, and has a failed command left    *)
(* unread bytes in its buffer (then: of the last call of which manner).    *)
Session == [alive : BOOLEAN, soiled : {"no", "strict", "lenient", "keeping"}]
Fresh == [alive |-> TRUE, soiled |-> "no"]

PC == {"out", "acquire", "permit", "noop", "connect", "work", "failed",
       "return", "logout", "release", "clearing", "takeIdle", "dropSem", "logoutAll"}

(* pool and gen name the semaphore a call waits for or holds (of a         *)
(* disconnect: the one made after it); sess is the session it works with;  *)
(* open counts the sessions it is logging out and step the pools a         *)
(* disconnect has visited.                                                 *)
Call == [pc : PC, pool : Pool, gen : Gen, sess : Session,
         open : Nat, step : Nat]

TypeOK ==
    /\ idle \in [Pool -> Seq(Session)]
    /\ gen \in [Pool -> Gen]
    /\ free \in [Pool \X Gen -> 0 .. MaxPoolSize]
    /\ locked \in [Kind -> BOOLEAN]
    /\ task \in [Task -> Call]
    /\ disconnects \in [Key -> 0 .. MaxDisconnects]

Out(p) == [pc |-> "out", pool |-> p, gen |-> 1, sess |-> Fresh,
           open |-> 0, step |-> 0]
Home == CHOOSE p \in Pool : TRUE

Init ==
    /\ idle = [p \in Pool |-> <<>>]
    /\ gen = [p \in Pool |-> 1]
    /\ free = [s \in Pool \X Gen |-> MaxPoolSize]
    /\ locked = [k \in Kind |-> FALSE]
    /\ task = [t \in Task |-> Out(Home)]
    /\ disconnects = [k \in Key |-> 0]

At(t, pc) == task[t].pc = pc
PoolOf(t) == task[t].pool
Goes(t, pc) == task' = [task EXCEPT ![t].pc = pc]
Lets(t, pc) == task' = [task EXCEPT ![t].pc = pc, ![t].sess = Fresh]

(* Who owns a permit, and who owns a session or is about to open one.      *)
Permit == {"permit", "noop", "connect", "work", "failed", "return",
           "logout", "release"}
Holders(p, g) == {t \in Task : task[t].pc \in Permit /\ PoolOf(t) = p
                                 /\ task[t].gen = g}
Users(p) == {t \in Task : task[t].pc \in Permit \ {"permit", "release"}
                            /\ PoolOf(t) = p}

-----------------------------------------------------------------------------
(* get_background / get_priority: the semaphore of the pool (made on first *)
(* use with every permit free), ...                                        *)
Ask(t, p) ==
    /\ At(t, "out")
    /\ task' = [task EXCEPT ![t] = [Out(p) EXCEPT !.pc = "acquire", !.gen = gen[p]]]
    /\ UNCHANGED <<idle, gen, free, locked, disconnects>>

(* ... a permit of it, ...                                                 *)
Acquire(t) ==
    LET s == <<PoolOf(t), task[t].gen>>
    IN  /\ At(t, "acquire") /\ free[s] > 0
        /\ free' = [free EXCEPT ![s] = @ - 1]
        /\ Goes(t, "permit")
        /\ UNCHANGED <<idle, gen, locked, disconnects>>

(* ... and the session used last: as it is when it was used just now, else *)
(* after a NOOP; a new one if there is none.                               *)
Pop(t) ==
    LET p == PoolOf(t)  n == Len(idle[PoolOf(t)])
    IN  /\ At(t, "permit") /\ ~locked[p[1]]
        /\ \/ n = 0 /\ Goes(t, "connect") /\ UNCHANGED idle
           \/ /\ n > 0
              /\ idle' = [idle EXCEPT ![p] = SubSeq(@, 1, n - 1)]
              /\ \E pc \in {"work", "noop"} :
                    task' = [task EXCEPT ![t].pc = pc, ![t].sess = idle[p][n]]
        /\ UNCHANGED <<gen, free, locked, disconnects>>

(* A session that does not answer the NOOP in time is dropped.             *)
Noop(t) ==
    /\ At(t, "noop")
    /\ \/ task[t].sess.alive /\ Goes(t, "work")
       \/ task' = [task EXCEPT ![t].pc = "connect", ![t].sess = Fresh]
    /\ UNCHANGED <<idle, gen, free, locked, disconnects>>

ConnectLeaks(t) ==                                                   \* slip
    /\ At(t, "connect")
    /\ Goes(t, "work") \/ Goes(t, "out")
    /\ UNCHANGED <<idle, gen, free, locked, disconnects>>

(* create_imap_session; when it fails the permit is dropped with the `?'.  *)
Connect(t) ==
    /\ At(t, "connect")
    /\ \/ task' = [task EXCEPT ![t].pc = "work", ![t].sess = Fresh]
       \/ Goes(t, "release")
    /\ UNCHANGED <<idle, gen, free, locked, disconnects>>

-----------------------------------------------------------------------------
(* What a call does with its session.                                      *)

(* The command is answered, be it with the reply to an earlier one.        *)
Works(t) ==
    /\ At(t, "work") /\ task[t].sess.alive
    /\ Goes(t, "return")
    /\ UNCHANGED <<idle, gen, free, locked, disconnects>>

(* An error inside the answer is skipped: the call returns what it has.    *)
Skips(t) ==
    /\ At(t, "work") /\ "lenient" \in Manners
    /\ task' = [task EXCEPT ![t].pc = "return", ![t].sess.soiled = "lenient"]
    /\ UNCHANGED <<idle, gen, free, locked, disconnects>>

(* The command fails, and perhaps the connection with it, ...              *)
Fails(t) ==
    /\ At(t, "work")
    /\ \E live \in {task[t].sess.alive, FALSE}, m \in Manners \ {"lenient"} :
          task' = [task EXCEPT ![t].pc = "failed",
                               ![t].sess = [alive |-> live, soiled |-> m]]
    /\ UNCHANGED <<idle, gen, free, locked, disconnects>>

DisposeReturns(t) ==                                                 \* slip
    /\ At(t, "failed") /\ Goes(t, "return")
    /\ UNCHANGED <<idle, gen, free, locked, disconnects>>

(* ... and the session is dropped with its permit, discarded with a LOGOUT,*)
(* or returned all the same.                                               *)
Dispose(t) ==
    /\ At(t, "failed")
    /\ IF task[t].sess.soiled = "keeping" THEN Goes(t, "return")
       ELSE Lets(t, "release") \/ Lets(t, "logout")
    /\ UNCHANGED <<idle, gen, free, locked, disconnects>>

PushUnchecked(t) ==                                                  \* slip
    LET p == PoolOf(t)
    IN  /\ At(t, "return") /\ ~locked[p[1]]
        /\ idle' = [idle EXCEPT ![p] = Append(@, task[t].sess)]
        /\ Lets(t, "release")
        /\ UNCHANGED <<gen, free, locked, disconnects>>

(* return_to_pool: kept while there is room, else logged out.              *)
Push(t) ==
    LET p == PoolOf(t)
    IN  /\ At(t, "return") /\ ~locked[p[1]]
        /\ IF Len(idle[p]) < MaxPoolSize
           THEN /\ idle' = [idle EXCEPT ![p] = Append(@, task[t].sess)]
                /\ Lets(t, "release")
           ELSE Lets(t, "logout") /\ UNCHANGED idle
        /\ UNCHANGED <<gen, free, locked, disconnects>>

LogoutReleases(t) ==                                                 \* slip
    /\ At(t, "logout") /\ Goes(t, "release")
    /\ free' = [free EXCEPT ![<<PoolOf(t), task[t].gen>>] = @ + 1]
    /\ UNCHANGED <<idle, gen, locked, disconnects>>

(* The answer to a LOGOUT, or the end of the connection.                   *)
Logout(t) ==
    /\ At(t, "logout") /\ Goes(t, "release")
    /\ UNCHANGED <<idle, gen, free, locked, disconnects>>

(* The permit drops with the guard, after the session is pooled.           *)
Release(t) ==
    LET s == <<PoolOf(t), task[t].gen>>
    IN  /\ At(t, "release")
        /\ free' = [free EXCEPT ![s] = @ + 1]
        /\ task' = [task EXCEPT ![t] = Out(Home)]
        /\ UNCHANGED <<idle, gen, locked, disconnects>>

-----------------------------------------------------------------------------
(* clear_background keeps the mutex while it logs the sessions out.        *)
Clear(t, p) ==
    /\ At(t, "out") /\ p[1] = "background" /\ ~locked[p[1]] /\ idle[p] # <<>>
    /\ locked' = [locked EXCEPT ![p[1]] = TRUE]
    /\ idle' = [idle EXCEPT ![p] = <<>>]
    /\ task' = [task EXCEPT ![t] = [Out(p) EXCEPT !.pc = "clearing",
                                                  !.open = Len(idle[p])]]
    /\ UNCHANGED <<gen, free, disconnects>>

Clearing(t) ==
    /\ At(t, "clearing")
    /\ IF task[t].open > 0
       THEN task' = [task EXCEPT ![t].open = @ - 1] /\ UNCHANGED locked
       ELSE /\ task' = [task EXCEPT ![t] = Out(Home)]
            /\ locked' = [locked EXCEPT ![PoolOf(t)[1]] = FALSE]
    /\ UNCHANGED <<idle, gen, free, disconnects>>

(* disconnect: empties the pools one after the other, then forgets their   *)
(* semaphores, then logs the sessions out with no lock held.               *)
Disconnect(t, k) ==
    /\ At(t, "out")
    /\ disconnects[k] < MaxDisconnects
    /\ disconnects' = [disconnects EXCEPT ![k] = @ + 1]
    /\ task' = [task EXCEPT ![t] = [Out(<<Kinds[1], k>>) EXCEPT !.pc = "takeIdle",
                                              !.gen = disconnects[k] + 2]]
    /\ UNCHANGED <<idle, gen, free, locked>>

(* The next pool, and after the last one the first again for what follows. *)
Onwards(t, c, then) ==
    LET n == c.step + 1
    IN  IF n < Len(Kinds)
        THEN [c EXCEPT !.step = n, !.pool = <<Kinds[n + 1], @[2]>>]
        ELSE [c EXCEPT !.step = 0, !.pool = <<Kinds[1], @[2]>>, !.pc = then]

TakeIdle(t) ==
    LET p == PoolOf(t)
    IN  /\ At(t, "takeIdle") /\ ~locked[p[1]]
        /\ idle' = [idle EXCEPT ![p] = <<>>]
        /\ task' = [task EXCEPT ![t] =
                       Onwards(t, [task[t] EXCEPT !.open = @ + Len(idle[p])], "dropSem")]
        /\ UNCHANGED <<gen, free, locked, disconnects>>

DropSem(t) ==
    /\ At(t, "dropSem")
    /\ gen' = [gen EXCEPT ![PoolOf(t)] = task[t].gen]
    /\ task' = [task EXCEPT ![t] = Onwards(t, task[t], "logoutAll")]
    /\ UNCHANGED <<idle, free, locked, disconnects>>

LogoutAll(t) ==
    /\ At(t, "logoutAll")
    /\ IF task[t].open > 0
       THEN task' = [task EXCEPT ![t].open = @ - 1]
       ELSE task' = [task EXCEPT ![t] = Out(Home)]
    /\ UNCHANGED <<idle, gen, free, locked, disconnects>>

(* The peer silently drops an idle connection.                             *)
Dies(p) ==
    /\ \E i \in 1 .. Len(idle[p]) :
          idle[p][i].alive /\ idle' = [idle EXCEPT ![p][i].alive = FALSE]
    /\ UNCHANGED <<gen, free, locked, task, disconnects>>

-----------------------------------------------------------------------------
Step(t) ==
    \/ Acquire(t) \/ Pop(t) \/ Noop(t) \/ Connect(t)
    \/ Works(t) \/ Skips(t) \/ Fails(t) \/ Dispose(t) \/ Push(t) \/ Logout(t) \/ Release(t)
    \/ Clearing(t) \/ TakeIdle(t) \/ DropSem(t) \/ LogoutAll(t)

Next ==
    \/ \E t \in Task :
          \/ Step(t)
          \/ \E p \in Pool : Ask(t, p) \/ Clear(t, p)
          \/ \E k \in Key : Disconnect(t, k)
    \/ \E p \in Pool : Dies(p)

Spec == Init /\ [][Next]_vars
FairSpec == Spec /\ \A t \in Task : SF_vars(Step(t))

-----------------------------------------------------------------------------
(* No pool keeps more than MAX_POOL_SIZE sessions, disconnects or not: the *)
(* sessions of an earlier semaphore come back beside those of the present  *)
(* one, and return_to_pool logs out what does not fit.                     *)
IdleBounded == \A p \in Pool : Len(idle[p]) <= MaxPoolSize

(* "At most MAX_POOL_SIZE concurrent sessions per account per pool type":  *)
(* the idle ones, the ones in use or being opened and the ones a clear is  *)
(* logging out, together, until a disconnect forgets the semaphore.        *)
OpenBounded ==
    \A p \in Pool : gen[p] = 1 =>
        /\ Len(idle[p]) + Cardinality(Users(p)) <= MaxPoolSize
        /\ \A t \in Task : At(t, "clearing") /\ PoolOf(t) = p =>
              task[t].open + Len(idle[p]) + Cardinality(Users(p)) <= MaxPoolSize

(* Both: neither what comes back to a pool nor what is opened for it       *)
(* exceeds MAX_POOL_SIZE (pool.rs:118, 206, 288).                          *)
PoolBounded == IdleBounded /\ OpenBounded

(* A session on which a call that drops or discards it failed is in no     *)
(* pool and serves no other call.                                          *)
FailedStaysOut ==
    /\ \A p \in Pool : \A i \in 1 .. Len(idle[p]) : idle[p][i].soiled # "strict"
    /\ \A t \in Task : task[t].pc \in {"noop", "work", "return"} =>
                             task[t].sess.soiled # "strict"

(* Every call, clear and disconnect is answered: no failure keeps a permit *)
(* and no session is logged out under a mutex for ever.                    *)
Served == \A t \in Task : []<>At(t, "out")

(* pool.rs:157: "Never re-pool after an error."                            *)
NeverRepooled ==
    \A p \in Pool : \A i \in 1 .. Len(idle[p]) : idle[p][i].soiled = "no"
=============================================================================
