---------------------------- MODULE ImapPoolProofs ----------------------------
(***************************************************************************)
(* Theorems about ImapPool for every number of tasks, accounts and         *)
(* permits: the types, the permits of a semaphore, and the bound on the    *)
(* sessions of a pool.                                                     *)
(***************************************************************************)
EXTENDS ImapPool, FiniteSetTheorems, TLAPS

(* A permit is free or some call's, and never both.                        *)
Conserved ==
    \A p \in Pool, g \in Gen :
        free[<<p, g>>] + Cardinality(Holders(p, g)) = MaxPoolSize

(* Until a disconnect, every call of a pool is with its first semaphore,   *)
(* and what a disconnect leaves is never that one again.                   *)
Eras ==
    /\ \A t \in Task :
          task[t].pc \in Permit \cup {"acquire"} /\ gen[PoolOf(t)] = 1
              => task[t].gen = 1
    /\ \A t \in Task : task[t].pc \in {"takeIdle", "dropSem"} => task[t].gen # 1

(* A clear in progress holds the mutex of its kind, alone.                 *)
Locks ==
    /\ \A t \in Task : At(t, "clearing") => locked[PoolOf(t)[1]]
    /\ \A t, u \in Task :
          At(t, "clearing") /\ At(u, "clearing") /\ PoolOf(t)[1] = PoolOf(u)[1]
              => t = u

Inv == TypeOK /\ Conserved /\ Eras /\ Locks /\ OpenBounded

-----------------------------------------------------------------------------
(* What one call's move does to the permits and the sessions in use.       *)

Holds(c, p, g) == c.pc \in Permit /\ c.pool = p /\ c.gen = g
Uses(c, p) == c.pc \in Permit \ {"permit", "release"} /\ c.pool = p
One(b) == IF b THEN 1 ELSE 0

LEMMA Move ==
    ASSUME NEW S, NEW T, NEW t, IsFiniteSet(S), NEW b \in BOOLEAN,
           T = IF b THEN S \cup {t} ELSE S \ {t}
    PROVE  /\ Cardinality(S) \in Nat /\ Cardinality(T) \in Nat
           /\ Cardinality(T) = Cardinality(S) + One(b) - One(t \in S)
<1>1. /\ IsFiniteSet(S \cup {t}) /\ IsFiniteSet(S \ {t})
      /\ Cardinality(S \cup {t}) = IF t \in S THEN Cardinality(S) ELSE Cardinality(S) + 1
      /\ Cardinality(S \ {t}) = IF t \in S THEN Cardinality(S) - 1 ELSE Cardinality(S)
  BY FS_AddElement, FS_RemoveElement
<1>2. Cardinality(S) \in Nat /\ Cardinality(T) \in Nat
  BY <1>1, FS_CardinalityType
<1>3. CASE b
  BY <1>1, <1>2, <1>3 DEF One
<1>4. CASE ~b
  BY <1>1, <1>2, <1>4 DEF One
<1> QED
  BY <1>2, <1>3, <1>4

LEMMA HoldersFinite ==
    ASSUME NEW p, NEW g
    PROVE  /\ IsFiniteSet(Holders(p, g)) /\ Cardinality(Holders(p, g)) \in Nat
           /\ IsFiniteSet(Users(p)) /\ Cardinality(Users(p)) \in Nat
<1>1. Holders(p, g) \subseteq Task /\ Users(p) \subseteq Task
  BY DEF Holders, Users
<1> QED
  BY <1>1, PoolAssumption, FS_Subset, FS_CardinalityType

LEMMA HoldersMove ==
    ASSUME task \in [Task -> Call], NEW t \in Task, NEW c \in Call,
           task' = [task EXCEPT ![t] = c], NEW p \in Pool, NEW g \in Gen
    PROVE  /\ Cardinality(Holders(p, g)) \in Nat /\ Cardinality(Holders(p, g)') \in Nat
           /\ Cardinality(Holders(p, g)') = Cardinality(Holders(p, g))
                        + One(Holds(c, p, g)) - One(Holds(task[t], p, g))
<1>1. Holders(p, g)' = IF Holds(c, p, g) THEN Holders(p, g) \cup {t}
                       ELSE Holders(p, g) \ {t}
  BY DEF Holders, Holds, PoolOf
<1>2. t \in Holders(p, g) <=> Holds(task[t], p, g)
  BY DEF Holders, Holds, PoolOf
<1>3. Holds(c, p, g) \in BOOLEAN
  BY DEF Holds
<1> HIDE DEF Holds
<1>4. IsFiniteSet(Holders(p, g)) /\ Cardinality(Holders(p, g)) \in Nat
  BY HoldersFinite
<1>5. /\ Cardinality(Holders(p, g)') \in Nat
      /\ Cardinality(Holders(p, g)') = Cardinality(Holders(p, g)) + One(Holds(c, p, g)) - One(t \in Holders(p, g))
  BY <1>1, <1>3, <1>4, Move
<1> QED
  BY <1>2, <1>4, <1>5 DEF One

LEMMA UsersMove ==
    ASSUME task \in [Task -> Call], NEW t \in Task, NEW c \in Call,
           task' = [task EXCEPT ![t] = c], NEW p \in Pool
    PROVE  /\ Cardinality(Users(p)) \in Nat /\ Cardinality(Users(p)') \in Nat
           /\ Cardinality(Users(p)') = Cardinality(Users(p))
                                + One(Uses(c, p)) - One(Uses(task[t], p))
<1>1. Users(p)' = IF Uses(c, p) THEN Users(p) \cup {t} ELSE Users(p) \ {t}
  BY DEF Users, Uses, PoolOf
<1>2. t \in Users(p) <=> Uses(task[t], p)
  BY DEF Users, Uses, PoolOf
<1>3. Uses(c, p) \in BOOLEAN
  BY DEF Uses
<1> HIDE DEF Uses
<1>4. IsFiniteSet(Users(p)) /\ Cardinality(Users(p)) \in Nat
  BY HoldersFinite
<1>5. /\ Cardinality(Users(p)') \in Nat
      /\ Cardinality(Users(p)') = Cardinality(Users(p)) + One(Uses(c, p)) - One(t \in Users(p))
  BY <1>1, <1>3, <1>4, Move
<1> QED
  BY <1>2, <1>4, <1>5 DEF One
-----------------------------------------------------------------------------
(* Types.                                                                  *)

LEMMA FirstKind ==
    Len(Kinds) \in {1, 2} /\ 1 \in 1 .. Len(Kinds)
<1>1. Len(Kinds) \in {1, 2}
  BY PoolAssumption
<1> QED
  BY <1>1

LEMMA Pools ==
    /\ Home \in Pool
    /\ \A k \in Key, n \in 1 .. Len(Kinds) : <<Kinds[n], k>> \in Pool
    /\ \A p \in Pool : p[1] \in Kind /\ p[2] \in Key
    /\ Len(Kinds) \in {1, 2} /\ 1 \in Gen
<1>1. Len(Kinds) \in {1, 2} /\ 1 \in Gen
  BY PoolAssumption DEF Gen
<1>2. \A k \in Key, n \in 1 .. Len(Kinds) : <<Kinds[n], k>> \in Pool
  BY DEF Pool, Kind
<1>3. PICK k \in Key : TRUE
  BY PoolAssumption
<1>4. 1 \in 1 .. Len(Kinds)
  BY <1>1
<1>5. \E p : p \in Pool
  BY <1>2, <1>3, <1>4
<1>6. Home \in Pool
  BY <1>5 DEF Home
<1> QED
  BY <1>1, <1>2, <1>6 DEF Pool

LEMMA OutType ==
    ASSUME NEW p \in Pool
    PROVE  Out(p) \in Call /\ Fresh \in Session
  BY Pools DEF Out, Call, Session, Fresh, PC

LEMMA OnwardsType ==
    ASSUME NEW t \in Task, NEW c \in Call, NEW pc \in PC
    PROVE  /\ Onwards(t, c, pc) \in Call
           /\ Onwards(t, c, pc).pc \in {c.pc, pc} /\ Onwards(t, c, pc).gen = c.gen
<1> DEFINE n == c.step + 1
<1>1. n \in Nat /\ c.pool[2] \in Key /\ 1 \in 1 .. Len(Kinds)
  <2>1. c.step \in Nat /\ c.pool \in Pool
    BY DEF Call
  <2>2. c.pool[2] \in Key
    BY <2>1, Pools
  <2>3. 1 \in 1 .. Len(Kinds)
    BY FirstKind
  <2> QED
    BY <2>1, <2>2, <2>3
<1>2. CASE n < Len(Kinds)
  <2>1. n + 1 \in 1 .. Len(Kinds)
    BY <1>1, <1>2, Pools
  <2>2. <<Kinds[n + 1], c.pool[2]>> \in Pool
    BY <2>1, <1>1, Pools
  <2> QED
    BY <2>2, <1>1, <1>2 DEF Onwards, Call
<1>3. CASE ~(n < Len(Kinds))
  <2>1. <<Kinds[1], c.pool[2]>> \in Pool
    BY <1>1, Pools
  <2> QED
    BY <2>1, <1>1, <1>3 DEF Onwards, Call
<1> QED
  BY <1>2, <1>3

-----------------------------------------------------------------------------
(* A step of a call that leaves the pools, permits and mutexes alone, opens *)
(* no session and is no clear keeps everything.                            *)
LEMMA CallOnly ==
    ASSUME Inv, NEW t \in Task, NEW c \in Call,
           task' = [task EXCEPT ![t] = c], UNCHANGED <<idle, gen, free, locked>>,
           disconnects' \in [Key -> 0 .. MaxDisconnects],
           c.pc # "clearing", ~At(t, "clearing"),
           c.pc \in Permit <=> task[t].pc \in Permit,
           c.pc \in Permit => c.pool = PoolOf(t) /\ c.gen = task[t].gen,
           \A p \in Pool : Uses(c, p) => Uses(task[t], p),
           c.pc \in Permit \cup {"acquire"} /\ gen[c.pool] = 1 => c.gen = 1,
           c.pc \in {"takeIdle", "dropSem"} => c.gen # 1
    PROVE  Inv'
<1> USE DEF Inv, PoolOf
<1>1. TypeOK'
  BY DEF TypeOK
<1>2. Conserved'
  <2> SUFFICES ASSUME NEW p \in Pool, NEW g \in Gen
               PROVE  free[<<p, g>>] + Cardinality(Holders(p, g)') = MaxPoolSize
    BY DEF Conserved
  <2>1. Holds(c, p, g) <=> Holds(task[t], p, g)
    BY DEF Holds
  <2>2. /\ Cardinality(Holders(p, g)) \in Nat
        /\ Cardinality(Holders(p, g)') = Cardinality(Holders(p, g))
                     + One(Holds(c, p, g)) - One(Holds(task[t], p, g))
    BY HoldersMove DEF TypeOK
  <2>3. free[<<p, g>>] + Cardinality(Holders(p, g)) = MaxPoolSize
    BY DEF Conserved
  <2> QED
    BY <2>1, <2>2, <2>3 DEF One
<1>3. Eras'
  BY DEF Eras, TypeOK
<1>4. Locks'
  BY DEF Locks, At, TypeOK
<1>5. OpenBounded'
  <2> SUFFICES ASSUME NEW p \in Pool, gen[p] = 1
               PROVE  /\ Len(idle[p]) + Cardinality(Users(p)') <= MaxPoolSize
                      /\ \A u \in Task : At(u, "clearing")' /\ PoolOf(u)' = p =>
                            task'[u].open + Len(idle[p]) + Cardinality(Users(p)')
                                <= MaxPoolSize
    BY DEF OpenBounded
  <2>0. /\ Cardinality(Users(p)) \in Nat /\ Cardinality(Users(p)') \in Nat
        /\ Cardinality(Users(p)') = Cardinality(Users(p))
                        + One(Uses(c, p)) - One(Uses(task[t], p))
    BY UsersMove DEF TypeOK
  <2>1. Cardinality(Users(p)') <= Cardinality(Users(p))
    <3>1. Uses(c, p) => Uses(task[t], p)
      OBVIOUS
    <3> HIDE DEF Uses
    <3> QED
      BY <3>1, <2>0 DEF One
  <2>2. idle[p] \in Seq(Session) /\ Len(idle[p]) \in Nat
    BY DEF TypeOK
  <2>3. Len(idle[p]) + Cardinality(Users(p)') <= MaxPoolSize
    BY <2>0, <2>1, <2>2, PoolAssumption DEF OpenBounded
  <2>4. ASSUME NEW u \in Task, At(u, "clearing")', PoolOf(u)' = p
        PROVE  task'[u].open + Len(idle[p]) + Cardinality(Users(p)') <= MaxPoolSize
    <3>1. u # t /\ task'[u] = task[u]
      BY <2>4 DEF At, TypeOK
    <3>2. task[u].open \in Nat
          /\ task[u].open + Len(idle[p]) + Cardinality(Users(p)) <= MaxPoolSize
      BY <3>1, <2>4 DEF OpenBounded, At, TypeOK, Call
    <3> QED
      BY <3>1, <3>2, <2>0, <2>1, <2>2, PoolAssumption
  <2> QED
    BY <2>3, <2>4
<1> QED
  BY <1>1, <1>2, <1>3, <1>4, <1>5

LEMMA InitInv == Init => Inv
<1> SUFFICES ASSUME Init PROVE Inv
  OBVIOUS
<1> USE DEF Init
<1>1. TypeOK
  BY Pools, OutType, PoolAssumption DEF TypeOK, Gen
<1>2. \A p \in Pool, g \in Gen : Holders(p, g) = {} /\ Users(p) = {}
  BY DEF Holders, Users, Out, Permit
<1>3. Conserved /\ OpenBounded
  <2>1. \A p \in Pool, g \in Gen :
           Cardinality(Holders(p, g)) = 0 /\ Cardinality(Users(p)) = 0
    BY <1>2, FS_EmptySet
  <2>2. \A p \in Pool : Cardinality(Users(p)) = 0 /\ Len(idle[p]) = 0
    BY <2>1, Pools
  <2> QED
    BY <2>1, <2>2, PoolAssumption DEF Conserved, OpenBounded, At, Out
<1>4. \A t \in Task : task[t].pc = "out"
  BY DEF Out
<1> HIDE DEF Init
<1>5. Eras
  BY <1>4 DEF Eras, Permit
<1>6. Locks
  <2>1. \A t \in Task : ~At(t, "clearing")
    BY <1>4 DEF At
  <2> QED
    BY <2>1 DEF Locks
<1> QED
  BY <1>1, <1>3, <1>5, <1>6 DEF Inv

(* The steps that touch only the call itself.                              *)
LEMMA QuietSteps ==
    ASSUME Inv, NEW t \in Task,
           \/ \E p \in Pool : Ask(t, p)
           \/ \E k \in Key : Disconnect(t, k)
           \/ Noop(t) \/ Connect(t) \/ Works(t) \/ Skips(t) \/ Fails(t)
           \/ Dispose(t) \/ Logout(t) \/ LogoutAll(t)
    PROVE  Inv'
<1> USE DEF Permit
<1>t. TypeOK /\ task[t] \in Call /\ task[t].pool \in Pool /\ Fresh \in Session
  BY Pools, OutType DEF Inv, TypeOK, Call
<1>g. gen \in [Pool -> Gen] /\ disconnects \in [Key -> 0 .. MaxDisconnects]
  BY <1>t DEF TypeOK
<1>e. /\ task[t].pc \in Permit \cup {"acquire"} /\ gen[task[t].pool] = 1
      => task[t].gen = 1
  BY DEF Inv, Eras, PoolOf
<1>1. ASSUME NEW p \in Pool, Ask(t, p) PROVE Inv'
  <2> DEFINE c == [Out(p) EXCEPT !.pc = "acquire", !.gen = gen[p]]
  <2>1. c \in Call /\ c.pc = "acquire" /\ c.pool = p /\ c.gen = gen[p]
    BY <1>g, <1>t DEF Out, Call, PC
  <2>2. task' = [task EXCEPT ![t] = c] /\ task[t].pc = "out"
        /\ UNCHANGED <<idle, gen, free, locked, disconnects>>
    BY <1>1 DEF Ask, At
  <2> HIDE DEF c
  <2> QED
    BY <2>1, <2>2, <1>t, <1>g, CallOnly DEF At, Uses
<1>2. ASSUME NEW k \in Key, Disconnect(t, k) PROVE Inv'
  <2> DEFINE c == [Out(<<Kinds[1], k>>) EXCEPT !.pc = "takeIdle",
                                               !.gen = disconnects[k] + 2]
  <2>1. <<Kinds[1], k>> \in Pool
    BY Pools, PoolAssumption
  <2>2. disconnects[k] + 2 \in Gen /\ disconnects' \in [Key -> 0 .. MaxDisconnects]
    <3>1. disconnects[k] \in 0 .. MaxDisconnects /\ disconnects[k] < MaxDisconnects
          /\ disconnects' = [disconnects EXCEPT ![k] = @ + 1]
      BY <1>2, <1>g DEF Disconnect
    <3>2. disconnects[k] + 1 \in 0 .. MaxDisconnects /\ disconnects[k] + 2 \in Gen
      BY <3>1, PoolAssumption DEF Gen
    <3> QED
      BY <3>1, <3>2, <1>g
  <2>3. disconnects[k] \in Nat /\ disconnects[k] + 2 # 1
    BY <1>g, PoolAssumption
  <2>5. c \in Call /\ c.pc = "takeIdle" /\ c.gen = disconnects[k] + 2
    BY <2>1, <2>2, <1>t DEF Out, Call, PC
  <2>4. task' = [task EXCEPT ![t] = c] /\ task[t].pc = "out"
        /\ UNCHANGED <<idle, gen, free, locked>>
    BY <1>2 DEF Disconnect, At
  <2> HIDE DEF c
  <2> QED
    BY <2>2, <2>3, <2>4, <2>5, <1>t, <1>g, CallOnly DEF At, Uses
<1> DEFINE c == task'[t]
           Moved == /\ c \in Call /\ task' = [task EXCEPT ![t] = c]
                    /\ c.pool = task[t].pool /\ c.gen = task[t].gen
<1>3. ASSUME Moved, task[t].pc \in {"noop", "connect", "work", "failed", "return"},
             c.pc \in {"connect", "work", "failed", "return", "logout"},
             UNCHANGED <<idle, gen, free, locked, disconnects>>
      PROVE  Inv'
  <2> HIDE DEF c
  <2> QED
    BY <1>3, <1>t, <1>g, <1>e, CallOnly DEF At, Uses, PoolOf
<1>4. ASSUME Moved, task[t].pc \in {"connect", "failed", "logout"},
             c.pc = "release", UNCHANGED <<idle, gen, free, locked, disconnects>>
      PROVE  Inv'
  <2> HIDE DEF c
  <2> QED
    BY <1>4, <1>t, <1>g, <1>e, CallOnly DEF At, Uses, PoolOf
<1>s. task \in [Task -> Call] /\ task[t].sess \in Session
      /\ task[t].sess.alive \in BOOLEAN /\ Fresh.soiled = "no"
  BY <1>t DEF TypeOK, Call, Session, Fresh
<1>5. CASE Noop(t)
  <2>1. Moved /\ c.pc \in {"work", "connect"}
    BY <1>5, <1>t, <1>s DEF Noop, Goes, Call, PC
  <2> QED
    BY <1>3, <1>5, <2>1 DEF Noop, At
<1>6. CASE Connect(t)
  <2>1. Moved /\ c.pc \in {"work", "release"}
    BY <1>6, <1>t, <1>s DEF Connect, Goes, Call, PC
  <2> QED
    BY <1>3, <1>4, <1>6, <2>1 DEF Connect, At
<1>7. CASE Works(t)
  <2>1. Moved /\ c.pc = "return"
    BY <1>7, <1>t, <1>s DEF Works, Goes, Call, PC
  <2> QED
    BY <1>3, <1>7, <2>1 DEF Works, At
<1>8. CASE Skips(t)
  <2>1. Moved /\ c.pc = "return"
    BY <1>8, <1>t, <1>s DEF Skips, Call, PC, Session
  <2> QED
    BY <1>3, <1>8, <2>1 DEF Skips, At
<1>9. CASE Fails(t)
  <2>1. PICK live \in {task[t].sess.alive, FALSE}, m \in Manners \ {"lenient"} :
          task' = [task EXCEPT ![t].pc = "failed",
                               ![t].sess = [alive |-> live, soiled |-> m]]
    BY <1>9 DEF Fails
  <2>2. [alive |-> live, soiled |-> m] \in Session
    BY <1>s, PoolAssumption DEF Session
  <2>3. Moved /\ c.pc = "failed"
    BY <2>1, <2>2, <1>t, <1>s DEF Call, PC
  <2> QED
    BY <1>3, <1>9, <2>3 DEF Fails, At
<1>10. CASE Dispose(t)
  <2>1. Moved /\ c.pc \in {"return", "release", "logout"}
    BY <1>10, <1>t, <1>s DEF Dispose, Goes, Lets, Call, PC
  <2> QED
    BY <1>3, <1>4, <1>10, <2>1 DEF Dispose, At
<1>11. CASE Logout(t)
  <2>1. Moved /\ c.pc = "release"
    BY <1>11, <1>t, <1>s DEF Logout, Goes, Call, PC
  <2> QED
    BY <1>4, <1>11, <2>1 DEF Logout, At
<1>12. CASE LogoutAll(t)
  <2>1. /\ c \in Call /\ task' = [task EXCEPT ![t] = c]
        /\ c.pc \in {"logoutAll", "out"} /\ task[t].pc = "logoutAll"
    <3>1. Out(Home) \in Call /\ Out(Home).pc = "out"
      BY Pools, OutType DEF Out
    <3>2. task[t].open > 0 => task[t].open - 1 \in Nat
      BY <1>t DEF Call
    <3> QED
      BY <3>1, <3>2, <1>12, <1>t, <1>s DEF LogoutAll, At, Call
  <2> HIDE DEF c
  <2> QED
    BY <1>12, <2>1, <1>t, <1>g, CallOnly DEF LogoutAll, At, Uses
<1> QED
  BY <1>1, <1>2, <1>5, <1>6, <1>7, <1>8, <1>9, <1>10, <1>11, <1>12

-----------------------------------------------------------------------------
(* The steps on a pool and its permits.                                    *)

(* What every such step must show of the permits: those of the semaphores  *)
(* change with their holders.                                              *)
LEMMA PermitsKept ==
    ASSUME TypeOK, Conserved, NEW t \in Task, NEW c \in Call,
           task' = [task EXCEPT ![t] = c],
           \A p \in Pool, g \in Gen :
              free'[<<p, g>>] = free[<<p, g>>] + One(Holds(task[t], p, g))
                                               - One(Holds(c, p, g))
    PROVE  Conserved'
<1> SUFFICES ASSUME NEW p \in Pool, NEW g \in Gen
             PROVE  free'[<<p, g>>] + Cardinality(Holders(p, g)') = MaxPoolSize
  BY DEF Conserved
<1>1. /\ Cardinality(Holders(p, g)) \in Nat /\ Cardinality(Holders(p, g)') \in Nat
      /\ Cardinality(Holders(p, g)') = Cardinality(Holders(p, g))
                        + One(Holds(c, p, g)) - One(Holds(task[t], p, g))
  BY HoldersMove DEF TypeOK
<1>2. /\ free[<<p, g>>] + Cardinality(Holders(p, g)) = MaxPoolSize
      /\ free[<<p, g>>] \in Nat
  BY DEF Conserved, TypeOK
<1>3. One(Holds(c, p, g)) \in {0, 1} /\ One(Holds(task[t], p, g)) \in {0, 1}
  BY DEF One
<1> QED
  BY <1>1, <1>2, <1>3

(* And of the sessions: what leaves the pool is taken into use or by the   *)
(* clear, and what a call takes up beside it is one more user.             *)
LEMMA SessionsKept ==
    ASSUME TypeOK, OpenBounded, NEW t \in Task, NEW c \in Call,
           task' = [task EXCEPT ![t] = c], ~At(t, "clearing"), c.pc # "clearing",
           \A p \in Pool : gen'[p] = 1 => gen[p] = 1,
           \A p \in Pool : idle'[p] \in Seq(Session),
           \A p \in Pool : gen[p] = 1 =>
              Len(idle'[p]) + One(Uses(c, p)) <= Len(idle[p]) + One(Uses(task[t], p))
    PROVE  OpenBounded'
<1> SUFFICES ASSUME NEW p \in Pool, gen'[p] = 1
             PROVE  /\ Len(idle'[p]) + Cardinality(Users(p)') <= MaxPoolSize
                    /\ \A u \in Task : At(u, "clearing")' /\ PoolOf(u)' = p =>
                          task'[u].open + Len(idle'[p]) + Cardinality(Users(p)')
                              <= MaxPoolSize
  BY DEF OpenBounded
<1>1. /\ Cardinality(Users(p)) \in Nat /\ Cardinality(Users(p)') \in Nat
      /\ Cardinality(Users(p)') = Cardinality(Users(p))
                              + One(Uses(c, p)) - One(Uses(task[t], p))
  BY UsersMove DEF TypeOK
<1>2. /\ idle[p] \in Seq(Session) /\ idle'[p] \in Seq(Session)
      /\ Len(idle[p]) \in Nat /\ Len(idle'[p]) \in Nat
  BY DEF TypeOK
<1>3. One(Uses(c, p)) \in {0, 1} /\ One(Uses(task[t], p)) \in {0, 1}
  BY DEF One
<1>4. Len(idle'[p]) + Cardinality(Users(p)') <= Len(idle[p]) + Cardinality(Users(p))
  BY <1>1, <1>2, <1>3
<1>5. Len(idle'[p]) + Cardinality(Users(p)') <= MaxPoolSize
  BY <1>1, <1>2, <1>4, PoolAssumption DEF OpenBounded
<1>6. ASSUME NEW u \in Task, At(u, "clearing")', PoolOf(u)' = p
      PROVE  task'[u].open + Len(idle'[p]) + Cardinality(Users(p)') <= MaxPoolSize
  <2>1. u # t /\ task'[u] = task[u]
    BY <1>6 DEF At, TypeOK
  <2>2. /\ task[u].open \in Nat
        /\ task[u].open + Len(idle[p]) + Cardinality(Users(p)) <= MaxPoolSize
    BY <2>1, <1>6 DEF OpenBounded, At, TypeOK, Call, PoolOf
  <2> QED
    BY <2>1, <2>2, <1>1, <1>2, <1>4, PoolAssumption
<1> QED
  BY <1>5, <1>6

LEMMA AcquireStep ==
    ASSUME Inv, NEW t \in Task, Acquire(t) PROVE Inv'
<1> USE DEF Inv, Permit
<1> DEFINE c == [task[t] EXCEPT !.pc = "permit"]
           s == <<task[t].pool, task[t].gen>>
<1>1. /\ task[t] \in Call /\ task[t].pool \in Pool /\ task[t].gen \in Gen
      /\ c \in Call /\ c.pc = "permit" /\ c.pool = task[t].pool /\ c.gen = task[t].gen
  BY DEF TypeOK, Call, PC
<1>2. /\ task[t].pc = "acquire" /\ task' = [task EXCEPT ![t] = c]
      /\ free[s] > 0 /\ free' = [free EXCEPT ![s] = @ - 1]
      /\ UNCHANGED <<idle, gen, locked, disconnects>>
  BY DEF Acquire, At, Goes, PoolOf, TypeOK
<1>3. s \in Pool \X Gen /\ free[s] \in 0 .. MaxPoolSize
  BY <1>1 DEF TypeOK
<1> HIDE DEF c
<1>4. TypeOK'
  BY <1>1, <1>2, <1>3, PoolAssumption DEF TypeOK
<1>5. Conserved'
  <2>1. \A p \in Pool, g \in Gen :
           ~Holds(task[t], p, g) /\ (Holds(c, p, g) <=> <<p, g>> = s)
    BY <1>1, <1>2 DEF Holds
  <2>2. \A p \in Pool, g \in Gen : free[<<p, g>>] \in Int
    BY PoolAssumption DEF TypeOK
  <2>3. ASSUME NEW p \in Pool, NEW g \in Gen
        PROVE  free'[<<p, g>>] = free[<<p, g>>] + One(Holds(task[t], p, g))
                                               - One(Holds(c, p, g))
    <3>1. <<p, g>> \in Pool \X Gen /\ free \in [Pool \X Gen -> 0 .. MaxPoolSize]
      BY DEF TypeOK
    <3>0. ~Holds(task[t], p, g) /\ (Holds(c, p, g) <=> <<p, g>> = s)
      BY <2>1
    <3>2. One(Holds(task[t], p, g)) = 0
          /\ One(Holds(c, p, g)) = IF <<p, g>> = s THEN 1 ELSE 0
      BY <3>0 DEF One
    <3>3. free'[<<p, g>>] = IF <<p, g>> = s THEN free[s] - 1 ELSE free[<<p, g>>]
      BY <3>1, <1>2, <1>3
    <3> QED
      BY <3>2, <3>3, <2>2, <1>3, PoolAssumption
  <2> QED
    BY <2>3, <1>1, <1>2, PermitsKept
<1>6. Eras'
  BY <1>1, <1>2 DEF Eras, TypeOK, PoolOf
<1>7. Locks'
  BY <1>1, <1>2 DEF Locks, At, TypeOK, PoolOf
<1>8. OpenBounded'
  <2>1. \A p \in Pool : ~Uses(task[t], p) /\ ~Uses(c, p)
    BY <1>1, <1>2 DEF Uses
  <2>2. \A p \in Pool : idle[p] \in Seq(Session) /\ Len(idle[p]) \in Nat
    BY DEF TypeOK
  <2>3. \A p \in Pool : One(Uses(task[t], p)) = 0 /\ One(Uses(c, p)) = 0
    BY <2>1 DEF One
  <2>4. ~At(t, "clearing") /\ c.pc # "clearing"
    BY <1>1, <1>2 DEF At
  <2>5. \A p \in Pool : /\ idle'[p] \in Seq(Session)
                        /\ Len(idle'[p]) + One(Uses(c, p))
                              <= Len(idle[p]) + One(Uses(task[t], p))
    BY <2>2, <2>3, <1>2
  <2> QED
    BY <2>4, <2>5, <1>1, <1>2, SessionsKept
<1> QED
  BY <1>4, <1>5, <1>6, <1>7, <1>8
LEMMA PopStep ==
    ASSUME Inv, NEW t \in Task, Pop(t) PROVE Inv'
<1> USE DEF Inv, Permit
<1> DEFINE c == task'[t]
           q == task[t].pool
<1>1. /\ task \in [Task -> Call] /\ task[t] \in Call
      /\ q \in Pool /\ task[t].gen \in Gen /\ task[t].pc = "permit"
  BY DEF TypeOK, Call, Pop, At
<1>2. /\ idle[q] \in Seq(Session) /\ Len(idle[q]) \in Nat
      /\ idle \in [Pool -> Seq(Session)]
  BY <1>1 DEF TypeOK
<1>3. /\ UNCHANGED <<gen, free, locked, disconnects>> /\ ~locked[q[1]]
      /\ \/ Len(idle[q]) = 0 /\ Goes(t, "connect") /\ idle' = idle
         \/ /\ Len(idle[q]) > 0
            /\ idle' = [idle EXCEPT ![q] = SubSeq(@, 1, Len(idle[q]) - 1)]
            /\ \E pc \in {"work", "noop"} :
                  task' = [task EXCEPT ![t].pc = pc,
                                       ![t].sess = idle[q][Len(idle[q])]]
  BY DEF Pop, PoolOf
<1>4. /\ c \in Call /\ task' = [task EXCEPT ![t] = c]
      /\ c.pc \in {"connect", "work", "noop"} /\ c.pool = q /\ c.gen = task[t].gen
  <2>1. CASE Goes(t, "connect")
    BY <2>1, <1>1 DEF Goes, Call, PC
  <2>2. ASSUME Len(idle[q]) > 0, NEW pc \in {"work", "noop"},
               task' = [task EXCEPT ![t].pc = pc, ![t].sess = idle[q][Len(idle[q])]]
        PROVE  /\ c \in Call /\ task' = [task EXCEPT ![t] = c]
               /\ c.pc = pc /\ c.pool = q /\ c.gen = task[t].gen
    <3>1. idle[q][Len(idle[q])] \in Session
      BY <2>2, <1>2
    <3> QED
      BY <2>2, <3>1, <1>1 DEF Call, PC
  <2> QED
    BY <2>1, <2>2, <1>3
<1> HIDE DEF c
<1>5. idle' \in [Pool -> Seq(Session)]
  <2>1. Len(idle[q]) > 0 => SubSeq(idle[q], 1, Len(idle[q]) - 1) \in Seq(Session)
    BY <1>2
  <2> QED
    BY <2>1, <1>2, <1>3
<1>6. TypeOK'
  BY <1>3, <1>4, <1>5 DEF TypeOK
<1>7. Conserved'
  <2>1. ASSUME NEW p \in Pool, NEW g \in Gen
        PROVE  free'[<<p, g>>] = free[<<p, g>>] + One(Holds(task[t], p, g))
                                               - One(Holds(c, p, g))
    <3>1. Holds(task[t], p, g) <=> Holds(c, p, g)
      BY <1>1, <1>4 DEF Holds
    <3>2. free[<<p, g>>] \in Int
      BY PoolAssumption DEF TypeOK
    <3> QED
      BY <3>1, <3>2, <1>3 DEF One
  <2> QED
    BY <2>1, <1>4, PermitsKept
<1>8. Eras'
  BY <1>1, <1>3, <1>4 DEF Eras, PoolOf
<1>9. Locks'
  BY <1>1, <1>3, <1>4 DEF Locks, At, PoolOf
<1>10. OpenBounded'
  <2>1. CASE Len(idle[q]) > 0
    <3>1. ASSUME NEW p \in Pool
          PROVE  /\ idle'[p] \in Seq(Session)
                 /\ Len(idle'[p]) + One(Uses(c, p))
                       <= Len(idle[p]) + One(Uses(task[t], p))
      <4>1. idle[p] \in Seq(Session) /\ Len(idle[p]) \in Nat /\ idle'[p] \in Seq(Session)
        BY <1>2, <1>5
      <4>2. ~Uses(task[t], p) /\ (Uses(c, p) <=> p = q)
        BY <1>1, <1>4 DEF Uses
      <4>3. CASE p = q
        <5>1. Len(idle'[q]) = Len(idle[q]) - 1
          BY <2>1, <1>2, <1>3, <1>1
        <5> QED
          BY <4>1, <4>2, <4>3, <5>1 DEF One
      <4>4. CASE p # q
        <5>1. idle'[p] = idle[p]
          BY <4>4, <1>2, <1>3, <1>1
        <5> QED
          BY <4>1, <4>2, <4>4, <5>1 DEF One
      <4> QED
        BY <4>3, <4>4
    <3> QED
      BY <3>1, <1>1, <1>3, <1>4, SessionsKept DEF At
  (* A session is opened beside the others only by a call that owns a      *)
  (* permit, and so do all the others.                                     *)
  <2>2. CASE Len(idle[q]) = 0
    <3> SUFFICES ASSUME NEW p \in Pool, gen'[p] = 1
                 PROVE  /\ Len(idle'[p]) + Cardinality(Users(p)') <= MaxPoolSize
                        /\ \A u \in Task : At(u, "clearing")' /\ PoolOf(u)' = p =>
                              task'[u].open + Len(idle'[p]) + Cardinality(Users(p)')
                                  <= MaxPoolSize
      BY DEF OpenBounded
    <3>1. /\ Cardinality(Users(p)) \in Nat /\ Cardinality(Users(p)') \in Nat
          /\ Cardinality(Users(p)') = Cardinality(Users(p))
                        + One(Uses(c, p)) - One(Uses(task[t], p))
      BY <1>4, UsersMove DEF TypeOK
    <3>2. ~Uses(task[t], p) /\ (Uses(c, p) <=> p = q)
      BY <1>1, <1>4 DEF Uses
    <3>3. idle' = idle /\ gen[p] = 1 /\ Len(idle[p]) \in Nat
          /\ idle[p] \in Seq(Session)
      BY <2>2, <1>2, <1>3
    <3>4. Len(idle[p]) + Cardinality(Users(p)) <= MaxPoolSize
      BY <3>3 DEF OpenBounded
    <3>5. \A u \in Task : At(u, "clearing")' /\ PoolOf(u)' = p =>
             /\ u # t /\ task'[u] = task[u] /\ task[u].open \in Nat
             /\ task[u].open + Len(idle[p]) + Cardinality(Users(p)) <= MaxPoolSize
             /\ p[1] # q[1]
      BY <1>1, <1>3, <1>4, <3>3 DEF OpenBounded, Locks, At, PoolOf, Call
    <3>6. CASE p = q
      <4>1. Users(q) \subseteq Holders(q, 1) \ {t} /\ t \in Holders(q, 1)
        BY <1>1, <3>3, <3>6 DEF Users, Holders, Eras, PoolOf
      <4>2. /\ IsFiniteSet(Holders(q, 1)) /\ 1 \in Gen
            /\ Cardinality(Holders(q, 1)) \in Nat
        BY HoldersFinite, Pools
      <4>3. /\ IsFiniteSet(Holders(q, 1) \ {t})
            /\ Cardinality(Holders(q, 1) \ {t}) = Cardinality(Holders(q, 1)) - 1
        BY <4>1, <4>2, FS_RemoveElement
      <4>4. Cardinality(Users(q)) <= Cardinality(Holders(q, 1)) - 1
        BY <4>1, <4>3, FS_Subset
      <4>5. free[<<q, 1>>] \in Nat
            /\ free[<<q, 1>>] + Cardinality(Holders(q, 1)) = MaxPoolSize
        BY <4>2, <1>1 DEF TypeOK, Conserved
      <4>6. Cardinality(Users(p)') = Cardinality(Users(p)) + 1
        BY <3>1, <3>2, <3>6 DEF One
      <4>7. Len(idle'[p]) + Cardinality(Users(p)') <= MaxPoolSize
        BY <4>2, <4>4, <4>5, <4>6, <3>1, <3>3, <3>6, <2>2, PoolAssumption
      <4> QED
        BY <4>7, <3>5, <3>6
    <3>7. CASE p # q
      <4>1. Cardinality(Users(p)') = Cardinality(Users(p))
        BY <3>1, <3>2, <3>7 DEF One
      <4> QED
        BY <4>1, <3>3, <3>4, <3>5
    <3> QED
      BY <3>6, <3>7
  <2> QED
    BY <2>1, <2>2, <1>2
<1> QED
  BY <1>6, <1>7, <1>8, <1>9, <1>10
LEMMA PushStep ==
    ASSUME Inv, NEW t \in Task, Push(t) PROVE Inv'
<1> USE DEF Inv, Permit
<1> DEFINE c == task'[t]
           q == task[t].pool
<1>1. /\ task \in [Task -> Call] /\ task[t] \in Call /\ Fresh \in Session
      /\ q \in Pool /\ task[t].gen \in Gen /\ task[t].pc = "return"
      /\ task[t].sess \in Session
  BY Pools, OutType DEF TypeOK, Call, Push, At
<1>2. /\ idle[q] \in Seq(Session) /\ Len(idle[q]) \in Nat
      /\ idle \in [Pool -> Seq(Session)]
  BY <1>1 DEF TypeOK
<1>3. /\ UNCHANGED <<gen, free, locked, disconnects>>
      /\ \/ /\ Len(idle[q]) < MaxPoolSize /\ Lets(t, "release")
            /\ idle' = [idle EXCEPT ![q] = Append(@, task[t].sess)]
         \/ Lets(t, "logout") /\ idle' = idle
  BY DEF Push, PoolOf
<1>4. /\ c \in Call /\ task' = [task EXCEPT ![t] = c]
      /\ c.pool = q /\ c.gen = task[t].gen
      /\ \/ c.pc = "logout" /\ idle' = idle
         \/ c.pc = "release" /\ idle' = [idle EXCEPT ![q] = Append(@, task[t].sess)]
  BY <1>1, <1>3 DEF Lets, Call, PC
<1> HIDE DEF c
<1>5. idle' \in [Pool -> Seq(Session)]
  <2>1. Append(idle[q], task[t].sess) \in Seq(Session)
    BY <1>1, <1>2
  <2> QED
    BY <2>1, <1>1, <1>2, <1>4
<1>6. TypeOK'
  BY <1>3, <1>4, <1>5 DEF TypeOK
<1>7. Conserved'
  <2>1. ASSUME NEW p \in Pool, NEW g \in Gen
        PROVE  free'[<<p, g>>] = free[<<p, g>>] + One(Holds(task[t], p, g))
                                               - One(Holds(c, p, g))
    <3>1. Holds(task[t], p, g) <=> Holds(c, p, g)
      BY <1>1, <1>4 DEF Holds
    <3>2. free[<<p, g>>] \in Int
      BY PoolAssumption DEF TypeOK
    <3> QED
      BY <3>1, <3>2, <1>3 DEF One
  <2> QED
    BY <2>1, <1>4, PermitsKept
<1>8. Eras'
  BY <1>1, <1>3, <1>4 DEF Eras, PoolOf
<1>9. Locks'
  BY <1>1, <1>3, <1>4 DEF Locks, At, PoolOf
<1>10. OpenBounded'
  <2>1. ASSUME NEW p \in Pool
        PROVE  /\ idle'[p] \in Seq(Session)
               /\ Len(idle'[p]) + One(Uses(c, p)) <= Len(idle[p]) + One(Uses(task[t], p))
    <3>1. idle[p] \in Seq(Session) /\ Len(idle[p]) \in Nat /\ idle'[p] \in Seq(Session)
      BY <1>2, <1>5
    <3>2. (Uses(task[t], p) <=> p = q) /\ (Uses(c, p) <=> p = q /\ c.pc = "logout")
      BY <1>1, <1>4 DEF Uses
    <3>3. CASE p = q
      <4>1. CASE c.pc = "release"
        <5>1. idle'[q] = Append(idle[q], task[t].sess)
          BY <4>1, <1>1, <1>2, <1>4
        <5>2. Len(idle'[p]) = Len(idle[p]) + 1
          BY <5>1, <3>3, <1>1, <1>2
        <5>3. One(Uses(task[t], p)) = 1 /\ One(Uses(c, p)) = 0
          BY <4>1, <3>2, <3>3 DEF One
        <5> QED
          BY <3>1, <5>2, <5>3
      <4>2. CASE c.pc # "release"
        <5>1. One(Uses(task[t], p)) = 1 /\ One(Uses(c, p)) = 1 /\ idle' = idle
          BY <4>2, <3>2, <3>3, <1>4 DEF One
        <5> QED
          BY <3>1, <5>1
      <4> QED
        BY <4>1, <4>2
    <3>4. CASE p # q
      <4>1. idle'[p] = idle[p]
        BY <3>4, <1>2, <1>4, <1>1
      <4> QED
        BY <3>1, <3>2, <3>4, <4>1 DEF One
    <3> QED
      BY <3>3, <3>4
  <2> QED
    BY <2>1, <1>1, <1>3, <1>4, SessionsKept DEF At
<1> QED
  BY <1>6, <1>7, <1>8, <1>9, <1>10

LEMMA ReleaseStep ==
    ASSUME Inv, NEW t \in Task, Release(t) PROVE Inv'
<1> USE DEF Inv, Permit
<1> DEFINE c == Out(Home)
           s == <<task[t].pool, task[t].gen>>
<1>1. /\ task \in [Task -> Call] /\ task[t] \in Call
      /\ task[t].pool \in Pool /\ task[t].gen \in Gen /\ s \in Pool \X Gen
      /\ c \in Call /\ c.pc = "out"
  BY Pools, OutType DEF TypeOK, Call, Out
<1>2. /\ task[t].pc = "release" /\ task' = [task EXCEPT ![t] = c]
      /\ free' = [free EXCEPT ![s] = @ + 1]
      /\ UNCHANGED <<idle, gen, locked, disconnects>>
  BY DEF Release, At, PoolOf
<1>3. free \in [Pool \X Gen -> 0 .. MaxPoolSize] /\ free[s] \in 0 .. MaxPoolSize
  BY <1>1 DEF TypeOK
<1> HIDE DEF c
<1>4. \A p \in Pool, g \in Gen :
         ~Holds(c, p, g) /\ (Holds(task[t], p, g) <=> <<p, g>> = s)
  BY <1>1, <1>2 DEF Holds
<1>5. free[s] + 1 <= MaxPoolSize
  <2>0. PICK p \in Pool, g \in Gen : <<p, g>> = s
    BY <1>1
  <2>1. One(Holds(c, p, g)) = 0 /\ One(Holds(task[t], p, g)) = 1
    BY <2>0, <1>4 DEF One
  <2>2. /\ Cardinality(Holders(p, g)) \in Nat
        /\ Cardinality(Holders(p, g)') \in Nat
        /\ Cardinality(Holders(p, g)') = Cardinality(Holders(p, g))
                        + One(Holds(c, p, g)) - One(Holds(task[t], p, g))
    BY <1>1, <1>2, HoldersMove
  <2>3. free[s] + Cardinality(Holders(p, g)) = MaxPoolSize
    BY <2>0 DEF Conserved
  <2> QED
    BY <2>1, <2>2, <2>3, <1>3, PoolAssumption
<1>6. TypeOK'
  <2>1. free' \in [Pool \X Gen -> 0 .. MaxPoolSize]
    BY <1>1, <1>2, <1>3, <1>5, PoolAssumption
  <2> QED
    BY <2>1, <1>1, <1>2 DEF TypeOK
<1>7. Conserved'
  <2>1. ASSUME NEW p \in Pool, NEW g \in Gen
        PROVE  free'[<<p, g>>] = free[<<p, g>>] + One(Holds(task[t], p, g))
                                               - One(Holds(c, p, g))
    <3>0. ~Holds(c, p, g) /\ (Holds(task[t], p, g) <=> <<p, g>> = s)
      BY <1>4
    <3>1. <<p, g>> \in Pool \X Gen /\ free[<<p, g>>] \in Int
      BY <1>3, PoolAssumption
    <3>2. One(Holds(c, p, g)) = 0
          /\ One(Holds(task[t], p, g)) = IF <<p, g>> = s THEN 1 ELSE 0
      BY <3>0 DEF One
    <3>3. free'[<<p, g>>] = IF <<p, g>> = s THEN free[s] + 1 ELSE free[<<p, g>>]
      BY <3>1, <1>2, <1>3
    <3> QED
      BY <3>1, <3>2, <3>3, <1>3, PoolAssumption
  <2> QED
    BY <2>1, <1>1, <1>2, PermitsKept
<1>8. Eras'
  BY <1>1, <1>2 DEF Eras, PoolOf
<1>9. Locks'
  BY <1>1, <1>2 DEF Locks, At, PoolOf
<1>10. OpenBounded'
  <2>1. \A p \in Pool : ~Uses(task[t], p) /\ ~Uses(c, p)
    BY <1>1, <1>2 DEF Uses
  <2>2. \A p \in Pool : /\ idle'[p] \in Seq(Session)
                        /\ Len(idle'[p]) + One(Uses(c, p))
                              <= Len(idle[p]) + One(Uses(task[t], p))
    <3>1. \A p \in Pool : idle[p] \in Seq(Session) /\ Len(idle[p]) \in Nat
      BY DEF TypeOK
    <3> QED
      BY <2>1, <3>1, <1>2 DEF One
  <2> QED
    BY <2>2, <1>1, <1>2, SessionsKept DEF At
<1> QED
  BY <1>6, <1>7, <1>8, <1>9, <1>10
LEMMA ClearStep ==
    ASSUME Inv, NEW t \in Task, NEW q \in Pool, Clear(t, q) PROVE Inv'
<1> USE DEF Inv, Permit
<1> DEFINE c == [Out(q) EXCEPT !.pc = "clearing", !.open = Len(idle[q])]
<1>1. /\ task \in [Task -> Call] /\ task[t] \in Call /\ task[t].pc = "out"
      /\ idle[q] \in Seq(Session) /\ Len(idle[q]) \in Nat
      /\ idle \in [Pool -> Seq(Session)] /\ locked \in [Kind -> BOOLEAN]
      /\ q[1] \in Kind
  BY Pools DEF TypeOK, Clear, At
<1>2. /\ task' = [task EXCEPT ![t] = c] /\ idle' = [idle EXCEPT ![q] = <<>>]
      /\ ~locked[q[1]] /\ locked' = [locked EXCEPT ![q[1]] = TRUE]
      /\ UNCHANGED <<gen, free, disconnects>>
  BY DEF Clear
<1>3. /\ c \in Call /\ c.pc = "clearing" /\ c.pool = q /\ c.open = Len(idle[q])
  BY <1>1, OutType DEF Out, Call, PC
<1> HIDE DEF c
<1>4. idle' \in [Pool -> Seq(Session)] /\ idle'[q] = <<>>
  BY <1>1, <1>2
<1>5. TypeOK'
  BY <1>1, <1>2, <1>3, <1>4 DEF TypeOK
<1>6. Conserved'
  <2>1. \A p \in Pool, g \in Gen : ~Holds(c, p, g) /\ ~Holds(task[t], p, g)
    BY <1>1, <1>3 DEF Holds
  <2>2. \A p \in Pool, g \in Gen : free[<<p, g>>] \in Int
    BY PoolAssumption DEF TypeOK
  <2>3. ASSUME NEW p \in Pool, NEW g \in Gen
        PROVE  free'[<<p, g>>] = free[<<p, g>>] + One(Holds(task[t], p, g))
                                               - One(Holds(c, p, g))
    <3>1. One(Holds(task[t], p, g)) = 0 /\ One(Holds(c, p, g)) = 0
      BY <2>1 DEF One
    <3>2. free[<<p, g>>] \in Int /\ free' = free
      BY <2>2, <1>2
    <3> QED
      BY <3>1, <3>2
  <2> QED
    BY <2>3, <1>2, <1>3, PermitsKept
<1>7. Eras'
  BY <1>1, <1>2, <1>3 DEF Eras, PoolOf
<1>8. Locks'
  <2>1. \A u \in Task \ {t} : At(u, "clearing") => PoolOf(u)[1] # q[1]
    BY <1>2 DEF Locks
  <2>2. \A u \in Task \ {t} : At(u, "clearing")' <=> At(u, "clearing")
    BY <1>1, <1>2 DEF At
  <2>3. \A u \in Task \ {t} : PoolOf(u)' = PoolOf(u) /\ PoolOf(u)[1] \in Kind
    BY <1>1, <1>2, Pools DEF PoolOf, Call
  <2>4. PoolOf(t)' = q
    BY <1>1, <1>2, <1>3 DEF PoolOf
  <2>5. \A u \in Task : At(u, "clearing")' => locked'[PoolOf(u)'[1]]
    BY <2>1, <2>2, <2>3, <2>4, <1>1, <1>2 DEF Locks
  <2> QED
    BY <2>1, <2>2, <2>3, <2>4, <2>5 DEF Locks
<1>9. OpenBounded'
  <2> SUFFICES ASSUME NEW p \in Pool, gen'[p] = 1
               PROVE  /\ Len(idle'[p]) + Cardinality(Users(p)') <= MaxPoolSize
                      /\ \A u \in Task : At(u, "clearing")' /\ PoolOf(u)' = p =>
                            task'[u].open + Len(idle'[p]) + Cardinality(Users(p)')
                                <= MaxPoolSize
    BY DEF OpenBounded
  <2>1. ~Uses(c, p) /\ ~Uses(task[t], p)
    BY <1>1, <1>3 DEF Uses
  <2>2. /\ Cardinality(Users(p)) \in Nat
        /\ Cardinality(Users(p)') = Cardinality(Users(p))
    <3>1. /\ Cardinality(Users(p)) \in Nat /\ Cardinality(Users(p)') \in Nat
          /\ Cardinality(Users(p)') = Cardinality(Users(p))
                                + One(Uses(c, p)) - One(Uses(task[t], p))
      BY <1>1, <1>2, <1>3, UsersMove
    <3>2. One(Uses(c, p)) = 0 /\ One(Uses(task[t], p)) = 0
      BY <2>1 DEF One
    <3> QED
      BY <3>1, <3>2
  <2>3. /\ idle[p] \in Seq(Session) /\ Len(idle[p]) \in Nat
        /\ Len(idle[p]) + Cardinality(Users(p)) <= MaxPoolSize
    BY <1>1, <1>2 DEF OpenBounded
  <2>4. /\ Len(idle'[p]) <= Len(idle[p]) /\ Len(idle'[p]) \in Nat
        /\ p = q => Len(idle'[p]) = 0
    <3>1. CASE p = q
      BY <3>1, <2>3, <1>4
    <3>2. CASE p # q
      BY <3>2, <2>3, <1>1, <1>2
    <3> QED
      BY <3>1, <3>2
  <2>5. ASSUME NEW u \in Task, At(u, "clearing")', PoolOf(u)' = p
        PROVE  task'[u].open + Len(idle'[p]) + Cardinality(Users(p)') <= MaxPoolSize
    <3>1. CASE u = t
      <4>1. p = q /\ task'[u].open = Len(idle[p]) /\ Len(idle'[p]) = 0
        BY <3>1, <2>4, <2>5, <1>1, <1>2, <1>3 DEF PoolOf
      <4> QED
        BY <4>1, <2>2, <2>3, <2>4, PoolAssumption
    <3>2. CASE u # t
      <4>1. task'[u] = task[u] /\ At(u, "clearing") /\ PoolOf(u) = p
            /\ task[u].open \in Nat
        BY <3>2, <2>5, <1>1, <1>2 DEF At, PoolOf, Call
      <4>2. task[u].open + Len(idle[p]) + Cardinality(Users(p)) <= MaxPoolSize
        BY <4>1, <1>2 DEF OpenBounded
      <4> QED
        BY <4>1, <4>2, <2>2, <2>3, <2>4, PoolAssumption
    <3> QED
      BY <3>1, <3>2
  <2> QED
    BY <2>2, <2>3, <2>4, <2>5, PoolAssumption
<1> QED
  BY <1>5, <1>6, <1>7, <1>8, <1>9

LEMMA ClearingStep ==
    ASSUME Inv, NEW t \in Task, Clearing(t) PROVE Inv'
<1> USE DEF Inv, Permit
<1> DEFINE c == task'[t]
<1>1. /\ task \in [Task -> Call] /\ task[t] \in Call /\ task[t].pc = "clearing"
      /\ task[t].open \in Nat /\ Home \in Pool /\ Out(Home) \in Call
      /\ Out(Home).pc = "out" /\ locked \in [Kind -> BOOLEAN]
      /\ PoolOf(t) \in Pool /\ PoolOf(t)[1] \in Kind
  BY Pools, OutType DEF TypeOK, Clearing, At, Call, Out, PoolOf
<1>2. /\ UNCHANGED <<idle, gen, free, disconnects>>
      /\ \/ /\ task[t].open > 0 /\ locked' = locked
            /\ task' = [task EXCEPT ![t].open = @ - 1]
         \/ /\ task' = [task EXCEPT ![t] = Out(Home)]
            /\ locked' = [locked EXCEPT ![PoolOf(t)[1]] = FALSE]
  BY DEF Clearing
<1>3. /\ c \in Call /\ task' = [task EXCEPT ![t] = c] /\ c.open \in Nat
      /\ \/ /\ c.pc = "clearing" /\ c.pool = PoolOf(t) /\ c.open = task[t].open - 1
            /\ locked' = locked
         \/ c.pc = "out" /\ locked' = [locked EXCEPT ![PoolOf(t)[1]] = FALSE]
  <2>1. CASE task[t].open > 0 /\ task' = [task EXCEPT ![t].open = @ - 1]
    <3>1. task[t].open - 1 \in Nat
      BY <2>1, <1>1
    <3> QED
      BY <2>1, <3>1, <1>1, <1>2 DEF Call, PoolOf
  <2>2. CASE task' = [task EXCEPT ![t] = Out(Home)]
    BY <2>2, <1>1, <1>2 DEF Call
  <2> QED
    BY <2>1, <2>2, <1>2
<1> HIDE DEF c
<1>4. TypeOK'
  BY <1>1, <1>2, <1>3 DEF TypeOK
<1>5. Conserved'
  <2>1. \A p \in Pool, g \in Gen : ~Holds(c, p, g) /\ ~Holds(task[t], p, g)
    BY <1>1, <1>3 DEF Holds
  <2>2. \A p \in Pool, g \in Gen : free[<<p, g>>] \in Int
    BY PoolAssumption DEF TypeOK
  <2>3. ASSUME NEW p \in Pool, NEW g \in Gen
        PROVE  free'[<<p, g>>] = free[<<p, g>>] + One(Holds(task[t], p, g))
                                               - One(Holds(c, p, g))
    <3>1. One(Holds(task[t], p, g)) = 0 /\ One(Holds(c, p, g)) = 0
      BY <2>1 DEF One
    <3>2. free[<<p, g>>] \in Int /\ free' = free
      BY <2>2, <1>2
    <3> QED
      BY <3>1, <3>2
  <2> QED
    BY <2>3, <1>3, PermitsKept
<1>6. Eras'
  BY <1>1, <1>2, <1>3 DEF Eras, PoolOf
<1>7. Locks'
  <2>1. \A u \in Task \ {t} :
           At(u, "clearing") => locked[PoolOf(u)[1]] /\ PoolOf(u)[1] # PoolOf(t)[1]
    BY <1>1 DEF Locks, At
  <2>2. \A u \in Task \ {t} : At(u, "clearing")' <=> At(u, "clearing")
    BY <1>1, <1>3 DEF At
  <2>3. \A u \in Task \ {t} : PoolOf(u)' = PoolOf(u) /\ PoolOf(u)[1] \in Kind
    BY <1>1, <1>3, Pools DEF PoolOf, Call
  <2>4. At(t, "clearing")' => PoolOf(t)' = PoolOf(t) /\ locked' = locked
                              /\ locked[PoolOf(t)[1]]
    BY <1>1, <1>3 DEF PoolOf, At, Locks
  <2>5. \A u \in Task : At(u, "clearing")' => locked'[PoolOf(u)'[1]]
    BY <2>1, <2>2, <2>3, <2>4, <1>1, <1>3
  <2> QED
    BY <2>1, <2>2, <2>3, <2>4, <2>5 DEF Locks
<1>8. OpenBounded'
  <2> SUFFICES ASSUME NEW p \in Pool, gen'[p] = 1
               PROVE  /\ Len(idle'[p]) + Cardinality(Users(p)') <= MaxPoolSize
                      /\ \A u \in Task : At(u, "clearing")' /\ PoolOf(u)' = p =>
                            task'[u].open + Len(idle'[p]) + Cardinality(Users(p)')
                                <= MaxPoolSize
    BY DEF OpenBounded
  <2>1. ~Uses(c, p) /\ ~Uses(task[t], p)
    BY <1>1, <1>3 DEF Uses
  <2>2. /\ Cardinality(Users(p)) \in Nat
        /\ Cardinality(Users(p)') = Cardinality(Users(p))
    <3>1. /\ Cardinality(Users(p)) \in Nat /\ Cardinality(Users(p)') \in Nat
          /\ Cardinality(Users(p)') = Cardinality(Users(p))
                                + One(Uses(c, p)) - One(Uses(task[t], p))
      BY <1>1, <1>3, UsersMove
    <3>2. One(Uses(c, p)) = 0 /\ One(Uses(task[t], p)) = 0
      BY <2>1 DEF One
    <3> QED
      BY <3>1, <3>2
  <2>3. /\ idle[p] \in Seq(Session) /\ Len(idle[p]) \in Nat /\ idle' = idle
        /\ Len(idle[p]) + Cardinality(Users(p)) <= MaxPoolSize
    BY <1>1, <1>2 DEF OpenBounded, TypeOK
  <2>4. ASSUME NEW u \in Task, At(u, "clearing")', PoolOf(u)' = p
        PROVE  task'[u].open + Len(idle'[p]) + Cardinality(Users(p)') <= MaxPoolSize
    <3>1. At(u, "clearing") /\ PoolOf(u) = p /\ task[u].open \in Nat
          /\ task'[u].open \in Nat /\ task'[u].open <= task[u].open
      BY <2>4, <1>1, <1>3 DEF At, PoolOf, Call
    <3>2. task[u].open + Len(idle[p]) + Cardinality(Users(p)) <= MaxPoolSize
      BY <3>1, <1>2 DEF OpenBounded
    <3> QED
      BY <3>1, <3>2, <2>2, <2>3, PoolAssumption
  <2> QED
    BY <2>2, <2>3, <2>4
<1> QED
  BY <1>4, <1>5, <1>6, <1>7, <1>8

LEMMA TakeIdleStep ==
    ASSUME Inv, NEW t \in Task, TakeIdle(t) PROVE Inv'
<1> USE DEF Inv, Permit
<1> DEFINE q == task[t].pool
           d == [task[t] EXCEPT !.open = @ + Len(idle[q])]
           c == Onwards(t, d, "dropSem")
<1>1. /\ task \in [Task -> Call] /\ task[t] \in Call /\ task[t].pc = "takeIdle"
      /\ q \in Pool /\ idle[q] \in Seq(Session) /\ Len(idle[q]) \in Nat
      /\ idle \in [Pool -> Seq(Session)] /\ task[t].gen # 1
  BY DEF TypeOK, TakeIdle, At, Call, Eras
<1>2. /\ task' = [task EXCEPT ![t] = c] /\ idle' = [idle EXCEPT ![q] = <<>>]
      /\ UNCHANGED <<gen, free, locked, disconnects>>
  BY <1>1 DEF TakeIdle, PoolOf
<1>3. d \in Call /\ d.pc = "takeIdle" /\ d.gen = task[t].gen
  <2>1. task[t].open \in Nat /\ task[t].open + Len(idle[q]) \in Nat
    BY <1>1 DEF Call
  <2> QED
    BY <2>1, <1>1 DEF Call
<1>4. c \in Call /\ c.pc \in {"takeIdle", "dropSem"} /\ c.gen # 1
  <2> HIDE DEF d
  <2>1. "dropSem" \in PC
    BY DEF PC
  <2> QED
    BY <1>1, <1>3, <2>1, OnwardsType
<1> HIDE DEF c
<1>5. TypeOK'
  BY <1>1, <1>2, <1>4 DEF TypeOK
<1>6. Conserved'
  <2>1. ASSUME NEW p \in Pool, NEW g \in Gen
        PROVE  free'[<<p, g>>] = free[<<p, g>>] + One(Holds(task[t], p, g))
                                               - One(Holds(c, p, g))
    <3>1. ~Holds(c, p, g) /\ ~Holds(task[t], p, g)
      BY <1>1, <1>4 DEF Holds
    <3>2. One(Holds(task[t], p, g)) = 0 /\ One(Holds(c, p, g)) = 0
      BY <3>1 DEF One
    <3>3. free[<<p, g>>] \in Int /\ free' = free
      BY <1>2, PoolAssumption DEF TypeOK
    <3> QED
      BY <3>2, <3>3
  <2> QED
    BY <2>1, <1>2, <1>4, PermitsKept
<1>7. Eras'
  BY <1>1, <1>2, <1>4 DEF Eras, PoolOf
<1>8. Locks'
  BY <1>1, <1>2, <1>4 DEF Locks, At, PoolOf
<1>9. OpenBounded'
  <2>1. ASSUME NEW p \in Pool
        PROVE  /\ idle'[p] \in Seq(Session)
               /\ Len(idle'[p]) + One(Uses(c, p)) <= Len(idle[p]) + One(Uses(task[t], p))
    <3>1. ~Uses(c, p) /\ ~Uses(task[t], p)
      BY <1>1, <1>4 DEF Uses
    <3>2. One(Uses(c, p)) = 0 /\ One(Uses(task[t], p)) = 0
      BY <3>1 DEF One
    <3>3. /\ idle[p] \in Seq(Session) /\ Len(idle[p]) \in Nat
          /\ idle'[p] \in Seq(Session) /\ (idle'[p] = <<>> \/ idle'[p] = idle[p])
      BY <1>1, <1>2
    <3>4. Len(idle'[p]) <= Len(idle[p]) /\ idle'[p] \in Seq(Session)
      BY <3>3
    <3> QED
      BY <3>2, <3>3, <3>4
  <2> QED
    BY <2>1, <1>1, <1>2, <1>4, SessionsKept DEF At
<1> QED
  BY <1>5, <1>6, <1>7, <1>8, <1>9

LEMMA DropSemStep ==
    ASSUME Inv, NEW t \in Task, DropSem(t) PROVE Inv'
<1> USE DEF Inv, Permit
<1> DEFINE q == task[t].pool
           c == Onwards(t, task[t], "logoutAll")
<1>1. /\ task \in [Task -> Call] /\ task[t] \in Call /\ task[t].pc = "dropSem"
      /\ q \in Pool /\ task[t].gen \in Gen /\ task[t].gen # 1
      /\ gen \in [Pool -> Gen]
  BY DEF TypeOK, DropSem, At, Call, Eras
<1>2. /\ task' = [task EXCEPT ![t] = c] /\ gen' = [gen EXCEPT ![q] = task[t].gen]
      /\ UNCHANGED <<idle, free, locked, disconnects>>
  BY <1>1 DEF DropSem, PoolOf
<1>3. c \in Call /\ c.pc \in {"dropSem", "logoutAll"} /\ c.gen # 1
  <2>1. "logoutAll" \in PC
    BY DEF PC
  <2> QED
    BY <1>1, <2>1, OnwardsType
<1> HIDE DEF c
<1>4. \A p \in Pool : gen'[p] = 1 => gen[p] = 1 /\ p # q
  BY <1>1, <1>2
<1>5. TypeOK'
  BY <1>1, <1>2, <1>3 DEF TypeOK
<1>6. Conserved'
  <2>1. ASSUME NEW p \in Pool, NEW g \in Gen
        PROVE  free'[<<p, g>>] = free[<<p, g>>] + One(Holds(task[t], p, g))
                                               - One(Holds(c, p, g))
    <3>1. ~Holds(c, p, g) /\ ~Holds(task[t], p, g)
      BY <1>1, <1>3 DEF Holds
    <3>2. One(Holds(task[t], p, g)) = 0 /\ One(Holds(c, p, g)) = 0
      BY <3>1 DEF One
    <3>3. free[<<p, g>>] \in Int /\ free' = free
      BY <1>2, PoolAssumption DEF TypeOK
    <3> QED
      BY <3>2, <3>3
  <2> QED
    BY <2>1, <1>2, <1>3, PermitsKept
<1>7. Eras'
  <2>1. \A u \in Task \ {t} : task'[u] = task[u] /\ task[u].pool \in Pool
    BY <1>1, <1>2 DEF Call
  <2>2. task'[t] = c
    BY <1>1, <1>2
  <2> QED
    BY <2>1, <2>2, <1>1, <1>3, <1>4 DEF Eras, PoolOf
<1>8. Locks'
  BY <1>1, <1>2, <1>3 DEF Locks, At, PoolOf
<1>9. OpenBounded'
  <2>1. ASSUME NEW p \in Pool
        PROVE  /\ idle'[p] \in Seq(Session)
               /\ Len(idle'[p]) + One(Uses(c, p)) <= Len(idle[p]) + One(Uses(task[t], p))
    <3>1. ~Uses(c, p) /\ ~Uses(task[t], p)
      BY <1>1, <1>3 DEF Uses
    <3>2. One(Uses(c, p)) = 0 /\ One(Uses(task[t], p)) = 0
      BY <3>1 DEF One
    <3>3. idle[p] \in Seq(Session) /\ Len(idle[p]) \in Nat /\ idle' = idle
      BY <1>2 DEF TypeOK
    <3> QED
      BY <3>2, <3>3
  <2> QED
    BY <2>1, <1>1, <1>2, <1>3, <1>4, SessionsKept DEF At
<1> QED
  BY <1>5, <1>6, <1>7, <1>8, <1>9

LEMMA DiesStep ==
    ASSUME Inv, NEW q \in Pool, Dies(q) PROVE Inv'
<1> USE DEF Inv
<1>1. PICK i \in 1 .. Len(idle[q]) : idle' = [idle EXCEPT ![q][i].alive = FALSE]
  BY DEF Dies
<1>2. UNCHANGED <<gen, free, locked, task, disconnects>>
  BY DEF Dies
<1>3. idle \in [Pool -> Seq(Session)] /\ idle[q] \in Seq(Session) /\ idle[q][i] \in Session
  BY <1>1 DEF TypeOK
<1>4. [idle[q][i] EXCEPT !.alive = FALSE] \in Session
  BY <1>3 DEF Session
<1>5. /\ [idle[q] EXCEPT ![i] = [@ EXCEPT !.alive = FALSE]] \in Seq(Session)
      /\ Len([idle[q] EXCEPT ![i] = [@ EXCEPT !.alive = FALSE]]) = Len(idle[q])
  BY <1>1, <1>3, <1>4
<1>6. /\ idle' \in [Pool -> Seq(Session)]
      /\ \A p \in Pool : Len(idle'[p]) = Len(idle[p])
  BY <1>1, <1>3, <1>5
<1>7. TypeOK'
  BY <1>2, <1>6 DEF TypeOK
<1>8. \A p \in Pool : Users(p)' = Users(p)
  BY <1>2 DEF Users, PoolOf
<1>9. \A p \in Pool, g \in Gen : Holders(p, g)' = Holders(p, g)
  BY <1>2 DEF Holders, PoolOf
<1>10. Conserved'
  BY <1>2, <1>9 DEF Conserved
<1>11. Eras' /\ Locks'
  BY <1>2 DEF Eras, Locks, At, PoolOf
<1>12. OpenBounded'
  BY <1>2, <1>6, <1>8 DEF OpenBounded, At, PoolOf
<1> QED
  BY <1>7, <1>10, <1>11, <1>12

LEMMA NextInv == Inv /\ [Next]_vars => Inv'
<1> SUFFICES ASSUME Inv, [Next]_vars PROVE Inv'
  OBVIOUS
<1>1. CASE UNCHANGED vars
  <2>1. UNCHANGED <<idle, gen, free, locked, task, disconnects>>
    BY <1>1 DEF vars
  <2>2. \A p \in Pool : Users(p)' = Users(p)
    BY <2>1 DEF Users, PoolOf
  <2>3. \A p \in Pool, g \in Gen : Holders(p, g)' = Holders(p, g)
    BY <2>1 DEF Holders, PoolOf
  <2>4. TypeOK'
    BY <2>1 DEF Inv, TypeOK
  <2>5. Conserved'
    BY <2>1, <2>3 DEF Inv, Conserved
  <2>6. Eras' /\ Locks'
    BY <2>1 DEF Inv, Eras, Locks, At, PoolOf
  <2>7. OpenBounded'
    BY <2>1, <2>2 DEF Inv, OpenBounded, At, PoolOf
  <2> QED
    BY <2>4, <2>5, <2>6, <2>7 DEF Inv
<1>2. ASSUME NEW t \in Task, Step(t) PROVE Inv'
  BY <1>2, QuietSteps, AcquireStep, PopStep, PushStep, ReleaseStep, ClearingStep,
     TakeIdleStep, DropSemStep DEF Step
<1>3. ASSUME NEW t \in Task, NEW p \in Pool, Ask(t, p) \/ Clear(t, p) PROVE Inv'
  BY <1>3, QuietSteps, ClearStep
<1>4. ASSUME NEW t \in Task, NEW k \in Key, Disconnect(t, k) PROVE Inv'
  BY <1>4, QuietSteps
<1>5. ASSUME NEW p \in Pool, Dies(p) PROVE Inv'
  BY <1>5, DiesStep
<1> QED
  BY <1>1, <1>2, <1>3, <1>4, <1>5 DEF Next

-----------------------------------------------------------------------------
(* No step of the pool leaves the types: above all, the free permits of a  *)
(* semaphore stay within 0 .. MAX_POOL_SIZE.                               *)
THEOREM Typing == Spec => []TypeOK
<1>1. Inv => TypeOK
  BY DEF Inv
<1> QED
  BY <1>1, InitInv, NextInv, PTL DEF Spec

(* Every permit of every semaphore, of one forgotten by a disconnect too,  *)
(* is free or with exactly one call: no error path of get_from_pool, of    *)
(* return_to_pool or of discard loses one or gives one back twice.         *)
THEOREM PermitsConserved == Spec => []Conserved
<1>1. Inv => Conserved
  BY DEF Inv
<1> QED
  BY <1>1, InitInv, NextInv, PTL DEF Spec

(* "At most MAX_POOL_SIZE concurrent sessions" of a pool (pool.rs:118), the *)
(* idle ones and those a clear is logging out counted in, until a          *)
(* disconnect forgets the pool's semaphore.                                *)
THEOREM SessionsBounded == Spec => []OpenBounded
<1>1. Inv => OpenBounded
  BY DEF Inv
<1> QED
  BY <1>1, InitInv, NextInv, PTL DEF Spec

-----------------------------------------------------------------------------
(* What the pools hold.                                                    *)

Clean(seq) == Len(seq) <= MaxPoolSize /\ \A i \in 1 .. Len(seq) : seq[i].soiled # "strict"
Contents == IdleBounded /\ FailedStaysOut

LEMMA ContentsMove ==
    ASSUME TypeOK, Contents, NEW t \in Task, NEW c \in Call,
           task' = [task EXCEPT ![t] = c],
           c.pc \in {"noop", "work", "return"} => c.sess.soiled # "strict",
           \A p \in Pool : idle'[p] = idle[p] \/ Clean(idle'[p])
    PROVE  Contents'
<1>1. \A p \in Pool : Clean(idle[p])
  BY DEF Contents, IdleBounded, FailedStaysOut, Clean
<1>2. \A p \in Pool : Clean(idle'[p])
  BY <1>1
<1>3. \A u \in Task : task'[u].pc \in {"noop", "work", "return"} =>
                            task'[u].sess.soiled # "strict"
  BY DEF Contents, FailedStaysOut, TypeOK
<1> QED
  BY <1>2, <1>3 DEF Contents, IdleBounded, FailedStaysOut, Clean

LEMMA ContentsKept == TypeOK /\ Contents /\ [Next]_vars => Contents'
<1> SUFFICES ASSUME TypeOK, Contents, [Next]_vars PROVE Contents'
  OBVIOUS
<1>1. CASE UNCHANGED vars
  BY <1>1 DEF vars, Contents, IdleBounded, FailedStaysOut
<1>2. ASSUME NEW q \in Pool, Dies(q) PROVE Contents'
  <2>1. PICK i \in 1 .. Len(idle[q]) : idle' = [idle EXCEPT ![q][i].alive = FALSE]
    BY <1>2 DEF Dies
  <2>2. idle \in [Pool -> Seq(Session)] /\ idle[q] \in Seq(Session)
        /\ \A j \in 1 .. Len(idle[q]) : idle[q][j] \in Session
    BY <2>1 DEF TypeOK
  <2>3. Clean(idle[q])
    BY DEF Contents, IdleBounded, FailedStaysOut, Clean
  <2>4. idle'[q] = [idle[q] EXCEPT ![i] = [@ EXCEPT !.alive = FALSE]]
    BY <2>1, <2>2
  <2>5. Len(idle'[q]) = Len(idle[q])
        /\ \A j \in 1 .. Len(idle[q]) : idle'[q][j].soiled = idle[q][j].soiled
    BY <2>2, <2>4 DEF Session
  <2>6. Clean(idle'[q])
    BY <2>3, <2>5 DEF Clean
  <2>7. \A p \in Pool : Clean(idle[p])
    BY DEF Contents, IdleBounded, FailedStaysOut, Clean
  <2>8. \A p \in Pool : Clean(idle'[p])
    BY <2>1, <2>2, <2>6, <2>7
  <2>9. task' = task
    BY <1>2 DEF Dies
  <2> QED
    BY <2>8, <2>9 DEF Contents, IdleBounded, FailedStaysOut, Clean
<1>3. ASSUME NEW t \in Task,
             Step(t) \/ (\E p \in Pool : Ask(t, p) \/ Clear(t, p))
                     \/ (\E k \in Key : Disconnect(t, k))
      PROVE  Contents'
  <2> DEFINE c == task'[t]
             Moved == c \in Call /\ task' = [task EXCEPT ![t] = c]
             Good == c.pc \in {"noop", "work", "return"} => c.sess.soiled # "strict"
             Onlyleaves == \A p \in Pool : idle'[p] = idle[p] \/ Clean(idle'[p])
  <2>1. /\ task \in [Task -> Call] /\ task[t] \in Call /\ task[t].sess \in Session
        /\ idle \in [Pool -> Seq(Session)] /\ Fresh \in Session /\ Fresh.soiled = "no"
        /\ task[t].pool \in Pool
    BY Pools, OutType DEF TypeOK, Call, Fresh
  <2>2. task[t].pc \in {"noop", "work", "return"} => task[t].sess.soiled # "strict"
    BY DEF Contents, FailedStaysOut
  <2>3. TypeOK' => c \in Call
    BY DEF TypeOK
  <2>e. Clean(<<>>)
    BY PoolAssumption DEF Clean
  <2>4. \A p \in Pool : Clean(idle[p])
    BY DEF Contents, IdleBounded, FailedStaysOut, Clean
  <2>5. CASE Pop(t)
    <3> DEFINE p == task[t].pool
               n == Len(idle[p])
    <3>1. n \in Nat /\ idle[p] \in Seq(Session)
      BY <2>1
    <3>2. CASE n = 0 /\ task' = [task EXCEPT ![t].pc = "connect"] /\ idle' = idle
      <4>1. Moved /\ Good
        BY <2>1, <3>2 DEF Call, PC
      <4> QED
        BY <4>1, <3>2, ContentsMove
    <3>3. CASE /\ n > 0 /\ idle' = [idle EXCEPT ![p] = SubSeq(@, 1, n - 1)]
               /\ \E pc \in {"work", "noop"} :
                     task' = [task EXCEPT ![t].pc = pc, ![t].sess = idle[p][n]]
      <4>0. Clean(idle[p]) /\ n \in 1 .. n
        BY <2>1, <2>4, <3>1, <3>3
      <4>1. idle[p][n] \in Session /\ idle[p][n].soiled # "strict"
        BY <4>0, <3>1 DEF Clean
      <4>p. PICK pc \in {"work", "noop"} :
               task' = [task EXCEPT ![t].pc = pc, ![t].sess = idle[p][n]]
        BY <3>3
      <4> HIDE DEF n
      <4>s. [task[t] EXCEPT !.pc = pc, !.sess = idle[p][n]] \in Call
        BY <4>1, <2>1 DEF Call, PC
      <4>2. Moved /\ Good
        BY <4>1, <4>p, <4>s, <2>1 DEF Call
      <4> USE DEF n
      <4>3. SubSeq(idle[p], 1, n - 1) \in Seq(Session)
            /\ Len(SubSeq(idle[p], 1, n - 1)) = n - 1
            /\ \A i \in 1 .. n - 1 : SubSeq(idle[p], 1, n - 1)[i] = idle[p][i]
        BY <3>1, <3>3
      <4>4. Clean(SubSeq(idle[p], 1, n - 1))
        BY <4>3, <2>1, <2>4, <3>1, <3>3, PoolAssumption DEF Clean
      <4>5. Onlyleaves
        BY <4>4, <2>1, <3>3
      <4> HIDE DEF c
      <4> QED
        BY <4>2, <4>5, ContentsMove
    <3> QED
      BY <2>5, <3>2, <3>3 DEF Pop, Goes, PoolOf
  <2>6. CASE Push(t)
    <3> DEFINE p == task[t].pool
               q == Append(idle[p], task[t].sess)
    <3>0. task[t].pc = "return" /\ idle[p] \in Seq(Session) /\ Len(idle[p]) \in Nat
      BY <2>1, <2>6 DEF Push, At
    <3>s. PICK pc \in {"release", "logout"} :
             task' = [task EXCEPT ![t].pc = pc, ![t].sess = Fresh]
      BY <2>6 DEF Push, Lets
    <3>1. Moved /\ Good
      BY <2>1, <3>s DEF Call, PC
    <3>2. CASE Len(idle[p]) < MaxPoolSize /\ idle' = [idle EXCEPT ![p] = q]
      <4>1. q \in Seq(Session) /\ Len(q) = Len(idle[p]) + 1
            /\ \A i \in 1 .. Len(q) : q[i] = IF i = Len(q) THEN task[t].sess ELSE idle[p][i]
        BY <2>1, <3>0
      <4>2. Clean(q)
        BY <4>1, <2>1, <2>2, <2>4, <3>0, <3>2, PoolAssumption DEF Clean
      <4> HIDE DEF q
      <4>3. Onlyleaves
        BY <4>2, <2>1, <3>2
      <4> HIDE DEF c
      <4> QED
        BY <3>1, <4>3, ContentsMove
    <3>3. CASE idle' = idle
      BY <3>1, <3>3, ContentsMove
    <3> QED
      BY <2>6, <3>2, <3>3 DEF Push, PoolOf
  <2>7. ASSUME NEW p \in Pool, Clear(t, p) PROVE Contents'
    <3>1. idle' = [idle EXCEPT ![p] = <<>>] /\ Len(idle[p]) \in Nat
      BY <2>7, <2>1 DEF Clear
    <3>2. Moved /\ Good
      BY <2>7, <2>1, <3>1, OutType DEF Clear, Out, Call, PC
    <3>3. Onlyleaves
      BY <2>1, <2>e, <3>1
    <3> HIDE DEF c
    <3> QED
      BY <3>2, <3>3, ContentsMove
  <2>8. CASE TakeIdle(t)
    <3> DEFINE p == task[t].pool
               d == [task[t] EXCEPT !.open = @ + Len(idle[p])]
    <3>1. idle' = [idle EXCEPT ![p] = <<>>] /\ Len(idle[p]) \in Nat
          /\ task' = [task EXCEPT ![t] = Onwards(t, d, "dropSem")]
          /\ task[t].pc = "takeIdle" /\ "dropSem" \in PC
      BY <2>8, <2>1 DEF TakeIdle, PoolOf, At, PC
    <3>2. task[t].open \in Nat /\ task[t].open + Len(idle[p]) \in Nat
      BY <3>1, <2>1 DEF Call
    <3>3. d \in Call /\ d.pc = "takeIdle"
      BY <3>1, <3>2, <2>1 DEF Call
    <3> HIDE DEF d
    <3>4. Moved /\ Good
      BY <3>1, <3>3, <2>1, OnwardsType
    <3>5. Onlyleaves
      BY <2>1, <2>e, <3>1
    <3> HIDE DEF c
    <3> QED
      BY <3>4, <3>5, ContentsMove
  <2>9. CASE DropSem(t)
    <3>1. task' = [task EXCEPT ![t] = Onwards(t, task[t], "logoutAll")]
          /\ task[t].pc = "dropSem" /\ "logoutAll" \in PC /\ idle' = idle
      BY <2>9 DEF DropSem, PoolOf, At, PC
    <3>2. Moved /\ Good
      BY <3>1, <2>1, OnwardsType
    <3> QED
      BY <3>1, <3>2, ContentsMove
  <2>10. CASE Noop(t) \/ Connect(t) \/ Works(t) \/ Skips(t)
    <3>1. CASE Noop(t)
      <4>1. Moved /\ Good /\ idle' = idle
        <5>1. /\ idle' = idle /\ task[t].sess.soiled # "strict"
              /\ \/ task' = [task EXCEPT ![t].pc = "work"]
                 \/ task' = [task EXCEPT ![t].pc = "connect", ![t].sess = Fresh]
          BY <3>1, <2>2 DEF Noop, Goes, At
        <5>2. /\ [task[t] EXCEPT !.pc = "connect", !.sess = Fresh] \in Call
              /\ [task[t] EXCEPT !.pc = "work"] \in Call
          BY <2>1 DEF Call, PC
        <5>3. CASE task' = [task EXCEPT ![t].pc = "work"]
          BY <5>1, <5>2, <5>3, <2>1 DEF Call
        <5>4. CASE task' = [task EXCEPT ![t].pc = "connect", ![t].sess = Fresh]
          BY <5>1, <5>2, <5>4, <2>1 DEF Call
        <5> QED
          BY <5>1, <5>3, <5>4
      <4> QED
        BY <4>1, ContentsMove
    <3>2. CASE Connect(t)
      <4>1. Moved /\ Good /\ idle' = idle
        <5>1. idle' = idle /\ \/ task' = [task EXCEPT ![t].pc = "work", ![t].sess = Fresh]
                              \/ task' = [task EXCEPT ![t].pc = "release"]
          BY <3>2 DEF Connect, Goes
        <5>2. /\ [task[t] EXCEPT !.pc = "work", !.sess = Fresh] \in Call
              /\ [task[t] EXCEPT !.pc = "release"] \in Call
          BY <2>1 DEF Call, PC
        <5>3. CASE task' = [task EXCEPT ![t].pc = "work", ![t].sess = Fresh]
          BY <5>1, <5>2, <5>3, <2>1 DEF Call
        <5>4. CASE task' = [task EXCEPT ![t].pc = "release"]
          BY <5>1, <5>2, <5>4, <2>1 DEF Call
        <5> QED
          BY <5>1, <5>3, <5>4
      <4> QED
        BY <4>1, ContentsMove
    <3>3. CASE Works(t)
      <4>1. Moved /\ Good /\ idle' = idle
        <5>1. /\ idle' = idle /\ task' = [task EXCEPT ![t].pc = "return"]
              /\ task[t].sess.soiled # "strict"
          BY <3>3, <2>2 DEF Works, Goes, At
        <5>2. [task[t] EXCEPT !.pc = "return"] \in Call
          BY <2>1 DEF Call, PC
        <5> QED
          BY <5>1, <5>2, <2>1 DEF Call
      <4> QED
        BY <4>1, ContentsMove
    <3>4. CASE Skips(t)
      <4>1. Moved /\ Good /\ idle' = idle
        BY <3>4, <2>1 DEF Skips, At, Call, PC, Session
      <4> QED
        BY <4>1, ContentsMove
    <3> QED
      BY <2>10, <3>1, <3>2, <3>3, <3>4
  <2>11. CASE Fails(t)
    <3>1. PICK live \in {task[t].sess.alive, FALSE}, m \in Manners \ {"lenient"} :
            task' = [task EXCEPT ![t].pc = "failed",
                                 ![t].sess = [alive |-> live, soiled |-> m]]
      BY <2>11 DEF Fails
    <3>2. [alive |-> live, soiled |-> m] \in Session
      BY <2>1, PoolAssumption DEF Session
    <3>3. Moved /\ Good /\ idle' = idle
      BY <2>11, <3>1, <3>2, <2>1 DEF Fails, Call, PC
    <3> QED
      BY <3>3, ContentsMove
  <2>12. CASE Dispose(t)
    <3>1. CASE task[t].sess.soiled = "keeping" /\ task' = [task EXCEPT ![t].pc = "return"]
      <4>1. Moved /\ Good /\ idle' = idle
        BY <2>12, <3>1, <2>1 DEF Dispose, Call, PC
      <4> QED
        BY <4>1, ContentsMove
    <3>2. CASE \E pc \in {"release", "logout"} :
                  task' = [task EXCEPT ![t].pc = pc, ![t].sess = Fresh]
      <4>1. PICK pc \in {"release", "logout"} :
              task' = [task EXCEPT ![t].pc = pc, ![t].sess = Fresh]
        BY <3>2
      <4>2. [task[t] EXCEPT !.pc = pc, !.sess = Fresh] \in Call
        BY <2>1 DEF Call, PC
      <4>3. c = [task[t] EXCEPT !.pc = pc, !.sess = Fresh]
        BY <4>1, <2>1
      <4>4. Moved
        BY <4>1, <4>2, <4>3
      <4>5. Good
        BY <4>3, <2>1 DEF Call
      <4>6. idle' = idle
        BY <2>12 DEF Dispose
      <4> QED
        BY <4>4, <4>5, <4>6, ContentsMove
    <3> QED
      BY <2>12, <3>1, <3>2 DEF Dispose, Goes, Lets
  <2>13. CASE Acquire(t) \/ Logout(t) \/ Release(t) \/ Clearing(t) \/ LogoutAll(t)
    <3>1. Out(Home) \in Call /\ Out(Home).pc = "out"
      BY Pools, OutType DEF Out
    <3>2. task[t].open > 0 => task[t].open - 1 \in Nat
      BY <2>1 DEF Call
    <3>3. CASE Acquire(t) \/ Logout(t)
      <4>1. Moved /\ Good /\ idle' = idle
        <5>1. idle' = idle /\ \E pc \in {"permit", "release"} :
                                 task' = [task EXCEPT ![t].pc = pc]
          BY <3>3 DEF Acquire, Logout, Goes
        <5>2. \A pc \in {"permit", "release"} : [task[t] EXCEPT !.pc = pc] \in Call
          BY <2>1 DEF Call, PC
        <5> QED
          BY <5>1, <5>2, <2>1 DEF Call
      <4> QED
        BY <4>1, ContentsMove
    <3>4. CASE Release(t)
      <4>1. Moved /\ Good /\ idle' = idle
        BY <3>4, <2>1, <3>1 DEF Release
      <4> QED
        BY <4>1, ContentsMove
    <3>5. CASE Clearing(t) \/ LogoutAll(t)
      <4>1. Moved /\ Good /\ idle' = idle
        BY <3>5, <2>1, <3>1, <3>2 DEF Clearing, LogoutAll, At, Call
      <4> QED
        BY <4>1, ContentsMove
    <3> QED
      BY <2>13, <3>3, <3>4, <3>5
  <2>14. ASSUME NEW p \in Pool, Ask(t, p) PROVE Contents'
    <3>1. gen[p] \in Gen
      BY DEF TypeOK
    <3>2. Moved /\ Good /\ idle' = idle
      BY <2>14, <2>1, <3>1, OutType DEF Ask, Out, Call, PC
    <3> QED
      BY <3>2, ContentsMove
  <2>15. ASSUME NEW k \in Key, Disconnect(t, k) PROVE Contents'
    <3>1. <<Kinds[1], k>> \in Pool
      BY Pools, PoolAssumption
    <3>2. disconnects[k] \in 0 .. MaxDisconnects /\ disconnects[k] < MaxDisconnects
      BY <2>15 DEF Disconnect, TypeOK
    <3>3. disconnects[k] + 2 \in Gen
      BY <3>2, PoolAssumption DEF Gen
    <3>4. Moved /\ Good /\ idle' = idle
      BY <2>15, <2>1, <3>1, <3>3, OutType DEF Disconnect, Out, Call, PC
    <3> QED
      BY <3>4, ContentsMove
  <2> QED
    BY <1>3, <2>5, <2>6, <2>7, <2>8, <2>9, <2>10, <2>11, <2>12, <2>13, <2>14, <2>15
       DEF Step
<1> QED
  BY <1>1, <1>2, <1>3 DEF Next

LEMMA InitContents == Init => Contents
<1> SUFFICES ASSUME Init PROVE Contents
  OBVIOUS
<1>1. \A p \in Pool : idle[p] = <<>>
  BY DEF Init
<1>2. \A t \in Task : task[t].pc = "out"
  BY DEF Init, Out
<1> QED
  BY <1>1, <1>2, PoolAssumption DEF Contents, IdleBounded, FailedStaysOut

(* No pool keeps more than MAX_POOL_SIZE idle sessions, whatever sessions  *)
(* of forgotten semaphores come back to it.                                *)
THEOREM IdleWithinLimit == Spec => []IdleBounded
<1>1. Contents => IdleBounded
  BY DEF Contents
<1> QED
  BY <1>1, Typing, InitContents, ContentsKept, PTL DEF Spec

(* Both bounds of a pool hold: what is kept idle, and what is open.        *)
THEOREM PoolWithinBounds == Spec => []PoolBounded
<1>1. IdleBounded /\ OpenBounded => PoolBounded
  BY DEF PoolBounded
<1> QED
  BY <1>1, IdleWithinLimit, SessionsBounded, PTL

(* A session whose last command failed under a caller that drops or        *)
(* discards it serves no other call and is in no pool.                     *)
THEOREM FailedIsGone == Spec => []FailedStaysOut
<1>1. Contents => FailedStaysOut
  BY DEF Contents
<1> QED
  BY <1>1, Typing, InitContents, ContentsKept, PTL DEF Spec
=============================================================================
