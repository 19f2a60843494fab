------------------------ MODULE ContentCascadeProofs ------------------------
(***************************************************************************)
(* Theorems about ContentCascade for every value of its constants.         *)
(***************************************************************************)
EXTENDS ContentCascade, FiniteSetTheorems, TLAPS

-----------------------------------------------------------------------------
(* The helpers of the actions.                                             *)

LEMMA MailFacts ==
    /\ IsFiniteSet(Uids)
    /\ \A b \in Boxes : Mail[b] \subseteq Uids
<1>1. \A b \in Boxes : Mail[b] \subseteq Uids
  BY CascadeAssumption
<1>2. Uids = Mail[Inbox] \cup Mail[Sent]
  BY DEF Uids, Boxes
<1>3. IsFiniteSet(Mail[Inbox]) /\ IsFiniteSet(Mail[Sent])
  BY CascadeAssumption DEF Boxes
<1> QED
  BY <1>1, <1>2, <1>3, FS_Union

(* A worker is in one state at a time.                                     *)
LEMMA States ==
    ASSUME NEW b \in Boxes, NEW c \in Boxes, NEW u \in Uids, NEW v \in Uids
    PROVE  /\ <<"waiting", b>> \in WorkerState /\ <<"loop", b>> \in WorkerState
           /\ <<"fetch", b, u>> \in WorkerState
           /\ <<"waiting", b>> # <<"loop", c>>
           /\ <<"waiting", b>> # <<"fetch", c, u>>
           /\ <<"loop", b>> # <<"fetch", c, u>>
           /\ <<"fetch", b, u>> = <<"fetch", c, v>> => b = c /\ u = v
<1>1. /\ <<"waiting", b>> \in WorkerState /\ <<"loop", b>> \in WorkerState
      /\ <<"fetch", b, u>> \in WorkerState
  BY DEF WorkerState
<1>2. /\ <<"waiting", b>>[1] = "waiting" /\ <<"loop", c>>[1] = "loop" /\ <<"loop", b>>[1] = "loop"
      /\ <<"fetch", c, u>>[1] = "fetch"
  OBVIOUS
<1>3. <<"waiting", b>> # <<"loop", c>>
  OBVIOUS
<1>4. <<"waiting", b>> # <<"fetch", c, u>> /\ <<"loop", b>> # <<"fetch", c, u>>
  BY <1>2
<1>5. <<"fetch", b, u>> = <<"fetch", c, v>> => b = c /\ u = v
  OBVIOUS
<1> QED
  BY <1>1, <1>3, <1>4, <1>5

LEMMA LaunchesType ==
    ASSUME NEW w \in [WorkerState -> Nat], NEW n \in Nat, NEW b \in Boxes
    PROVE  /\ Launches(w, n, b) \in [WorkerState -> Nat]
           /\ Launches(w, n, b)[<<"waiting", b>>] = w[<<"waiting", b>>] + n
           /\ \A s \in WorkerState \ {<<"waiting", b>>} : Launches(w, n, b)[s] = w[s]
           /\ n = 0 => Launches(w, n, b) = w
  BY DEF Launches, WorkerState

LEMMA MovesType ==
    ASSUME NEW w \in [WorkerState -> Nat], NEW from \in WorkerState, NEW to \in WorkerState,
           from # to, w[from] > 0
    PROVE  /\ Moves(w, from, to) \in [WorkerState -> Nat]
           /\ Moves(w, from, to)[from] = w[from] - 1
           /\ Moves(w, from, to)[to] = w[to] + 1
           /\ \A s \in WorkerState \ {from, to} : Moves(w, from, to)[s] = w[s]
  BY DEF Moves

LEMMA NoWorkersType == NoWorkers \in [WorkerState -> Nat]
  BY DEF NoWorkers

LEMMA RelaunchedType ==
    ASSUME NEW p \in Pipeline
    PROVE  /\ Relaunched(p) \in Nat
           /\ p.queue = {} => Relaunched(p) = 0
           /\ p.paused /\ p.phase = "content" /\ p.conc > p.slots /\ p.queue # {}
                => Relaunched(p) > 0
           /\ Relaunched(p) > 0 => Relaunched(p) <= p.conc - p.slots
<1>1. p.conc \in Nat /\ p.slots \in Int /\ p.queue \subseteq Uids
  BY CascadeAssumption DEF Pipeline
<1>2. IsFiniteSet(p.queue)
  BY <1>1, MailFacts, FS_Subset
<1>3. Cardinality(p.queue) \in Nat /\ (p.queue = {} <=> Cardinality(p.queue) = 0)
  BY <1>2, FS_CardinalityType, FS_EmptySet
<1> QED
  BY <1>1, <1>3 DEF Relaunched, Least

LEMMA NewPipeType ==
    ASSUME NEW conc \in 1 .. MaxSlots, NEW for \in {"active", "background"},
           NEW phase \in {"idle", "headers"}
    PROVE  NewPipe(conc, for, phase) \in Pipeline
<1>1. Inbox \in Boxes
  BY DEF Boxes
<1> QED
  BY <1>1 DEF NewPipe, Pipeline

LEMMA ResumedType ==
    ASSUME NEW p \in Pipeline, NEW conc \in 1 .. MaxSlots
    PROVE  /\ [p EXCEPT !.conc = conc] \in Pipeline
           /\ Resumed(p) \in Pipeline
           /\ Resumed([p EXCEPT !.conc = conc]) \in Pipeline
  BY DEF Resumed, Pipeline

LEMMA StartedType ==
    ASSUME NEW p \in Pipeline, NEW uids \in SUBSET Uids, NEW b \in Boxes,
           NEW over \in BOOLEAN
    PROVE  ContentStarted(p, uids, b, over) \in Pipeline
<1>1. (p.over \/ over) \in BOOLEAN
  BY DEF Pipeline
<1>2. (IF p.timer = None THEN None ELSE Stale) \in Boxes \cup {None, Stale}
  OBVIOUS
<1>3. ASSUME NEW o \in BOOLEAN, NEW t \in Boxes \cup {None, Stale}, NEW n \in Int
      PROVE  [p EXCEPT !.over = o, !.phase = "content", !.queue = uids, !.retry = {},
                       !.slots = n, !.timer = t, !.asked = uids, !.box = b,
                       !.amiss = {}] \in Pipeline
  BY DEF Pipeline
<1>4. 0 \in Int
  OBVIOUS
<1> QED
  BY <1>1, <1>2, <1>3, <1>4 DEF ContentStarted

CascadeState == [st: {"off", "saved", "waits", "woken"}, acct: Accounts \cup {None},
                 todo: SUBSET Accounts, emails: SUBSET Uids, dead: BOOLEAN]

(* Where the cascade's loop comes to rest.                                 *)
LEMMA WalksTo ==
    ASSUME NEW ps \in [Accounts -> Pipeline \cup {None}], NEW todo \in SUBSET Accounts,
           NEW marked \in SUBSET Accounts, CascadeWalks(ps, todo, marked)
    PROVE  /\ cascade' \in CascadeState
           /\ done' \subseteq Accounts /\ done' \subseteq marked \cup todo
           /\ \/ cascade' = NoCascade
              \/ /\ cascade'.st = "saved" /\ cascade'.acct \in todo \ marked
                 /\ ps[cascade'.acct] # None /\ ~cascade'.dead
                 /\ cascade'.todo \subseteq todo \ {cascade'.acct}
<1> DEFINE here == {a \in todo : a \notin marked /\ ps[a] # None}
           eligible == {a \in here : ps[a].loaded # {}}
<1>1. CASE eligible = {}
  <2>1. cascade' = NoCascade /\ done' = marked \cup here
    BY <1>1 DEF CascadeWalks
  <2>2. NoCascade \in CascadeState
    BY DEF NoCascade, CascadeState
  <2> QED
    BY <2>1, <2>2
<1>2. CASE eligible # {}
  <2>1. PICK a \in eligible, passed \in SUBSET (todo \ eligible) :
           /\ done' = marked \cup (passed \cap here)
           /\ cascade' = [st |-> "saved", acct |-> a, dead |-> FALSE,
                          todo |-> todo \ (passed \cup {a}),
                          emails |-> {m[2] : m \in ps[a].loaded}]
    BY <1>2 DEF CascadeWalks
  <2>2. {m[2] : m \in ps[a].loaded} \subseteq Uids
    BY <2>1 DEF Pipeline
  <2> QED
    BY <2>1, <2>2 DEF CascadeState
<1> QED
  BY <1>1, <1>2

-----------------------------------------------------------------------------
(* Types.  Workers, header loads and a cascade under way belong to an      *)
(* account that has a pipeline: it is replaced, but never taken away.      *)

LiveInv ==
    /\ \A a \in Accounts :
          /\ Working(a) => Live(a)
          /\ sent[a] # "none" \/ job[a] \in {"inbox", "sent"} => Live(a)
    /\ cascade.st # "off" => cascade.acct \in Accounts /\ Live(cascade.acct)

TypeInv == TypeOK /\ LiveInv

(* What LiveInv asks of a step that leaves every pipeline in its place.    *)
LEMMA StaysLive ==
    ASSUME LiveInv, \A a \in Accounts : Live(a) => Live(a)',
           \A a \in Accounts : Working(a)' => Working(a) \/ Live(a)',
           \A a \in Accounts : sent'[a] # "none" => sent[a] # "none" \/ Live(a)',
           \A a \in Accounts : job'[a] \in {"inbox", "sent"} =>
                                  job[a] \in {"inbox", "sent"} \/ Live(a)',
           \/ cascade'.st = "off"
           \/ cascade'.acct \in Accounts /\ pipe'[cascade'.acct] # None
           \/ cascade.st # "off" /\ cascade'.acct = cascade.acct
    PROVE  LiveInv'
<1>1. ASSUME NEW a \in Accounts
      PROVE  /\ Working(a)' => Live(a)'
             /\ sent'[a] # "none" \/ job'[a] \in {"inbox", "sent"} => Live(a)'
  BY <1>1 DEF LiveInv
<1>2. cascade'.st # "off" => cascade'.acct \in Accounts /\ pipe'[cascade'.acct] # None
  <2>1. cascade.st # "off" /\ cascade'.acct = cascade.acct =>
           cascade'.acct \in Accounts /\ pipe'[cascade'.acct] # None
    BY DEF LiveInv, Live
  <2> QED
    BY <2>1
<1> QED
  BY <1>1, <1>2 DEF LiveInv, Live

(* One pipeline changes, and its workers may.                              *)
LEMMA OneChanges ==
    ASSUME TypeInv, NEW a \in Accounts, NEW p \in Pipeline,
           NEW w \in [WorkerState -> Nat],
           pipe' = [pipe EXCEPT ![a] = p], workers' = [workers EXCEPT ![a] = w]
    PROVE  /\ pipe' \in [Accounts -> Pipeline \cup {None}]
           /\ workers' \in [Accounts -> [WorkerState -> Nat]]
           /\ pipe'[a] = p /\ workers'[a] = w
           /\ \A x \in Accounts \ {a} : pipe'[x] = pipe[x] /\ workers'[x] = workers[x]
           /\ \A x \in Accounts : Live(x) => Live(x)'
           /\ \A x \in Accounts : Working(x)' => Working(x) \/ Live(x)'
<1>1. pipe \in [Accounts -> Pipeline \cup {None}] /\ workers \in [Accounts -> [WorkerState -> Nat]]
  BY DEF TypeInv, TypeOK
<1>2. p # None
  BY NoneAssumption
<1> QED
  BY <1>1, <1>2 DEF Live, Working

LEMMA LivePipe ==
    ASSUME TypeInv, NEW a \in Accounts
    PROVE  /\ Live(a) => pipe[a] \in Pipeline
           /\ Working(a) \/ sent[a] # "none" \/ job[a] \in {"inbox", "sent"} =>
                Live(a) /\ pipe[a] \in Pipeline
           /\ workers[a] \in [WorkerState -> Nat]
  BY DEF TypeInv, TypeOK, LiveInv, Live

LEMMA InitType == Init => TypeInv
<1> SUFFICES ASSUME Init PROVE TypeInv
  OBVIOUS
<1>1. TypeOK
  <2>1. stored \subseteq Accounts \X Boxes \X Uids
    BY CascadeAssumption DEF Init
  <2>2. NoCascade \in CascadeState
    BY DEF NoCascade, CascadeState
  <2>3. used \in [{"switches", "views", "outages", "fails"} -> Nat]
    BY DEF Init
  <2> QED
    BY <2>1, <2>2, <2>3, CascadeAssumption, NoWorkersType
       DEF Init, TypeOK, Boxes, CascadeState
<1>2. LiveInv
  BY DEF Init, LiveInv, Working, NoWorkers, NoCascade
<1> QED
  BY <1>1, <1>2 DEF TypeInv

LEMMA UsedType ==
    ASSUME TypeOK, NEW how \in {"switches", "views", "outages", "fails"}
    PROVE  [used EXCEPT ![how] = @ + 1] \in [{"switches", "views", "outages", "fails"} -> Nat]
  BY DEF TypeOK

(* The user and the network.                                               *)
LEMMA UserType == TypeInv /\ User => TypeInv'
<1> SUFFICES ASSUME TypeInv, User PROVE TypeInv'
  OBVIOUS
<1>t. TypeOK /\ LiveInv /\ pipe \in [Accounts -> Pipeline \cup {None}]
      /\ workers \in [Accounts -> [WorkerState -> Nat]]
  BY DEF TypeInv, TypeOK
<1>n. None \notin Pipeline /\ MaxSlots \in 1 .. MaxSlots
  BY NoneAssumption, CascadeAssumption
<1>p. \A q \in Pipeline : [q EXCEPT !.paused = TRUE] \in Pipeline
  BY DEF Pipeline
<1>1. ASSUME NEW a \in Accounts, Switch(a) PROVE TypeInv'
  <2>1. /\ pipe' = [x \in Accounts |->
                  IF pipe[x] = None THEN None
                  ELSE IF x # a THEN [pipe[x] EXCEPT !.paused = TRUE]
                  ELSE Resumed([pipe[x] EXCEPT !.conc = MaxSlots])]
        /\ workers' = IF pipe[a] = None THEN workers
                  ELSE [workers EXCEPT ![a] = Launches(@,
                          Relaunched([pipe[a] EXCEPT !.conc = MaxSlots]), Inbox)]
        /\ UNCHANGED <<online, stored, headers, cascade, done>>
        /\ active' = a /\ view' = Inbox /\ started' = FALSE
    BY <1>1 DEF Switch
  <2>2. ASSUME NEW x \in Accounts, pipe[x] # None
        PROVE  pipe'[x] \in Pipeline
    <3>1. pipe[x] \in Pipeline
      BY <1>t, <2>2
    <3> QED
      BY <1>n, <1>p, <2>1, <2>2, <3>1, ResumedType
  <2>3. /\ pipe' \in [Accounts -> Pipeline \cup {None}]
        /\ \A x \in Accounts : pipe'[x] # None <=> pipe[x] # None
    BY <1>n, <2>1, <2>2
  <2>4. /\ workers' \in [Accounts -> [WorkerState -> Nat]]
        /\ \A x \in Accounts : x # a \/ pipe[a] = None => workers'[x] = workers[x]
    <3>1. CASE pipe[a] = None
      BY <1>t, <2>1, <3>1
    <3>2. CASE pipe[a] # None
      <4>1. Relaunched([pipe[a] EXCEPT !.conc = MaxSlots]) \in Nat
        BY <1>t, <1>n, <3>2, ResumedType, RelaunchedType
      <4>2. Launches(workers[a], Relaunched([pipe[a] EXCEPT !.conc = MaxSlots]), Inbox)
              \in [WorkerState -> Nat]
        BY <1>t, <4>1, LaunchesType DEF Boxes
      <4> QED
        BY <1>t, <2>1, <3>2, <4>2
    <3> QED
      BY <3>1, <3>2
  <2>5. used' \in [{"switches", "views", "outages", "fails"} -> Nat]
    BY <1>1, <1>t, UsedType DEF Switch, Interrupts
  <2>6. TypeOK'
    BY <1>t, <2>1, <2>3, <2>4, <2>5 DEF TypeOK, headers, Boxes
  <2>7. LiveInv'
    BY <1>t, <2>1, <2>3, <2>4, StaysLive DEF Live, Working, headers
  <2> QED
    BY <2>6, <2>7 DEF TypeInv
<1>2. ASSUME NEW b \in Boxes, View(b) PROVE TypeInv'
  <2>1. /\ view' = b /\ started' \in BOOLEAN
        /\ UNCHANGED <<active, online, stored, pipe, workers, headers, cascade, done>>
        /\ used' = [used EXCEPT !["views"] = @ + 1]
    BY <1>2, <1>t DEF View, TypeOK, Interrupts
  <2>2. used' \in [{"switches", "views", "outages", "fails"} -> Nat]
    BY <1>t, <2>1, UsedType
  <2>3. TypeOK'
    BY <1>t, <2>1, <2>2 DEF TypeOK, headers
  <2>4. LiveInv'
    BY <1>t, <2>1, StaysLive DEF Live, Working, headers
  <2> QED
    BY <2>3, <2>4 DEF TypeInv
<1>3. CASE Offline
  <2>1. /\ pipe' = [a \in Accounts |->
                  IF pipe[a] = None THEN None ELSE [pipe[a] EXCEPT !.paused = TRUE]]
        /\ online' = FALSE
        /\ UNCHANGED <<active, view, started, stored, workers, headers, cascade, done>>
        /\ used' = [used EXCEPT !["outages"] = @ + 1]
    BY <1>3 DEF Offline, Interrupts
  <2>2. /\ pipe' \in [Accounts -> Pipeline \cup {None}]
        /\ \A x \in Accounts : pipe'[x] # None <=> pipe[x] # None
    BY <1>t, <1>n, <1>p, <2>1
  <2>3. used' \in [{"switches", "views", "outages", "fails"} -> Nat]
    BY <1>t, <2>1, UsedType
  <2>4. TypeOK'
    BY <1>t, <2>1, <2>2, <2>3 DEF TypeOK, headers
  <2>5. LiveInv'
    BY <1>t, <2>1, <2>2, StaysLive DEF Live, Working, headers
  <2> QED
    BY <2>4, <2>5 DEF TypeInv
<1>4. CASE Online
  <2>1. /\ pipe' = [a \in Accounts |-> IF pipe[a] = None THEN None ELSE Resumed(pipe[a])]
        /\ workers' = [a \in Accounts |->
                     IF pipe[a] = None THEN workers[a]
                     ELSE Launches(workers[a], Relaunched(pipe[a]), Inbox)]
        /\ online' = TRUE
        /\ UNCHANGED <<active, view, started, stored, headers, cascade, done, used>>
    BY <1>4 DEF Online
  <2>2. \A q \in Pipeline : Resumed(q) \in Pipeline
    BY <1>n, ResumedType
  <2>3. /\ pipe' \in [Accounts -> Pipeline \cup {None}]
        /\ \A x \in Accounts : pipe'[x] # None <=> pipe[x] # None
    BY <1>t, <1>n, <2>1, <2>2
  <2>4. ASSUME NEW x \in Accounts PROVE workers'[x] \in [WorkerState -> Nat]
    BY <1>t, <2>1, RelaunchedType, LaunchesType DEF Boxes
  <2>5. workers' \in [Accounts -> [WorkerState -> Nat]]
        /\ \A x \in Accounts : pipe[x] = None => workers'[x] = workers[x]
    BY <2>1, <2>4
  <2>6. TypeOK'
    BY <1>t, <2>1, <2>3, <2>5 DEF TypeOK, headers
  <2>7. LiveInv'
    BY <1>t, <2>1, <2>3, <2>5, StaysLive DEF Live, Working, headers
  <2> QED
    BY <2>6, <2>7 DEF TypeInv
<1> QED
  BY <1>1, <1>2, <1>3, <1>4 DEF User

(* A step of one pipeline that touches neither screen nor headers.         *)
LEMMA OneSteps ==
    ASSUME TypeInv, NEW a \in Accounts, NEW p \in Pipeline,
           NEW w \in [WorkerState -> Nat],
           pipe' = [pipe EXCEPT ![a] = p], workers' = [workers EXCEPT ![a] = w],
           UNCHANGED <<screen, headers>>,
           stored' \subseteq Accounts \X Boxes \X Uids,
           used' \in [{"switches", "views", "outages", "fails"} -> Nat],
           done' \subseteq Accounts, cascade' \in CascadeState,
           \/ cascade'.st = "off"
           \/ cascade'.acct \in Accounts /\ pipe'[cascade'.acct] # None
           \/ cascade.st # "off" /\ cascade'.acct = cascade.acct
    PROVE  TypeInv'
<1>1. /\ pipe' \in [Accounts -> Pipeline \cup {None}]
      /\ workers' \in [Accounts -> [WorkerState -> Nat]]
      /\ \A x \in Accounts : Live(x) => Live(x)'
      /\ \A x \in Accounts : Working(x)' => Working(x) \/ Live(x)'
  BY OneChanges
<1>2. TypeOK'
  BY <1>1 DEF TypeInv, TypeOK, screen, headers, CascadeState
<1>3. LiveInv'
  BY <1>1, StaysLive DEF TypeInv, headers
<1> QED
  BY <1>2, <1>3 DEF TypeInv

LEMMA Waker ==
    ASSUME TypeOK, NEW a
    PROVE  /\ Wakes(cascade, a) \in CascadeState
           /\ Wakes(cascade, a).acct = cascade.acct
           /\ Wakes(cascade, a).st = "off" <=> cascade.st = "off"
  BY DEF Wakes, TypeOK, CascadeState

(* The worker loops and their timer.                                       *)
LEMMA SlotsType ==
    ASSUME TypeInv, NEW a \in Accounts, Slots(a) \/ RetryFires(a)
    PROVE  TypeInv'
<1>t. /\ TypeOK /\ stored \subseteq Accounts \X Boxes \X Uids
      /\ used \in [{"switches", "views", "outages", "fails"} -> Nat]
      /\ done \subseteq Accounts /\ cascade \in CascadeState
      /\ pipe \in [Accounts -> Pipeline \cup {None}]
      /\ workers \in [Accounts -> [WorkerState -> Nat]]
  BY DEF TypeInv, TypeOK, CascadeState
<1>l. /\ \A s \in WorkerState : workers[a][s] > 0 => pipe[a] \in Pipeline
      /\ Live(a) => pipe[a] \in Pipeline
  BY LivePipe DEF Working
<1>1. ASSUME NEW b \in Boxes, SlotStarts(a, b) PROVE TypeInv'
  <2> DEFINE p == [pipe[a] EXCEPT !.slots = @ + 1]
             w == Moves(workers[a], <<"waiting", b>>, <<"loop", b>>)
  <2>1. pipe[a] \in Pipeline /\ workers[a][<<"waiting", b>>] > 0
    BY <1>1, <1>l DEF SlotStarts, WorkerState
  <2>2. p \in Pipeline
    BY <2>1 DEF Pipeline
  <2>3. w \in [WorkerState -> Nat]
    <3>1. /\ <<"waiting", b>> \in WorkerState /\ <<"loop", b>> \in WorkerState
          /\ <<"waiting", b>> # <<"loop", b>>
      BY DEF WorkerState
    <3> QED
      BY <1>t, <2>1, <3>1, MovesType
  <2>4. /\ pipe' = [pipe EXCEPT ![a] = p] /\ workers' = [workers EXCEPT ![a] = w]
        /\ UNCHANGED <<screen, stored, headers, cascade, done, used>>
    BY <1>1 DEF SlotStarts
  <2> HIDE DEF p, w
  <2> QED
    BY <1>t, <2>2, <2>3, <2>4, OneSteps
<1>2. ASSUME NEW b \in Boxes, NEW u \in Uids, TakesNext(a, b, u) PROVE TypeInv'
  <2> DEFINE m == IF AsAsked(a, b, u) THEN pipe[a].amiss \ {u} ELSE pipe[a].amiss \cup {u}
             p == [pipe[a] EXCEPT !.queue = @ \ {u}, !.amiss = m]
             w == Moves(workers[a], <<"loop", b>>, <<"fetch", b, u>>)
  <2>0. <<"loop", b>> \in WorkerState /\ <<"fetch", b, u>> \in WorkerState
        /\ <<"loop", b>> # <<"fetch", b, u>>
    BY States
  <2>1. pipe[a] \in Pipeline /\ workers[a][<<"loop", b>>] > 0
    BY <1>2, <1>l, <2>0 DEF TakesNext
  <2>2. p \in Pipeline
    <3>1. m \subseteq Uids
      BY <2>1 DEF Pipeline
    <3> HIDE DEF m
    <3> QED
      BY <2>1, <3>1 DEF Pipeline
  <2>3. w \in [WorkerState -> Nat]
    BY <1>t, <2>0, <2>1, MovesType
  <2>4. /\ pipe' = [pipe EXCEPT ![a] = p] /\ workers' = [workers EXCEPT ![a] = w]
        /\ UNCHANGED <<screen, stored, headers, cascade, done, used>>
    BY <1>2 DEF TakesNext
  <2> HIDE DEF p, w
  <2> QED
    BY <1>t, <2>2, <2>3, <2>4, OneSteps
<1>7. ASSUME NEW b \in Boxes, NEW u \in Uids, Skips(a, b, u) PROVE TypeInv'
  <2> DEFINE p == [pipe[a] EXCEPT !.queue = @ \ {u}, !.amiss = @ \cup {u}]
  <2>1. pipe[a] \in Pipeline
    BY <1>7, <1>l, States DEF Skips
  <2>2. p \in Pipeline
    BY <2>1 DEF Pipeline
  <2>3. /\ pipe' = [pipe EXCEPT ![a] = p] /\ workers' = [workers EXCEPT ![a] = workers[a]]
        /\ UNCHANGED <<screen, stored, headers, cascade, done, used>>
    BY <1>7, <1>t DEF Skips
  <2> HIDE DEF p
  <2> QED
    BY <1>t, <2>2, <2>3, OneSteps
<1>3. ASSUME NEW b \in Boxes, NEW u \in Uids, Fetched(a, b, u) PROVE TypeInv'
  <2>k. PICK kept \in BOOLEAN :
          /\ workers[a][<<"fetch", b, u>>] > 0
          /\ IF kept THEN stored' = stored \cup {<<a, b, u>>} /\ UNCHANGED used
             ELSE a \notin Graph /\ Fails /\ UNCHANGED stored
          /\ workers' = [workers EXCEPT ![a] = Moves(@, <<"fetch", b, u>>, <<"loop", b>>)]
          /\ pipe' = [pipe EXCEPT
                        ![a].amiss = IF kept /\ b = pipe[a].box THEN @ ELSE @ \cup {u}]
          /\ UNCHANGED <<screen, headers, cascade, done>>
    BY <1>3 DEF Fetched
  <2> DEFINE m == IF kept /\ b = pipe[a].box THEN pipe[a].amiss ELSE pipe[a].amiss \cup {u}
             p == [pipe[a] EXCEPT !.amiss = m]
             w == Moves(workers[a], <<"fetch", b, u>>, <<"loop", b>>)
  <2>0. <<"loop", b>> \in WorkerState /\ <<"fetch", b, u>> \in WorkerState
        /\ <<"loop", b>> # <<"fetch", b, u>>
    BY States
  <2>1. pipe[a] \in Pipeline /\ workers[a][<<"fetch", b, u>>] > 0
    BY <1>l, <2>k, <2>0
  <2>2. p \in Pipeline
    <3>1. m \subseteq Uids
      BY <2>1 DEF Pipeline
    <3> HIDE DEF m
    <3> QED
      BY <2>1, <3>1 DEF Pipeline
  <2>3. w \in [WorkerState -> Nat]
    BY <1>t, <2>0, <2>1, MovesType
  <2>4. /\ pipe' = [pipe EXCEPT ![a] = p] /\ workers' = [workers EXCEPT ![a] = w]
        /\ UNCHANGED <<screen, headers, cascade, done>>
        /\ stored' \in {stored, stored \cup {<<a, b, u>>}}
        /\ used' = used \/ used' = [used EXCEPT !["fails"] = @ + 1]
    BY <2>k DEF Fails
  <2>5. /\ stored' \subseteq Accounts \X Boxes \X Uids
        /\ used' \in [{"switches", "views", "outages", "fails"} -> Nat]
    BY <1>t, <2>4, UsedType
  <2> HIDE DEF p, w
  <2> QED
    BY <1>t, <2>2, <2>3, <2>4, <2>5, OneSteps
<1>4. ASSUME NEW b \in Boxes, NEW u \in Uids, FetchFails(a, b, u) PROVE TypeInv'
  <2> DEFINE p == [pipe[a] EXCEPT !.retry = @ \cup {u}, !.amiss = @ \ {u}]
             w == Moves(workers[a], <<"fetch", b, u>>, <<"loop", b>>)
  <2>0. <<"loop", b>> \in WorkerState /\ <<"fetch", b, u>> \in WorkerState
        /\ <<"loop", b>> # <<"fetch", b, u>>
    BY States
  <2>1. pipe[a] \in Pipeline /\ workers[a][<<"fetch", b, u>>] > 0
    BY <1>4, <1>l, <2>0 DEF FetchFails
  <2>2. p \in Pipeline
    BY <2>1 DEF Pipeline
  <2>3. w \in [WorkerState -> Nat]
    BY <1>t, <2>0, <2>1, MovesType
  <2>4. /\ pipe' = [pipe EXCEPT ![a] = p] /\ workers' = [workers EXCEPT ![a] = w]
        /\ UNCHANGED <<screen, stored, headers, cascade, done>>
        /\ used' = used \/ used' = [used EXCEPT !["fails"] = @ + 1]
    BY <1>4 DEF FetchFails, Fails
  <2>5. used' \in [{"switches", "views", "outages", "fails"} -> Nat]
    BY <1>t, <2>4, UsedType
  <2> HIDE DEF p, w
  <2> QED
    BY <1>t, <2>2, <2>3, <2>4, <2>5, OneSteps
<1>5. ASSUME NEW b \in Boxes, SlotEnds(a, b) PROVE TypeInv'
  <2> DEFINE w == [workers[a] EXCEPT ![<<"loop", b>>] = @ - 1]
             p == [pipe[a] EXCEPT !.slots = @ - 1]
  <2>0. <<"loop", b>> \in WorkerState
    BY DEF WorkerState
  <2>1. pipe[a] \in Pipeline /\ workers[a][<<"loop", b>>] > 0
    BY <1>5, <1>l, <2>0 DEF SlotEnds
  <2>2. p \in Pipeline
    BY <2>1 DEF Pipeline
  <2>3. w \in [WorkerState -> Nat]
    BY <1>t, <2>0, <2>1
  <2>4. PICK q : /\ q \in {p, [p EXCEPT !.timer = b],
                          [p EXCEPT !.phase = "done", !.loaded = {},
                              !.finishing = @ \/ a = active,
                              !.hooked = @ /\ a = active]}
                 /\ pipe' = [pipe EXCEPT ![a] = q]
    BY <1>5 DEF SlotEnds
  <2>5. q \in Pipeline
    <3>1. [p EXCEPT !.timer = b] \in Pipeline
      BY <2>2 DEF Pipeline
    <3>2. \A x, y \in BOOLEAN, r \in Pipeline :
             [r EXCEPT !.phase = "done", !.loaded = {}, !.finishing = x, !.hooked = y]
               \in Pipeline
      <4>1. ASSUME NEW x \in BOOLEAN, NEW y \in BOOLEAN, NEW r \in Pipeline,
                   NEW l \in SUBSET (Boxes \X Uids)
            PROVE  [r EXCEPT !.phase = "done", !.loaded = l, !.finishing = x, !.hooked = y]
                     \in Pipeline
        BY DEF Pipeline
      <4>2. {} \in SUBSET (Boxes \X Uids)
        OBVIOUS
      <4> QED
        BY <4>1, <4>2
    <3> HIDE DEF p
    <3> DEFINE x == p.finishing \/ a = active
               y == p.hooked /\ a = active
    <3>3. x \in BOOLEAN /\ y \in BOOLEAN
      OBVIOUS
    <3>4. q \in {p, [p EXCEPT !.timer = b],
                 [p EXCEPT !.phase = "done", !.loaded = {}, !.finishing = x, !.hooked = y]}
      BY <2>4, Zenon
    <3> HIDE DEF x, y
    <3>5. [p EXCEPT !.phase = "done", !.loaded = {}, !.finishing = x, !.hooked = y]
            \in Pipeline
      BY <2>2, <3>2, <3>3, Zenon
    <3> QED
      BY <2>2, <3>1, <3>4, <3>5, Zenon
  <2>6. /\ workers' = [workers EXCEPT ![a] = w]
        /\ UNCHANGED <<screen, stored, headers, done, used>>
        /\ cascade' \in {cascade, Wakes(cascade, a)}
    <3>0. workers' = [workers EXCEPT ![a] = w]
      BY <1>5, Zenon DEF SlotEnds
    <3>1. UNCHANGED <<screen, stored, headers, done, used>>
      BY <1>5, Zenon DEF SlotEnds
    <3>2. cascade' = Wakes(cascade, a) \/ cascade' = cascade
      BY <1>5, Zenon DEF SlotEnds
    <3> QED
      BY <3>0, <3>1, <3>2, Zenon
  <2>7. /\ cascade' \in CascadeState /\ cascade'.acct = cascade.acct
        /\ cascade'.st = "off" <=> cascade.st = "off"
    BY <1>t, <2>6, Waker
  <2> HIDE DEF p, w
  <2> QED
    BY <1>t, <2>3, <2>4, <2>5, <2>6, <2>7, OneSteps
<1>6. CASE RetryFires(a)
  <2> DEFINE p == [pipe[a] EXCEPT !.timer = None]
  <2>1. /\ Live(a) /\ pipe[a].timer \in Boxes /\ pipe[a] \in Pipeline
        /\ UNCHANGED <<screen, stored, headers, cascade, done, used>>
    BY <1>6, <1>l DEF RetryFires
  <2>2. p \in Pipeline
    BY <2>1 DEF Pipeline
  <2>3. [p EXCEPT !.queue = @ \cup p.retry, !.retry = {}] \in Pipeline
    <3>1. \A q \in Pipeline : [q EXCEPT !.queue = @ \cup q.retry, !.retry = {}] \in Pipeline
      BY DEF Pipeline
    <3> HIDE DEF p
    <3> QED
      BY <2>2, <3>1
  <2>4. Launches(workers[a], p.conc, pipe[a].timer) \in [WorkerState -> Nat]
    <3>1. p.conc \in Nat
      BY <2>2, CascadeAssumption DEF Pipeline
    <3> HIDE DEF p
    <3> QED
      BY <1>t, <2>1, <3>1, LaunchesType
  <2>5. \/ /\ pipe' = [pipe EXCEPT ![a] = p]
           /\ workers' = [workers EXCEPT ![a] = workers[a]]
        \/ /\ pipe' = [pipe EXCEPT ![a] =
                         [p EXCEPT !.queue = @ \cup p.retry, !.retry = {}]]
           /\ workers' = [workers EXCEPT ![a] = Launches(@, p.conc, pipe[a].timer)]
    BY <1>t, <1>6 DEF RetryFires
  <2> HIDE DEF p
  <2> QED
    BY <1>t, <2>1, <2>2, <2>3, <2>4, <2>5, OneSteps
<1> QED
  BY <1>1, <1>2, <1>3, <1>4, <1>5, <1>6, <1>7 DEF Slots

LEMMA LoadsType ==
    ASSUME NEW p \in Pipeline, NEW b \in Boxes, NEW new \in Loads(p, b)
    PROVE  /\ new \subseteq Boxes \X Uids
           /\ \A phase \in {"idle", "headers"} :
                 [p EXCEPT !.phase = phase, !.loaded = new] \in Pipeline
<1>1. new \subseteq Boxes \X Uids
  BY MailFacts DEF Loads, Pipeline
<1> QED
  BY <1>1 DEF Pipeline

(* A header load of one account goes on.                                   *)
LEMMA LoadSteps ==
    ASSUME TypeInv, NEW a \in Accounts, Live(a), NEW p \in Pipeline,
           pipe' = [pipe EXCEPT ![a] = p],
           UNCHANGED <<screen, stored, workers, cascade, done, used>>,
           \E next \in {"none", "path", "load"} : sent' = [sent EXCEPT ![a] = next],
           \E next \in {"none", "inbox", "sent", "dead"} : job' = [job EXCEPT ![a] = next],
           headersRunning' \in BOOLEAN
    PROVE  TypeInv'
<1>t. TypeOK /\ LiveInv /\ workers[a] \in [WorkerState -> Nat]
      /\ workers \in [Accounts -> [WorkerState -> Nat]]
  BY DEF TypeInv, TypeOK
<1>1. workers' = [workers EXCEPT ![a] = workers[a]]
  BY <1>t
<1>2. /\ pipe' \in [Accounts -> Pipeline \cup {None}]
      /\ \A x \in Accounts : Live(x) => Live(x)'
      /\ \A x \in Accounts : Working(x)' => Working(x) \/ Live(x)'
  BY <1>t, <1>1, OneChanges
<1>3. /\ sent' \in [Accounts -> {"none", "path", "load"}]
      /\ job' \in [Accounts -> {"none", "inbox", "sent", "dead"}]
      /\ \A x \in Accounts \ {a} : sent'[x] = sent[x] /\ job'[x] = job[x]
  BY <1>t DEF TypeOK
<1>4. TypeOK'
  BY <1>t, <1>2, <1>3 DEF TypeOK, screen
<1>5. LiveInv'
  BY <1>t, <1>2, <1>3, StaysLive
<1> QED
  BY <1>4, <1>5 DEF TypeInv

LEMMA LoadingType ==
    ASSUME TypeInv, NEW a \in Accounts, Loading(a)
    PROVE  TypeInv'
<1>t. /\ pipe \in [Accounts -> Pipeline \cup {None}]
      /\ sent \in [Accounts -> {"none", "path", "load"}]
      /\ job \in [Accounts -> {"none", "inbox", "sent", "dead"}]
  BY DEF TypeInv, TypeOK
<1>s. sent = [sent EXCEPT ![a] = sent[a]] /\ job = [job EXCEPT ![a] = job[a]]
  BY <1>t
<1>1. CASE SentPath(a)
  <2>1. Live(a) /\ pipe[a] \in Pipeline
    BY <1>1, LivePipe DEF SentPath
  <2>2. PICK known \in BOOLEAN :
         /\ sent' = [sent EXCEPT ![a] = IF known THEN "load" ELSE "none"]
         /\ pipe' = IF known THEN [pipe EXCEPT ![a].phase = "headers"] ELSE pipe
    BY <1>1 DEF SentPath
  <2>3. PICK p \in Pipeline : pipe' = [pipe EXCEPT ![a] = p]
    <3>1. [pipe[a] EXCEPT !.phase = "headers"] \in Pipeline
      BY <2>1 DEF Pipeline
    <3>2. pipe = [pipe EXCEPT ![a] = pipe[a]]
      BY <1>t
    <3> QED
      BY <2>1, <2>2, <3>1, <3>2
  <2>4. UNCHANGED <<screen, stored, workers, job, headersRunning, cascade, done, used>>
    BY <1>1 DEF SentPath
  <2> QED
    BY <1>s, <2>1, <2>2, <2>3, <2>4, LoadSteps DEF TypeInv, TypeOK
<1>2. CASE SentLoaded(a)
  <2>1. Live(a) /\ pipe[a] \in Pipeline
    BY <1>2, LivePipe DEF SentLoaded
  <2>2. PICK new \in Loads(pipe[a], Sent) :
           pipe' = [pipe EXCEPT ![a].phase = "idle", ![a].loaded = new]
    BY <1>2 DEF SentLoaded
  <2>3. [pipe[a] EXCEPT !.phase = "idle", !.loaded = new] \in Pipeline
    BY <2>1, LoadsType DEF Boxes
  <2>4. pipe' = [pipe EXCEPT ![a] = [pipe[a] EXCEPT !.phase = "idle", !.loaded = new]]
    BY <1>t, <2>2
  <2>5. /\ sent' = [sent EXCEPT ![a] = "none"]
        /\ UNCHANGED <<screen, stored, workers, job, headersRunning, cascade, done, used>>
    BY <1>2 DEF SentLoaded
  <2> QED
    BY <1>s, <2>1, <2>3, <2>4, <2>5, LoadSteps DEF TypeInv, TypeOK
<1>3. CASE InboxLoaded(a) \/ JobSentLoaded(a)
  <2>1. Live(a) /\ pipe[a] \in Pipeline
    BY <1>3, LivePipe DEF InboxLoaded, JobSentLoaded
  <2>0. \A b \in Boxes : Loads(pipe[a], b) \subseteq SUBSET (Boxes \X Uids)
    BY <2>1, MailFacts DEF Loads, Pipeline
  <2>2. PICK b \in Boxes, phase \in {"headers", "idle"}, next \in {"none", "sent"},
             new \in SUBSET (Boxes \X Uids) :
           /\ new \in Loads(pipe[a], b)
           /\ pipe' = [pipe EXCEPT ![a].phase = phase, ![a].loaded = new]
           /\ JobGoesOn(a, next)
    <3>1. CASE InboxLoaded(a)
      BY <2>0, <3>1 DEF InboxLoaded, Boxes
    <3>2. CASE JobSentLoaded(a)
      BY <2>0, <3>2 DEF JobSentLoaded, Boxes
    <3> QED
      BY <1>3, <3>1, <3>2
  <2>3. [pipe[a] EXCEPT !.phase = phase, !.loaded = new] \in Pipeline
    BY <2>1, <2>2, LoadsType
  <2>4. pipe' = [pipe EXCEPT ![a] = [pipe[a] EXCEPT !.phase = phase, !.loaded = new]]
    BY <1>t, <2>2
  <2>5. /\ job' = [job EXCEPT ![a] = next] /\ headersRunning' \in BOOLEAN
        /\ UNCHANGED <<screen, stored, workers, sent, cascade, done, used>>
    BY <2>2 DEF JobGoesOn
  <2> QED
    BY <1>s, <1>t, <2>1, <2>3, <2>4, <2>5, LoadSteps
<1>4. CASE DeadJobEnds(a)
  <2>1. /\ job' = [job EXCEPT ![a] = "none"] /\ headersRunning' \in BOOLEAN
        /\ UNCHANGED <<screen, stored, workers, sent, cascade, done, used, pipe>>
    BY <1>4 DEF DeadJobEnds, JobGoesOn
  <2>2. TypeOK'
    BY <1>t, <2>1 DEF TypeInv, TypeOK, screen
  <2>3. LiveInv'
    BY <1>t, <2>1, StaysLive DEF TypeInv, Live, Working
  <2> QED
    BY <2>2, <2>3 DEF TypeInv
<1> QED
  BY <1>1, <1>2, <1>3, <1>4 DEF Loading

-----------------------------------------------------------------------------
(* What a step that is not a worker's makes of a pipeline.                 *)

Busy == WorkerState \ {<<"waiting", b>> : b \in Boxes}

KeepsWork(a) ==
    /\ Live(a) /\ pipe'[a] \in Pipeline
    /\ pipe'[a].queue = pipe[a].queue /\ pipe'[a].retry = pipe[a].retry
    /\ pipe'[a].timer = pipe[a].timer /\ pipe'[a].slots = pipe[a].slots
    /\ pipe'[a].asked = pipe[a].asked /\ pipe'[a].box = pipe[a].box
    /\ pipe'[a].amiss = pipe[a].amiss /\ pipe'[a].over = pipe[a].over
    /\ pipe'[a].finishing => pipe[a].finishing

(* Nothing of it ...                                                       *)
Same(a) == pipe'[a] = pipe[a] /\ workers'[a] = workers[a]

(* ... it is paused, or headers are loaded ...                             *)
Kept(a) ==
    /\ KeepsWork(a) /\ workers'[a] = workers[a] /\ pipe'[a].conc = pipe[a].conc
    /\ pipe'[a].phase = "content" =>
          pipe[a].phase = "content" /\ (pipe[a].paused => pipe'[a].paused)

(* ... it is resumed, which may launch slots ...                           *)
Back(a) ==
    /\ KeepsWork(a) /\ pipe'[a].phase = pipe[a].phase
    /\ a # active' => pipe'[a].conc = pipe[a].conc
    /\ \E b \in Boxes :
          workers'[a] = Launches(workers[a],
                                 Relaunched([pipe[a] EXCEPT !.conc = pipe'[a].conc]), b)

(* ... it is replaced by a new one ...                                     *)
Fresh(a) ==
    /\ \E conc \in 1 .. MaxSlots, for \in {"active", "background"}, phase \in {"idle", "headers"} :
          /\ pipe'[a] = NewPipe(conc, for, phase)
          /\ a # active => conc = 1
    /\ workers'[a] = NoWorkers

(* ... or its content run is started, over whatever slots there are.       *)
Begun(a) ==
    /\ pipe'[a] \in Pipeline /\ pipe'[a].asked = pipe'[a].queue
    /\ pipe'[a].slots = 0
    /\ workers'[a] \in [WorkerState -> Nat] /\ Working(a)'
    /\ ~pipe'[a].over => \A s \in Busy : workers'[a][s] = 0

LEMMA LaunchWorks ==
    ASSUME NEW w \in [WorkerState -> Nat], NEW n \in Nat \ {0}, NEW b \in Boxes
    PROVE  /\ \E s \in WorkerState : Launches(w, n, b)[s] > 0
           /\ \A s \in Busy : Launches(w, n, b)[s] = w[s]
<1>1. <<"waiting", b>> \in WorkerState
  BY DEF WorkerState
<1>2. Launches(w, n, b)[<<"waiting", b>>] = w[<<"waiting", b>>] + n
  BY LaunchesType
<1>3. Launches(w, n, b)[<<"waiting", b>>] > 0
  BY <1>1, <1>2
<1>4. \A s \in WorkerState \ {<<"waiting", b>>} : Launches(w, n, b)[s] = w[s]
  BY LaunchesType, Zenon
<1>5. Busy \subseteq WorkerState \ {<<"waiting", b>>}
  BY DEF Busy
<1> QED
  BY <1>1, <1>3, <1>4, <1>5

(* startActiveAccountPipeline.                                             *)
LEMMA StartEffect ==
    ASSUME TypeInv, StartActive
    PROVE  /\ \A a \in Accounts : Same(a) \/ Back(a) \/ Fresh(a) \/ Begun(a)
           /\ \A a \in Accounts \ {active} : Same(a) \/ Fresh(a)
           /\ pipe' \in [Accounts -> Pipeline \cup {None}]
           /\ workers' \in [Accounts -> [WorkerState -> Nat]]
           /\ \A a \in Accounts : Live(a) \/ a = active => Live(a)'
           /\ active \in Accounts /\ active' = active
<1>t. /\ pipe \in [Accounts -> Pipeline \cup {None}] /\ active \in Accounts
      /\ workers \in [Accounts -> [WorkerState -> Nat]] /\ view \in Boxes
      /\ None \notin Pipeline /\ MaxSlots \in 1 .. MaxSlots /\ MaxSlots \in Nat \ {0}
  BY NoneAssumption, CascadeAssumption DEF TypeInv, TypeOK
<1> DEFINE others == IF headersRunning THEN {} ELSE Accounts \ {active}
           resumed == IF Reusable(active)
                      THEN Launches(workers[active],
                             Relaunched([pipe[active] EXCEPT !.conc = MaxSlots]), view)
                      ELSE NoWorkers
           over == Reusable(active) /\ Working(active)
<1>1. /\ pipe' = [a \in Accounts |->
                      IF a = active
                      THEN IF Uncached = {} THEN ForActive
                           ELSE ContentStarted(ForActive, Uncached, view, over)
                      ELSE IF a \in others THEN NewPipe(1, "background", "headers")
                      ELSE pipe[a]]
      /\ workers' = [a \in Accounts |->
                         IF a = active
                         THEN Launches(resumed, IF Uncached = {} THEN 0 ELSE MaxSlots, view)
                         ELSE IF a \in others THEN NoWorkers ELSE workers[a]]
      /\ active' = active /\ view' = view
  BY DEF StartActive
<1>2. ForActive \in Pipeline /\ resumed \in [WorkerState -> Nat]
  <2>1. CASE Reusable(active)
    <3>1. pipe[active] \in Pipeline
      BY <1>t, <2>1 DEF Reusable, Live
    <3>2. [pipe[active] EXCEPT !.conc = MaxSlots] \in Pipeline
      BY <1>t, <3>1, ResumedType
    <3>3. \A p \in Pipeline : [p EXCEPT !.onComplete = "active", !.hooked = FALSE] \in Pipeline
      BY DEF Pipeline
    <3>4. [pipe[active] EXCEPT !.conc = MaxSlots, !.onComplete = "active", !.hooked = FALSE]
            \in Pipeline
      BY <3>2, <3>3
    <3>5. ForActive \in Pipeline
      BY <1>t, <2>1, <3>4, ResumedType DEF ForActive
    <3>6. resumed \in [WorkerState -> Nat]
      BY <1>t, <2>1, <3>2, RelaunchedType, LaunchesType
    <3> QED
      BY <3>5, <3>6
  <2>2. CASE ~Reusable(active)
    BY <1>t, <2>2, NewPipeType, NoWorkersType DEF ForActive
  <2> QED
    BY <2>1, <2>2
<1>3. Uncached \in SUBSET Uids /\ over \in BOOLEAN
  BY <1>t, MailFacts DEF Uncached
<1>4. ASSUME NEW a \in Accounts \ {active} PROVE Same(a) \/ Fresh(a)
  BY <1>1, <1>4, CascadeAssumption DEF Same, Fresh
<1>r. /\ Reusable(active) =>
            resumed = Launches(workers[active],
                               Relaunched([pipe[active] EXCEPT !.conc = MaxSlots]), view)
      /\ ~Reusable(active) => resumed = NoWorkers
      /\ over <=> Reusable(active) /\ Working(active)
  OBVIOUS
<1> HIDE DEF others, resumed, over
<1>5. Back(active) \/ Fresh(active) \/ Begun(active)
  <2>1. CASE Uncached = {}
    <3>1. workers'[active] = resumed /\ pipe'[active] = ForActive
      <4>1. Launches(resumed, 0, view) = resumed
        <5>1. 0 \in Nat
          OBVIOUS
        <5> QED
          BY <1>t, <1>2, <5>1, LaunchesType, Zenon
      <4> QED
        BY <1>t, <1>1, <2>1, <4>1
    <3>2. CASE Reusable(active)
      <4>1. pipe[active] \in Pipeline /\ Live(active)
        BY <1>t, <3>2 DEF Reusable, Live
      <4>2. /\ ForActive.conc = MaxSlots /\ ForActive.phase = pipe[active].phase
            /\ ForActive.queue = pipe[active].queue /\ ForActive.retry = pipe[active].retry
            /\ ForActive.timer = pipe[active].timer /\ ForActive.slots = pipe[active].slots
            /\ ForActive.asked = pipe[active].asked /\ ForActive.box = pipe[active].box
            /\ ForActive.amiss = pipe[active].amiss
            /\ ForActive.over = pipe[active].over
            /\ ForActive.finishing = pipe[active].finishing
        BY <3>2, <4>1 DEF ForActive, Resumed, Pipeline
      <4>3. KeepsWork(active)
        BY <1>2, <3>1, <4>1, <4>2 DEF KeepsWork
      <4> QED
        BY <1>t, <1>1, <1>r, <3>1, <3>2, <4>2, <4>3 DEF Back
    <3>3. CASE ~Reusable(active)
      <4>1. /\ pipe'[active] = NewPipe(MaxSlots, "active", "idle") /\ workers'[active] = NoWorkers
        BY <1>r, <3>1, <3>3 DEF ForActive
      <4> QED
        BY <1>t, <4>1 DEF Fresh
    <3> QED
      BY <3>2, <3>3
  <2>2. CASE Uncached # {}
    <3>1. /\ workers'[active] = Launches(resumed, MaxSlots, view)
          /\ pipe'[active] = ContentStarted(ForActive, Uncached, view, over)
      BY <1>t, <1>1, <2>2
    <3>a. /\ \E s \in WorkerState : Launches(resumed, MaxSlots, view)[s] > 0
          /\ \A s \in Busy : Launches(resumed, MaxSlots, view)[s] = resumed[s]
      BY <1>t, <1>2, LaunchWorks, Zenon
    <3>b. Launches(resumed, MaxSlots, view) \in [WorkerState -> Nat]
      <4>1. MaxSlots \in Nat
        BY <1>t
      <4> QED
        BY <1>t, <1>2, <4>1, LaunchesType, Zenon
    <3>2. Working(active)'
      <4>1. \E s \in WorkerState : workers'[active][s] > 0
        BY <3>1, <3>a, Zenon
      <4> QED
        BY <1>1, <4>1 DEF Working
    <3>3. /\ pipe'[active] \in Pipeline /\ pipe'[active].asked = pipe'[active].queue
          /\ pipe'[active].slots = 0 /\ (~pipe'[active].over => ~over)
      <4>1. ContentStarted(ForActive, Uncached, view, over) \in Pipeline
        BY <1>t, <1>2, <1>3, StartedType, Zenon
      <4>2. /\ ContentStarted(ForActive, Uncached, view, over).asked = Uncached
            /\ ContentStarted(ForActive, Uncached, view, over).queue = Uncached
            /\ ContentStarted(ForActive, Uncached, view, over).slots = 0
            /\ ~ContentStarted(ForActive, Uncached, view, over).over => ~over
        <5>1. PICK q \in Pipeline, us \in SUBSET Uids, b \in Boxes, v \in BOOLEAN :
                 q = ForActive /\ us = Uncached /\ b = view /\ v = over
          BY <1>t, <1>2, <1>3
        <5>2. /\ ContentStarted(q, us, b, v).asked = us
              /\ ContentStarted(q, us, b, v).queue = us
              /\ ContentStarted(q, us, b, v).slots = 0
              /\ ~ContentStarted(q, us, b, v).over => ~v
          BY DEF ContentStarted, Pipeline
        <5> QED
          BY <5>1, <5>2
      <4> QED
        BY <3>1, <4>1, <4>2, Zenon
    <3>4. workers'[active] \in [WorkerState -> Nat]
      BY <3>1, <3>b, Zenon
    <3>5. \A s \in Busy : workers'[active][s] = resumed[s]
      BY <3>1, <3>a, Zenon
    <3>6. ASSUME ~over, NEW s \in Busy PROVE resumed[s] = 0
      <4>1. s \in WorkerState
        BY DEF Busy
      <4>2. CASE Reusable(active)
        <5>1. workers[active][s] = 0
          BY <1>t, <1>r, <3>6, <4>1, <4>2 DEF Working
        <5>2. pipe[active] \in Pipeline
          BY <1>t, <4>2 DEF Reusable, Live
        <5>3. Relaunched([pipe[active] EXCEPT !.conc = MaxSlots]) \in Nat
          BY <1>t, <5>2, ResumedType, RelaunchedType
        <5>4. s \in WorkerState \ {<<"waiting", view>>}
          BY <1>t, <4>1 DEF Busy
        <5> DEFINE n == Relaunched([pipe[active] EXCEPT !.conc = MaxSlots])
        <5>5. resumed = Launches(workers[active], n, view)
          BY <1>r, <4>2
        <5>6. workers[active] \in [WorkerState -> Nat]
          BY <1>t
        <5>9. n \in Nat
          BY <5>3
        <5> HIDE DEF n
        <5>7. \A r \in WorkerState \ {<<"waiting", view>>} :
                 Launches(workers[active], n, view)[r] = workers[active][r]
          BY <1>t, <5>6, <5>9, LaunchesType, Zenon
        <5>8. Launches(workers[active], n, view)[s] = workers[active][s]
          BY <5>4, <5>7, Zenon
        <5> QED
          BY <5>1, <5>5, <5>8, Zenon
      <4>3. CASE ~Reusable(active)
        BY <1>r, <4>1, <4>3 DEF NoWorkers
      <4> QED
        BY <4>2, <4>3
    <3> QED
      BY <3>2, <3>3, <3>4, <3>5, <3>6 DEF Begun
  <2> QED
    BY <2>1, <2>2
<1>6. pipe' \in [Accounts -> Pipeline \cup {None}]
  <2>1. NewPipe(1, "background", "headers") \in Pipeline
    BY <1>t, NewPipeType, CascadeAssumption
  <2>2. ContentStarted(ForActive, Uncached, view, over) \in Pipeline
    BY <1>t, <1>2, <1>3, StartedType
  <2> QED
    BY <1>t, <1>1, <1>2, <2>1, <2>2
<1>7. workers' \in [Accounts -> [WorkerState -> Nat]]
  <2>1. Launches(resumed, IF Uncached = {} THEN 0 ELSE MaxSlots, view) \in [WorkerState -> Nat]
    BY <1>t, <1>2, LaunchesType
  <2> QED
    BY <1>t, <1>1, <2>1, NoWorkersType
<1>8. \A a \in Accounts : Live(a) \/ a = active => Live(a)'
  <2>1. NewPipe(1, "background", "headers") \in Pipeline
    BY <1>t, NewPipeType, CascadeAssumption
  <2>2. ContentStarted(ForActive, Uncached, view, over) \in Pipeline
    BY <1>t, <1>2, <1>3, StartedType
  <2> QED
    BY <1>t, <1>1, <1>2, <2>1, <2>2 DEF Live
<1> QED
  BY <1>t, <1>1, <1>4, <1>5, <1>6, <1>7, <1>8

LEMMA WalksTyped ==
    ASSUME NEW ps \in [Accounts -> Pipeline \cup {None}], NEW todo \in SUBSET Accounts,
           NEW marked \in SUBSET Accounts, CascadeWalks(ps, todo, marked)
    PROVE  /\ cascade' \in CascadeState /\ done' \subseteq Accounts
           /\ \/ cascade'.st = "off"
              \/ cascade'.acct \in Accounts /\ ps[cascade'.acct] # None
<1>1. /\ cascade' \in CascadeState /\ done' \subseteq Accounts
      /\ \/ cascade' = NoCascade
         \/ cascade'.acct \in todo \ marked /\ ps[cascade'.acct] # None
  BY WalksTo, Zenon
<1> QED
  BY <1>1 DEF NoCascade

LEMMA StartType ==
    ASSUME TypeInv, StartActive
    PROVE  TypeInv'
<1>t. /\ TypeOK /\ LiveInv /\ sent \in [Accounts -> {"none", "path", "load"}]
      /\ job \in [Accounts -> {"none", "inbox", "sent", "dead"}]
      /\ done \subseteq Accounts /\ cascade \in CascadeState
  BY DEF TypeInv, TypeOK, CascadeState
<1>1. /\ pipe' \in [Accounts -> Pipeline \cup {None}]
      /\ workers' \in [Accounts -> [WorkerState -> Nat]]
      /\ \A a \in Accounts : Live(a) \/ a = active => Live(a)'
      /\ \A a \in Accounts \ {active} : Same(a) \/ Fresh(a)
      /\ active \in Accounts
  BY StartEffect
<1> DEFINE others == IF headersRunning THEN {} ELSE Accounts \ {active}
           replaced == others \cup (IF Reusable(active) THEN {} ELSE {active})
<1>2. /\ sent' = [a \in Accounts |-> IF a = active THEN "path"
                                       ELSE IF a \in others THEN "none" ELSE sent[a]]
      /\ job' = [a \in Accounts |->
                     IF a \in others THEN "inbox"
                     ELSE IF a \in replaced /\ job[a] # "none" THEN "dead" ELSE job[a]]
      /\ headersRunning' \in BOOLEAN /\ started' = TRUE
      /\ UNCHANGED <<active, view, online, stored, used>>
  BY <1>t DEF StartActive, TypeOK
<1>3. /\ sent' \in [Accounts -> {"none", "path", "load"}]
      /\ job' \in [Accounts -> {"none", "inbox", "sent", "dead"}]
  BY <1>t, <1>2
<1>4. /\ cascade' \in CascadeState /\ done' \subseteq Accounts
      /\ \/ cascade'.st = "off"
         \/ cascade'.acct \in Accounts /\ pipe'[cascade'.acct] # None
         \/ cascade.st # "off" /\ cascade'.acct = cascade.acct
  <2>1. CASE CascadeStarts(pipe')
    <3>1. CascadeWalks(pipe', Accounts \ {active}, done)
      BY <2>1 DEF CascadeStarts
    <3>2. Accounts \ {active} \in SUBSET Accounts /\ done \in SUBSET Accounts
      BY <1>t
    <3> QED
      BY <1>1, <3>1, <3>2, WalksTyped, Zenon
  <2>2. CASE cascade' = Bereft(cascade, replaced) /\ UNCHANGED done
    <3>1. /\ cascade' \in CascadeState /\ cascade'.acct = cascade.acct
          /\ cascade'.st = "off" <=> cascade.st = "off"
      BY <1>t, <2>2 DEF Bereft, CascadeState
    <3> QED
      BY <1>t, <2>2, <3>1
  <2> QED
    BY <2>1, <2>2 DEF StartActive
<1>5. TypeOK'
  BY <1>t, <1>1, <1>2, <1>3, <1>4 DEF TypeOK, CascadeState
<1>6. LiveInv'
  <2>1. /\ \A a \in Accounts : Live(a) => Live(a)'
        /\ \A a \in Accounts : Working(a)' => Working(a) \/ Live(a)'
    <3>1. ASSUME NEW a \in Accounts, Working(a)' PROVE Working(a) \/ Live(a)'
      <4>1. CASE a = active
        BY <1>1, <4>1
      <4>2. CASE Same(a)
        BY <3>1, <4>2 DEF Same, Working
      <4>3. CASE Fresh(a)
        BY <3>1, <4>3 DEF Fresh, Working, NoWorkers
      <4> QED
        BY <1>1, <4>1, <4>2, <4>3
    <3> QED
      BY <1>1, <3>1
  <2>2. \A a \in Accounts : sent'[a] # "none" => sent[a] # "none" \/ Live(a)'
    BY <1>1, <1>2
  <2>3. ASSUME NEW a \in Accounts, job'[a] \in {"inbox", "sent"}
        PROVE  job[a] \in {"inbox", "sent"} \/ Live(a)'
    <3>1. CASE a \in others
      <4>1. pipe'[a] = NewPipe(1, "background", "headers")
        BY <3>1 DEF StartActive
      <4>2. pipe'[a] \in Pipeline
        BY <4>1, NewPipeType, CascadeAssumption
      <4> QED
        BY <4>2, NoneAssumption DEF Live
    <3>2. CASE a \notin others
      BY <1>2, <2>3, <3>2
    <3> QED
      BY <3>1, <3>2
  <2> HIDE DEF others, replaced
  <2> QED
    BY <1>t, <1>4, <2>1, <2>2, <2>3, StaysLive
<1> QED
  BY <1>5, <1>6 DEF TypeInv

(* The saved IDs of the account on screen are in.                          *)
LEMMA FinishType ==
    ASSUME TypeInv, NEW a \in Accounts, FinishEnds(a)
    PROVE  TypeInv'
<1>t. /\ TypeOK /\ LiveInv /\ pipe \in [Accounts -> Pipeline \cup {None}]
      /\ workers \in [Accounts -> [WorkerState -> Nat]]
      /\ done \subseteq Accounts /\ cascade \in CascadeState
      /\ stored \subseteq Accounts \X Boxes \X Uids
      /\ used \in [{"switches", "views", "outages", "fails"} -> Nat]
  BY DEF TypeInv, TypeOK, CascadeState
<1> DEFINE p == [pipe[a] EXCEPT !.finishing = FALSE, !.hooked = FALSE]
           w == workers[a]
<1>1. pipe[a] \in Pipeline
  BY LivePipe DEF FinishEnds
<1>2. p \in Pipeline /\ w \in [WorkerState -> Nat]
  BY <1>t, <1>1 DEF Pipeline
<1>3. /\ pipe' = [pipe EXCEPT ![a] = p] /\ workers' = [workers EXCEPT ![a] = w]
      /\ UNCHANGED <<screen, stored, headers, used>>
  BY <1>t DEF FinishEnds
<1> HIDE DEF p, w
<1>4. pipe' \in [Accounts -> Pipeline \cup {None}]
  BY <1>t, <1>2, <1>3
<1>5. /\ cascade' \in CascadeState /\ done' \subseteq Accounts
      /\ \/ cascade'.st = "off"
         \/ cascade'.acct \in Accounts /\ pipe'[cascade'.acct] # None
         \/ cascade.st # "off" /\ cascade'.acct = cascade.acct
  <2>1. CASE CascadeStarts(pipe')
    <3>1. CascadeWalks(pipe', Accounts \ {active}, done)
      BY <2>1 DEF CascadeStarts
    <3>2. Accounts \ {active} \in SUBSET Accounts /\ done \in SUBSET Accounts
      BY <1>t
    <3> QED
      BY <1>4, <3>1, <3>2, WalksTyped, Zenon
  <2>2. CASE cascade' = Wakes(cascade, a) /\ UNCHANGED done
    <3>1. /\ cascade' \in CascadeState /\ cascade'.acct = cascade.acct
          /\ cascade'.st = "off" <=> cascade.st = "off"
      BY <1>t, <2>2, Waker
    <3> QED
      BY <1>t, <2>2, <3>1
  <2> QED
    BY <2>1, <2>2 DEF FinishEnds
<1> QED
  BY <1>t, <1>2, <1>3, <1>5, OneSteps

(* The steps of the cascade itself.                                        *)
LEMMA CascadeType ==
    ASSUME TypeInv, CascadeAsks \/ CascadeGoesOn
    PROVE  TypeInv'
<1>t. /\ TypeOK /\ LiveInv /\ pipe \in [Accounts -> Pipeline \cup {None}]
      /\ workers \in [Accounts -> [WorkerState -> Nat]]
      /\ done \subseteq Accounts /\ cascade \in CascadeState
      /\ stored \subseteq Accounts \X Boxes \X Uids
      /\ used \in [{"switches", "views", "outages", "fails"} -> Nat]
      /\ cascade.todo \subseteq Accounts
  BY DEF TypeInv, TypeOK, CascadeState
<1>a. /\ cascade.acct \in Accounts /\ Live(cascade.acct)
      /\ pipe[cascade.acct] \in Pipeline
  BY <1>t DEF LiveInv, CascadeAsks, CascadeGoesOn, Live
<1> DEFINE a == cascade.acct
           uids == {u \in cascade.emails : <<a, Inbox, u>> \notin stored}
           p == [ContentStarted(pipe[a], uids, Inbox, Working(a)) EXCEPT !.hooked = TRUE]
           w == Launches(workers[a], pipe[a].conc, Inbox)
<1>1. ASSUME NEW marked \in SUBSET Accounts, CascadeWalks(pipe, cascade.todo, marked),
             UNCHANGED <<screen, stored, headers, used, pipe, workers>>
      PROVE  TypeInv'
  <2>1. cascade.todo \in SUBSET Accounts
    BY <1>t
  <2>2. /\ cascade' \in CascadeState /\ done' \subseteq Accounts
        /\ \/ cascade'.st = "off"
           \/ cascade'.acct \in Accounts /\ pipe[cascade'.acct] # None
    BY <1>1, <1>t, <2>1, WalksTyped, Zenon
  <2>3. TypeOK'
    BY <1>1, <1>t, <2>2 DEF TypeOK, screen, headers, CascadeState
  <2>4. LiveInv'
    BY <1>1, <1>t, <2>2, StaysLive DEF Live, Working, headers
  <2> QED
    BY <2>3, <2>4 DEF TypeInv
<1>2. CASE CascadeGoesOn
  <2>1. (IF cascade.dead THEN done ELSE done \cup {a}) \in SUBSET Accounts
    BY <1>t, <1>a
  <2> QED
    BY <1>1, <1>2, <2>1 DEF CascadeGoesOn
<1>3. CASE CascadeAsks
  <2>1. CASE cascade.dead \/ uids = {}
    <3>1. (IF cascade.dead THEN done ELSE done \cup {a}) \in SUBSET Accounts
      BY <1>t, <1>a
    <3> QED
      BY <1>1, <1>3, <2>1, <3>1 DEF CascadeAsks
  <2>2. CASE ~(cascade.dead \/ uids = {})
    <3>1. /\ pipe' = [pipe EXCEPT ![a] = p] /\ workers' = [workers EXCEPT ![a] = w]
          /\ cascade' = [cascade EXCEPT !.st = "waits"]
          /\ UNCHANGED <<screen, stored, headers, used, done>>
      BY <1>3, <2>2 DEF CascadeAsks
    <3>2. p \in Pipeline
      <4>1. uids \in SUBSET Uids /\ Working(a) \in BOOLEAN /\ Inbox \in Boxes
        BY <1>t DEF CascadeState, Working, Boxes
      <4>2. ContentStarted(pipe[a], uids, Inbox, Working(a)) \in Pipeline
        BY <1>a, <4>1, StartedType
      <4>3. \A q \in Pipeline : [q EXCEPT !.hooked = TRUE] \in Pipeline
        BY DEF Pipeline
      <4> QED
        BY <4>2, <4>3
    <3>3. w \in [WorkerState -> Nat]
      <4>1. pipe[a].conc \in Nat /\ workers[a] \in [WorkerState -> Nat] /\ Inbox \in Boxes
        BY <1>a, <1>t, CascadeAssumption DEF Pipeline, Boxes
      <4> QED
        BY <4>1, LaunchesType
    <3>4. cascade' \in CascadeState /\ cascade'.acct = cascade.acct /\ cascade.st # "off"
      BY <1>3, <1>t, <3>1 DEF CascadeState, CascadeAsks
    <3> HIDE DEF p, w, uids
    <3> QED
      BY <1>t, <1>a, <3>1, <3>2, <3>3, <3>4, OneSteps
  <2> QED
    BY <2>1, <2>2
<1> QED
  BY <1>2, <1>3

LEMMA NextType == TypeInv /\ [Next]_vars => TypeInv'
<1> SUFFICES ASSUME TypeInv, [Next]_vars PROVE TypeInv'
  OBVIOUS
<1>1. CASE UNCHANGED vars
  BY <1>1 DEF TypeInv, TypeOK, LiveInv, Live, Working, vars, screen, headers
<1>2. CASE Next
  BY <1>2, UserType, SlotsType, LoadingType, StartType, FinishType, CascadeType
     DEF Next, System
<1> QED
  BY <1>1, <1>2

(* The type invariant; with it, a worker, a header load and a cascade      *)
(* always belong to an account that has a pipeline.                        *)
THEOREM Typing == Spec => []TypeOK
<1>1. TypeInv => TypeOK
  BY DEF TypeInv
<1> QED
  BY <1>1, InitType, NextType, PTL DEF Spec

-----------------------------------------------------------------------------
(* Every step is one of a pipeline's workers or its timer, or it does one  *)
(* of the five things above to each pipeline.                              *)

LEMMA AsksEffect ==
    ASSUME TypeInv, CascadeAsks, NEW a \in Accounts, a = cascade.acct
    PROVE  /\ \A x \in Accounts \ {a} : Same(x)
           /\ \/ Same(a) /\ \E marked \in SUBSET Accounts :
                               CascadeWalks(pipe, cascade.todo, marked)
              \/ /\ Begun(a) /\ Live(a)
                 /\ cascade' = [cascade EXCEPT !.st = "waits"] /\ ~cascade.dead
                 /\ pipe'[a] \in Pipeline /\ done' = done
                 /\ pipe'[a].conc = pipe[a].conc
                 /\ pipe'[a].finishing = pipe[a].finishing
                 /\ pipe'[a].timer \notin Boxes
                 /\ workers'[a] = Launches(workers[a], pipe[a].conc, Inbox)
<1>t. /\ pipe \in [Accounts -> Pipeline \cup {None}]
      /\ workers \in [Accounts -> [WorkerState -> Nat]]
      /\ cascade \in CascadeState /\ Inbox \in Boxes
  BY DEF TypeInv, TypeOK, CascadeState, Boxes
<1> DEFINE uids == {u \in cascade.emails : <<a, Inbox, u>> \notin stored}
           s == ContentStarted(pipe[a], uids, Inbox, Working(a))
           p == [s EXCEPT !.hooked = TRUE]
           w == Launches(workers[a], pipe[a].conc, Inbox)
<1>a. a \in Accounts /\ Live(a) /\ pipe[a] \in Pipeline
  BY <1>t DEF TypeInv, LiveInv, CascadeAsks, Live
<1>b. Inbox \in Boxes
  BY <1>t
<1>n. None \notin Boxes /\ Stale \notin Boxes
  BY CascadeAssumption
<1>1. CASE cascade.dead \/ uids = {}
  <2>1. /\ CascadeWalks(pipe, cascade.todo, IF cascade.dead THEN done ELSE done \cup {a})
        /\ UNCHANGED <<pipe, workers>>
    BY <1>1 DEF CascadeAsks
  <2>2. (IF cascade.dead THEN done ELSE done \cup {a}) \in SUBSET Accounts
    BY DEF TypeInv, TypeOK
  <2> QED
    BY <2>1, <2>2 DEF Same
<1>2. CASE ~(cascade.dead \/ uids = {})
  <2>1. /\ pipe' = [pipe EXCEPT ![a] = p] /\ workers' = [workers EXCEPT ![a] = w]
        /\ cascade' = [cascade EXCEPT !.st = "waits"] /\ done' = done
    BY <1>2 DEF CascadeAsks
  <2>2. uids \in SUBSET Uids /\ Working(a) \in BOOLEAN
    BY <1>t DEF CascadeState, Working
  <2>3. s \in Pipeline
    BY <1>a, <1>b, <2>2, StartedType
  <2>4. /\ s.asked = s.queue /\ s.slots = 0 /\ s.conc = pipe[a].conc
        /\ s.finishing = pipe[a].finishing /\ s.timer \notin Boxes
        /\ ~s.over => ~Working(a)
    <3> DEFINE o == Working(a)
    <3>1. s = ContentStarted(pipe[a], uids, Inbox, o) /\ o \in BOOLEAN /\ uids \in SUBSET Uids
      BY <2>2
    <3> HIDE DEF uids, o, s
    <3>2. /\ s.asked = uids /\ s.queue = uids /\ s.slots = 0 /\ s.conc = pipe[a].conc
          /\ s.finishing = pipe[a].finishing /\ s.timer \notin Boxes
          /\ ~s.over => ~o
      <4>1. PICK q \in Pipeline : q = pipe[a]
        BY <1>a
      <4>2. PICK v \in BOOLEAN : v = o
        BY <3>1
      <4>3. /\ ContentStarted(q, uids, Inbox, v).asked = uids
            /\ ContentStarted(q, uids, Inbox, v).queue = uids
            /\ ContentStarted(q, uids, Inbox, v).slots = 0
            /\ ContentStarted(q, uids, Inbox, v).conc = q.conc
            /\ ContentStarted(q, uids, Inbox, v).timer \notin Boxes
            /\ ContentStarted(q, uids, Inbox, v).finishing = q.finishing
            /\ ~ContentStarted(q, uids, Inbox, v).over => ~v
        BY <1>n, <3>1 DEF ContentStarted, Pipeline
      <4> QED
        BY <3>1, <4>1, <4>2, <4>3
    <3> QED
      BY <3>2 DEF o
  <2>5. /\ p \in Pipeline
        /\ p.asked = s.asked /\ p.queue = s.queue /\ p.slots = s.slots /\ p.conc = s.conc
        /\ p.finishing = s.finishing /\ p.timer = s.timer /\ p.over = s.over
    <3> HIDE DEF s
    <3> QED
      BY <2>3 DEF Pipeline
  <2>6. pipe[a].conc \in Nat \ {0} /\ pipe[a].conc \in Nat /\ workers[a] \in [WorkerState -> Nat]
    BY <1>t, <1>a, CascadeAssumption DEF Pipeline
  <2> HIDE DEF s, p
  <2>7. /\ w \in [WorkerState -> Nat] /\ \E r \in WorkerState : w[r] > 0
        /\ \A r \in Busy : w[r] = workers[a][r]
    <3>1. Launches(workers[a], pipe[a].conc, Inbox) \in [WorkerState -> Nat]
      BY <1>b, <2>6, LaunchesType, Zenon
    <3>2. /\ \E r \in WorkerState : Launches(workers[a], pipe[a].conc, Inbox)[r] > 0
          /\ \A r \in Busy :
               Launches(workers[a], pipe[a].conc, Inbox)[r] = workers[a][r]
      BY <1>b, <2>6, LaunchWorks, Zenon
    <3> QED
      BY <3>1, <3>2, Zenon DEF w
  <2> HIDE DEF w
  <2>8. pipe'[a] = p /\ workers'[a] = w /\ \A x \in Accounts \ {a} : Same(x)
    BY <1>t, <1>a, <2>1 DEF Same
  <2>9. Begun(a)
    <3>1. \E r \in WorkerState : workers'[a][r] > 0
      BY <2>7, <2>8, Zenon
    <3>3. Working(a)'
      BY <3>1 DEF Working
    <3>4. ASSUME ~p.over, NEW r \in Busy PROVE workers'[a][r] = 0
      <4>1. workers[a][r] = 0
        BY <2>4, <2>5, <2>6, <3>4 DEF Working, Busy
      <4> QED
        BY <2>7, <2>8, <4>1
    <3> QED
      BY <2>4, <2>5, <2>7, <2>8, <3>3, <3>4 DEF Begun
  <2> QED
    BY <1>2, <1>a, <2>1, <2>4, <2>5, <2>8, <2>9 DEF w
<1> QED
  BY <1>1, <1>2


Kind(a) == Same(a) \/ Kept(a) \/ Back(a) \/ Fresh(a) \/ Begun(a)

LEMMA UserKinds ==
    ASSUME TypeInv, User, NEW a \in Accounts
    PROVE  Same(a) \/ Kept(a) \/ (Back(a) /\ (Online \/ a = active'))
<1>t. /\ pipe \in [Accounts -> Pipeline \cup {None}]
      /\ workers \in [Accounts -> [WorkerState -> Nat]]
      /\ None \notin Pipeline /\ MaxSlots \in 1 .. MaxSlots /\ Inbox \in Boxes
  BY NoneAssumption, CascadeAssumption DEF TypeInv, TypeOK, Boxes
<1>p. ASSUME NEW q \in Pipeline
      PROVE  /\ [q EXCEPT !.paused = TRUE] \in Pipeline
             /\ Resumed(q) \in Pipeline /\ [q EXCEPT !.conc = q.conc] = q
  BY DEF Pipeline, Resumed
<1>1. ASSUME Live(a), pipe'[a] = [pipe[a] EXCEPT !.paused = TRUE], workers'[a] = workers[a]
      PROVE  Kept(a)
  <2>1. pipe[a] \in Pipeline
    BY <1>t, <1>1 DEF Live
  <2>2. pipe'[a] \in Pipeline
    BY <1>1, <1>p, <2>1
  <2>3. /\ pipe'[a].queue = pipe[a].queue /\ pipe'[a].retry = pipe[a].retry
        /\ pipe'[a].timer = pipe[a].timer /\ pipe'[a].slots = pipe[a].slots
        /\ pipe'[a].asked = pipe[a].asked /\ pipe'[a].box = pipe[a].box
        /\ pipe'[a].amiss = pipe[a].amiss
        /\ pipe'[a].over = pipe[a].over /\ pipe'[a].finishing = pipe[a].finishing
        /\ pipe'[a].conc = pipe[a].conc /\ pipe'[a].phase = pipe[a].phase
        /\ pipe'[a].paused = TRUE
    BY <1>1, <2>1 DEF Pipeline
  <2> QED
    BY <1>1, <2>2, <2>3 DEF Kept, KeepsWork
<1>2. ASSUME NEW b \in Accounts, Switch(b) PROVE Same(a) \/ Kept(a) \/ (Back(a) /\ (Online \/ a = active'))
  <2>1. /\ pipe' = [x \in Accounts |->
                  IF pipe[x] = None THEN None
                  ELSE IF x # b THEN [pipe[x] EXCEPT !.paused = TRUE]
                  ELSE Resumed([pipe[x] EXCEPT !.conc = MaxSlots])]
        /\ workers' = IF pipe[b] = None THEN workers
                  ELSE [workers EXCEPT ![b] = Launches(@,
                          Relaunched([pipe[b] EXCEPT !.conc = MaxSlots]), Inbox)]
        /\ active' = b
    BY <1>2 DEF Switch
  <2>2. CASE pipe[a] = None
    <3>1. workers'[a] = workers[a]
      BY <1>t, <2>1, <2>2
    <3> QED
      BY <2>1, <2>2, <3>1 DEF Same
  <2>3. CASE pipe[a] # None /\ a # b
    <3>1. workers'[a] = workers[a]
      BY <1>t, <2>1, <2>3
    <3> QED
      BY <1>1, <2>1, <2>3, <3>1 DEF Live
  <2>4. CASE pipe[a] # None /\ a = b
    <3> DEFINE p == [pipe[a] EXCEPT !.conc = MaxSlots]
    <3>1. pipe[a] \in Pipeline
      BY <1>t, <2>4
    <3>2. p \in Pipeline /\ Resumed(p) \in Pipeline
      BY <1>t, <3>1, ResumedType
    <3>3. /\ Resumed(p).queue = pipe[a].queue /\ Resumed(p).retry = pipe[a].retry
          /\ Resumed(p).timer = pipe[a].timer /\ Resumed(p).slots = pipe[a].slots
          /\ Resumed(p).asked = pipe[a].asked /\ Resumed(p).box = pipe[a].box
          /\ Resumed(p).amiss = pipe[a].amiss
          /\ Resumed(p).over = pipe[a].over /\ Resumed(p).finishing = pipe[a].finishing
          /\ Resumed(p).phase = pipe[a].phase /\ Resumed(p).conc = MaxSlots
      BY <3>1 DEF Resumed, Pipeline
    <3>4. pipe'[a] = Resumed(p) /\ workers'[a] = Launches(workers[a], Relaunched(p), Inbox)
      BY <1>t, <2>1, <2>4
    <3>5. Back(a)
      BY <1>t, <2>1, <2>4, <3>2, <3>3, <3>4 DEF Back, KeepsWork, Live
    <3> QED
      BY <2>1, <2>4, <3>5
  <2> QED
    BY <2>2, <2>3, <2>4
<1>3. ASSUME NEW b \in Boxes, View(b) PROVE Same(a)
  BY <1>3 DEF View, Same
<1>4. CASE Offline
  <2>1. CASE Live(a)
    <3>1. pipe'[a] = [pipe[a] EXCEPT !.paused = TRUE] /\ workers'[a] = workers[a]
      BY <1>4, <2>1 DEF Offline, Live
    <3> QED
      BY <1>1, <2>1, <3>1
  <2>2. CASE ~Live(a)
    BY <1>4, <2>2 DEF Offline, Same, Live
  <2> QED
    BY <2>1, <2>2
<1>5. CASE Online
  <2>1. CASE Live(a)
    <3>1. /\ pipe'[a] = Resumed(pipe[a])
          /\ workers'[a] = Launches(workers[a], Relaunched(pipe[a]), Inbox)
          /\ pipe[a] \in Pipeline
      BY <1>t, <1>5, <2>1 DEF Online, Live
    <3>2. /\ Resumed(pipe[a]).queue = pipe[a].queue /\ Resumed(pipe[a]).retry = pipe[a].retry
          /\ Resumed(pipe[a]).timer = pipe[a].timer /\ Resumed(pipe[a]).slots = pipe[a].slots
          /\ Resumed(pipe[a]).asked = pipe[a].asked /\ Resumed(pipe[a]).box = pipe[a].box
          /\ Resumed(pipe[a]).amiss = pipe[a].amiss
          /\ Resumed(pipe[a]).over = pipe[a].over
          /\ Resumed(pipe[a]).finishing = pipe[a].finishing
          /\ Resumed(pipe[a]).phase = pipe[a].phase /\ Resumed(pipe[a]).conc = pipe[a].conc
      BY <3>1 DEF Resumed, Pipeline
    <3>3. [pipe[a] EXCEPT !.conc = pipe'[a].conc] = pipe[a]
      BY <1>p, <3>1, <3>2
    <3>4. Resumed(pipe[a]) \in Pipeline
      BY <1>p, <3>1
    <3> QED
      BY <1>t, <1>5, <2>1, <3>1, <3>2, <3>3, <3>4 DEF Back, KeepsWork
  <2>2. CASE ~Live(a)
    BY <1>5, <2>2 DEF Online, Same, Live
  <2> QED
    BY <2>1, <2>2
<1> QED
  BY <1>2, <1>3, <1>4, <1>5 DEF User

LEMMA LoadKinds ==
    ASSUME TypeInv, NEW x \in Accounts, Loading(x), NEW a \in Accounts
    PROVE  Same(a) \/ (a = x /\ Kept(a))
<1>t. pipe \in [Accounts -> Pipeline \cup {None}] /\ None \notin Pipeline
  BY NoneAssumption DEF TypeInv, TypeOK
<1>1. ASSUME NEW phase \in {"idle", "headers"}, NEW new \in SUBSET (Boxes \X Uids),
             pipe[x] \in Pipeline,
             pipe'[x] = [pipe[x] EXCEPT !.phase = phase, !.loaded = new],
             workers' = workers
      PROVE  Kept(x)
  <2>1. pipe'[x] \in Pipeline
    BY <1>1 DEF Pipeline
  <2> QED
    BY <1>t, <1>1, <2>1 DEF Kept, KeepsWork, Live, Pipeline
<1>2. CASE SentPath(x)
  <2>1. pipe[x] \in Pipeline
    BY <1>2, LivePipe DEF SentPath
  <2>2. PICK known \in BOOLEAN :
          pipe' = IF known THEN [pipe EXCEPT ![x].phase = "headers"] ELSE pipe
    BY <1>2 DEF SentPath
  <2>3. workers' = workers
    BY <1>2 DEF SentPath
  <2>4. CASE ~known
    BY <2>2, <2>3, <2>4 DEF Same
  <2>5. CASE known
    <3>1. pipe'[x] = [pipe[x] EXCEPT !.phase = "headers"]
      BY <1>t, <2>2, <2>5
    <3>2. pipe'[x] = [pipe[x] EXCEPT !.phase = "headers", !.loaded = pipe[x].loaded]
      BY <2>1, <3>1 DEF Pipeline
    <3>3. pipe[x].loaded \in SUBSET (Boxes \X Uids)
      BY <2>1 DEF Pipeline
    <3>4. Kept(x)
      BY <1>1, <2>1, <2>3, <3>2, <3>3
    <3>5. a # x => Same(a)
      BY <1>t, <2>2, <2>3, <2>5 DEF Same
    <3> QED
      BY <3>4, <3>5
  <2> QED
    BY <2>4, <2>5
<1>3. ASSUME NEW b \in Boxes, NEW phase \in {"idle", "headers"}, NEW new \in Loads(pipe[x], b),
             pipe[x] \in Pipeline,
             pipe' = [pipe EXCEPT ![x].phase = phase, ![x].loaded = new], workers' = workers
      PROVE  Same(a) \/ (a = x /\ Kept(a))
  <2>1. new \in SUBSET (Boxes \X Uids)
    BY <1>3, LoadsType
  <2>2. pipe'[x] = [pipe[x] EXCEPT !.phase = phase, !.loaded = new]
    BY <1>t, <1>3
  <2>3. a # x => Same(a)
    BY <1>t, <1>3 DEF Same
  <2> QED
    BY <1>1, <1>3, <2>1, <2>2, <2>3
<1>4. CASE SentLoaded(x)
  <2>1. pipe[x] \in Pipeline /\ Sent \in Boxes
    BY <1>4, LivePipe DEF SentLoaded, Boxes
  <2> QED
    BY <1>3, <1>4, <2>1 DEF SentLoaded
<1>5. CASE InboxLoaded(x)
  <2>1. pipe[x] \in Pipeline /\ Inbox \in Boxes
    BY <1>5, LivePipe DEF InboxLoaded, Boxes
  <2> QED
    BY <1>3, <1>5, <2>1 DEF InboxLoaded, JobGoesOn
<1>6. CASE JobSentLoaded(x)
  <2>1. pipe[x] \in Pipeline /\ Sent \in Boxes
    BY <1>6, LivePipe DEF JobSentLoaded, Boxes
  <2> QED
    BY <1>3, <1>6, <2>1 DEF JobSentLoaded, JobGoesOn
<1>7. CASE DeadJobEnds(x)
  BY <1>7 DEF DeadJobEnds, JobGoesOn, Same
<1> QED
  BY <1>2, <1>4, <1>5, <1>6, <1>7 DEF Loading

LEMMA FinishKinds ==
    ASSUME TypeInv, NEW x \in Accounts, FinishEnds(x), NEW a \in Accounts
    PROVE  Same(a) \/ (a = x /\ Kept(a))
<1>t. pipe \in [Accounts -> Pipeline \cup {None}] /\ pipe[x] \in Pipeline
  BY LivePipe DEF TypeInv, TypeOK, FinishEnds
<1>1. /\ pipe'[x] = [pipe[x] EXCEPT !.finishing = FALSE, !.hooked = FALSE]
      /\ a # x => pipe'[a] = pipe[a]
      /\ workers' = workers /\ Live(x)
  BY <1>t DEF FinishEnds
<1>2. pipe'[x] \in Pipeline
  BY <1>t, <1>1 DEF Pipeline
<1>3. Kept(x)
  BY <1>t, <1>1, <1>2 DEF Kept, KeepsWork, Pipeline
<1> QED
  BY <1>1, <1>3 DEF Same

LEMMA SlotsAreOne ==
    ASSUME TypeInv, NEW a \in Accounts, Slots(a) \/ RetryFires(a)
    PROVE  \A x \in Accounts \ {a} : Same(x)
<1>1. /\ \A x \in Accounts \ {a} : pipe'[x] = pipe[x]
      /\ \A x \in Accounts \ {a} : workers'[x] = workers[x]
  <2>1. pipe \in [Accounts -> Pipeline \cup {None}] /\ workers \in [Accounts -> [WorkerState -> Nat]]
    BY DEF TypeInv, TypeOK
  <2>2. CASE RetryFires(a)
    BY <2>1, <2>2 DEF RetryFires
  <2>3. ASSUME NEW b \in Boxes, SlotStarts(a, b) \/ SlotEnds(a, b)
        PROVE  <1>1!1 /\ <1>1!2
    BY <2>1, <2>3 DEF SlotStarts, SlotEnds
  <2>4. ASSUME NEW b \in Boxes, NEW u \in Uids,
               \/ TakesNext(a, b, u) \/ Skips(a, b, u)
               \/ Fetched(a, b, u) \/ FetchFails(a, b, u)
        PROVE  <1>1!1 /\ <1>1!2
    BY <2>1, <2>4 DEF TakesNext, Skips, Fetched, FetchFails
  <2> QED
    BY <2>2, <2>3, <2>4 DEF Slots
<1> QED
  BY <1>1 DEF Same

LEMMA NextKinds ==
    ASSUME TypeInv, [Next]_vars
    PROVE  \/ \E a \in Accounts : /\ Slots(a) \/ RetryFires(a)
                                  /\ \A x \in Accounts \ {a} : Same(x)
           \/ \A a \in Accounts : Kind(a)
<1>1. CASE UNCHANGED vars
  BY <1>1 DEF vars, Kind, Same
<1>2. CASE CascadeGoesOn
  BY <1>2 DEF CascadeGoesOn, Kind, Same
<1>3. CASE StartActive
  BY <1>3, StartEffect DEF Kind
<1>4. CASE CascadeAsks
  <2>1. PICK c \in Accounts : c = cascade.acct
    BY <1>4 DEF TypeInv, LiveInv, CascadeAsks
  <2> QED
    BY <1>4, <2>1, AsksEffect DEF Kind
<1>5. ASSUME NEW a \in Accounts, Slots(a) \/ RetryFires(a)
      PROVE  \A x \in Accounts \ {a} : Same(x)
  BY <1>5, SlotsAreOne
<1>6. ASSUME NEW x \in Accounts, FinishEnds(x) \/ Loading(x)
      PROVE  \A a \in Accounts : Kind(a)
  BY <1>6, FinishKinds, LoadKinds DEF Kind
<1>7. CASE User
  BY <1>7, UserKinds DEF Kind
<1> QED
  BY <1>1, <1>2, <1>3, <1>4, <1>5, <1>6, <1>7 DEF Next, System


-----------------------------------------------------------------------------
(* What is asked for is settled, queued, set aside or in a worker's hand.  *)

Whole(a) == Live(a) =>
  pipe[a].asked \subseteq Settled(a) \cup pipe[a].queue \cup pipe[a].retry \cup InHand(a)

(* Nothing leaves the vault.                                               *)
LEMMA StoredGrows == [Next]_vars => stored \subseteq stored'
<1> SUFFICES ASSUME [Next]_vars PROVE stored \subseteq stored'
  OBVIOUS
<1>1. CASE UNCHANGED vars
  BY <1>1 DEF vars
<1>2. CASE CascadeGoesOn \/ StartActive \/ CascadeAsks
  BY <1>2 DEF CascadeGoesOn, StartActive, CascadeAsks
<1>3. ASSUME NEW a \in Accounts, Slots(a) \/ RetryFires(a) PROVE stored \subseteq stored'
  <2>1. ASSUME NEW b \in Boxes, NEW u \in Uids, Fetched(a, b, u)
        PROVE  stored \subseteq stored'
    BY <2>1 DEF Fetched
  <2> QED
    BY <1>3, <2>1 DEF Slots, SlotStarts, SlotEnds, TakesNext, Skips, FetchFails, RetryFires
<1>4. ASSUME NEW a \in Accounts, FinishEnds(a) \/ Loading(a) PROVE stored \subseteq stored'
  BY <1>4 DEF FinishEnds, Loading, SentPath, SentLoaded, InboxLoaded, JobSentLoaded,
              DeadJobEnds, JobGoesOn
<1>5. CASE User
  BY <1>5 DEF User, Switch, View, Offline, Online
<1> QED
  BY <1>1, <1>2, <1>3, <1>4, <1>5 DEF Next, System

(* So what is settled stays so, as long as it is not taken up again.       *)
LEMMA SettledKept ==
    ASSUME NEW a \in Accounts, NEW S, stored \subseteq stored',
           pipe'[a].box = pipe[a].box, pipe[a].amiss \ S \subseteq pipe'[a].amiss
    PROVE  Settled(a) \ S \subseteq Settled(a)'
  BY DEF Settled

LEMMA FetchStates ==
    /\ \A b, c \in Boxes, u \in Uids :
          /\ <<"fetch", c, u>> \in WorkerState \ {<<"waiting", b>>, <<"loop", b>>}
          /\ <<"fetch", c, u>> # <<"loop", b>> /\ <<"fetch", c, u>> \in WorkerState
    /\ \A b \in Boxes : /\ <<"waiting", b>> \in WorkerState /\ <<"loop", b>> \in WorkerState
                         /\ <<"waiting", b>> # <<"loop", b>>
<1>1. ASSUME NEW b \in Boxes, NEW c \in Boxes, NEW u \in Uids
      PROVE  /\ <<"fetch", c, u>> \in WorkerState
             /\ <<"fetch", c, u>> # <<"waiting", b>> /\ <<"fetch", c, u>> # <<"loop", b>>
  BY States
<1>2. ASSUME NEW b \in Boxes
      PROVE  /\ <<"waiting", b>> \in WorkerState /\ <<"loop", b>> \in WorkerState
             /\ <<"waiting", b>> # <<"loop", b>>
  BY DEF WorkerState
<1> QED
  BY <1>1, <1>2

LEMMA LaunchesNoFetch ==
    ASSUME NEW w \in [WorkerState -> Nat], NEW n \in Nat, NEW b \in Boxes
    PROVE  \A c \in Boxes, u \in Uids :
              Launches(w, n, b)[<<"fetch", c, u>>] = w[<<"fetch", c, u>>]
<1>1. \A s \in WorkerState \ {<<"waiting", b>>} : Launches(w, n, b)[s] = w[s]
  BY LaunchesType, Zenon
<1>2. \A c \in Boxes, u \in Uids : <<"fetch", c, u>> \in WorkerState \ {<<"waiting", b>>}
  BY FetchStates
<1> QED
  BY <1>1, <1>2, Zenon

LEMMA HandKept ==
    ASSUME NEW a \in Accounts,
           \A b \in Boxes, u \in Uids :
              workers'[a][<<"fetch", b, u>>] = workers[a][<<"fetch", b, u>>]
    PROVE  InHand(a)' = InHand(a)
  BY DEF InHand

LEMMA KindKeepsWhole ==
    ASSUME TypeInv, NEW a \in Accounts, Kind(a), Whole(a), stored \subseteq stored'
    PROVE  Whole(a)'
<1>t. workers[a] \in [WorkerState -> Nat]
  BY LivePipe
<1>s. pipe'[a].box = pipe[a].box /\ pipe'[a].amiss = pipe[a].amiss
        => Settled(a) \subseteq Settled(a)'
  BY DEF Settled
<1>1. CASE Same(a)
  <2>1. InHand(a)' = InHand(a)
    BY <1>1, HandKept DEF Same
  <2>2. pipe'[a] = pipe[a] /\ Settled(a) \subseteq Settled(a)'
    BY <1>1, <1>s DEF Same
  <2> QED
    BY <2>1, <2>2 DEF Whole, Live
<1>2. CASE Kept(a)
  <2>1. InHand(a)' = InHand(a)
    BY <1>2, HandKept DEF Kept
  <2> QED
    BY <1>2, <1>s, <2>1 DEF Kept, KeepsWork, Whole
<1>3. CASE Back(a)
  <2>1. PICK b \in Boxes :
          workers'[a] = Launches(workers[a],
                                 Relaunched([pipe[a] EXCEPT !.conc = pipe'[a].conc]), b)
    BY <1>3 DEF Back
  <2> DEFINE n == Relaunched([pipe[a] EXCEPT !.conc = pipe'[a].conc])
  <2>2. n \in Nat
    <3>1. pipe[a] \in Pipeline /\ pipe'[a].conc \in 1 .. MaxSlots
      BY <1>3, LivePipe DEF Back, KeepsWork, Pipeline
    <3> QED
      BY <3>1, ResumedType, RelaunchedType
  <2>3. workers'[a] = Launches(workers[a], n, b)
    BY <2>1
  <2> HIDE DEF n
  <2>4. \A c \in Boxes, u \in Uids :
           workers'[a][<<"fetch", c, u>>] = workers[a][<<"fetch", c, u>>]
    <3>1. \A c \in Boxes, u \in Uids :
             Launches(workers[a], n, b)[<<"fetch", c, u>>] = workers[a][<<"fetch", c, u>>]
      BY <1>t, <2>2, LaunchesNoFetch, Zenon
    <3> QED
      BY <2>3, <3>1
  <2>5. InHand(a)' = InHand(a)
    BY <2>4, HandKept
  <2> QED
    BY <1>3, <1>s, <2>5 DEF Back, KeepsWork, Whole
<1>4. CASE Fresh(a)
  <2>1. pipe'[a].asked = {}
    BY <1>4 DEF Fresh, NewPipe
  <2> QED
    BY <2>1 DEF Whole
<1>5. CASE Begun(a)
  BY <1>5 DEF Begun, Whole
<1> QED
  BY <1>1, <1>2, <1>3, <1>4, <1>5 DEF Kind

LEMMA SlotsKeepWhole ==
    ASSUME TypeInv, NEW a \in Accounts, Slots(a) \/ RetryFires(a), Whole(a),
           stored \subseteq stored'
    PROVE  Whole(a)'
<1>t. /\ pipe \in [Accounts -> Pipeline \cup {None}]
      /\ workers \in [Accounts -> [WorkerState -> Nat]]
  BY DEF TypeInv, TypeOK
<1>l. /\ \A s \in WorkerState : workers[a][s] > 0 => pipe[a] \in Pipeline /\ Live(a)
      /\ Live(a) => pipe[a] \in Pipeline
      /\ workers[a] \in [WorkerState -> Nat]
  BY LivePipe DEF Working
<1>1. ASSUME NEW b \in Boxes, SlotStarts(a, b) PROVE Whole(a)'
  <2>0. /\ <<"waiting", b>> \in WorkerState /\ <<"loop", b>> \in WorkerState
        /\ <<"waiting", b>> # <<"loop", b>>
        /\ \A c \in Boxes, u \in Uids :
              <<"fetch", c, u>> \in WorkerState \ {<<"waiting", b>>, <<"loop", b>>}
    BY FetchStates
  <2>1. pipe[a] \in Pipeline /\ Live(a) /\ workers[a][<<"waiting", b>>] > 0
    BY <1>1, <1>l, <2>0 DEF SlotStarts
  <2>2. workers'[a] = Moves(workers[a], <<"waiting", b>>, <<"loop", b>>)
    BY <1>1, <1>t DEF SlotStarts
  <2>3. \A c \in Boxes, u \in Uids :
           workers'[a][<<"fetch", c, u>>] = workers[a][<<"fetch", c, u>>]
    <3>1. \A s \in WorkerState \ {<<"waiting", b>>, <<"loop", b>>} :
             workers'[a][s] = workers[a][s]
      BY <1>l, <2>0, <2>1, <2>2, MovesType
    <3> QED
      BY <2>0, <3>1
  <2>4. InHand(a)' = InHand(a)
    BY <2>3, HandKept
  <2>5. pipe'[a] = [pipe[a] EXCEPT !.slots = @ + 1]
    BY <1>1, <1>t DEF SlotStarts
  <2>6. /\ pipe'[a].asked = pipe[a].asked /\ pipe'[a].box = pipe[a].box
        /\ pipe'[a].amiss = pipe[a].amiss
        /\ pipe'[a].retry = pipe[a].retry /\ pipe'[a].queue = pipe[a].queue
    BY <2>1, <2>5 DEF Pipeline
  <2>7. Settled(a) \ {} \subseteq Settled(a)'
    BY <2>6, SettledKept
  <2> QED
    BY <2>1, <2>4, <2>6, <2>7 DEF Whole
<1>2. ASSUME NEW b \in Boxes, NEW u \in Uids, TakesNext(a, b, u) PROVE Whole(a)'
  <2>0. <<"fetch", b, u>> \in WorkerState /\ <<"loop", b>> \in WorkerState
        /\ <<"loop", b>> # <<"fetch", b, u>>
        /\ \A c \in Boxes, v \in Uids : <<"fetch", c, v>> \in WorkerState
                                         /\ <<"fetch", c, v>> # <<"loop", b>>
    BY States
  <2>1. pipe[a] \in Pipeline /\ Live(a) /\ workers[a][<<"loop", b>>] > 0
    BY <1>2, <1>l, <2>0 DEF TakesNext
  <2>2. workers'[a] = Moves(workers[a], <<"loop", b>>, <<"fetch", b, u>>)
    BY <1>2, <1>t DEF TakesNext
  <2>3. /\ workers'[a][<<"fetch", b, u>>] > 0
        /\ \A c \in Boxes, v \in Uids : workers[a][<<"fetch", c, v>>] > 0
                                         => workers'[a][<<"fetch", c, v>>] > 0
    <3> DEFINE w == Moves(workers[a], <<"loop", b>>, <<"fetch", b, u>>)
    <3>1. /\ w[<<"fetch", b, u>>] = workers[a][<<"fetch", b, u>>] + 1
          /\ \A s \in WorkerState \ {<<"loop", b>>, <<"fetch", b, u>>} : w[s] = workers[a][s]
          /\ workers[a][<<"fetch", b, u>>] \in Nat
      BY <1>l, <2>0, <2>1, MovesType
    <3>2. workers'[a] = w
      BY <2>2
    <3> HIDE DEF w
    <3>3. w[<<"fetch", b, u>>] > 0
      BY <3>1
    <3>4. ASSUME NEW c \in Boxes, NEW v \in Uids, workers[a][<<"fetch", c, v>>] > 0
          PROVE  w[<<"fetch", c, v>>] > 0
      <4>1. CASE <<"fetch", c, v>> = <<"fetch", b, u>>
        BY <3>3, <4>1
      <4>2. CASE <<"fetch", c, v>> # <<"fetch", b, u>>
        BY <2>0, <3>1, <3>4, <4>2
      <4> QED
        BY <4>1, <4>2
    <3> QED
      BY <3>2, <3>3, <3>4
  <2>4. u \in InHand(a)' /\ InHand(a) \subseteq InHand(a)'
    BY <2>3 DEF InHand
  <2>5. pipe'[a] = [pipe[a] EXCEPT
                      !.queue = @ \ {u},
                      !.amiss = IF AsAsked(a, b, u) THEN @ \ {u} ELSE @ \cup {u}]
    BY <1>2, <1>t DEF TakesNext
  <2>6. /\ pipe'[a].asked = pipe[a].asked /\ pipe'[a].box = pipe[a].box
        /\ pipe[a].amiss \ {u} \subseteq pipe'[a].amiss
        /\ pipe'[a].retry = pipe[a].retry /\ pipe'[a].queue = pipe[a].queue \ {u}
    BY <2>1, <2>5 DEF Pipeline
  <2>7. Settled(a) \ {u} \subseteq Settled(a)'
    BY <2>6, SettledKept
  <2> QED
    BY <2>1, <2>4, <2>6, <2>7 DEF Whole
<1>6. ASSUME NEW b \in Boxes, NEW u \in Uids, Skips(a, b, u) PROVE Whole(a)'
  <2>1. pipe[a] \in Pipeline /\ Live(a)
    BY <1>6, <1>l, States DEF Skips
  <2>2. /\ pipe'[a] = [pipe[a] EXCEPT !.queue = @ \ {u}, !.amiss = @ \cup {u}]
        /\ workers' = workers
    BY <1>6, <1>t DEF Skips
  <2>3. /\ pipe'[a].asked = pipe[a].asked /\ pipe'[a].box = pipe[a].box
        /\ pipe'[a].amiss = pipe[a].amiss \cup {u}
        /\ pipe'[a].retry = pipe[a].retry /\ pipe'[a].queue = pipe[a].queue \ {u}
    BY <2>1, <2>2 DEF Pipeline
  <2>4. Settled(a) \ {} \subseteq Settled(a)' /\ u \in Settled(a)'
    BY <2>3, SettledKept DEF Settled
  <2>5. InHand(a)' = InHand(a)
    BY <2>2 DEF InHand
  <2> QED
    BY <2>1, <2>3, <2>4, <2>5 DEF Whole
<1>3. ASSUME NEW b \in Boxes, NEW u \in Uids, Fetched(a, b, u) \/ FetchFails(a, b, u)
      PROVE  Whole(a)'
  <2>0. <<"fetch", b, u>> \in WorkerState /\ <<"loop", b>> \in WorkerState
        /\ <<"fetch", b, u>> # <<"loop", b>>
        /\ \A c \in Boxes, v \in Uids : <<"fetch", c, v>> \in WorkerState
                                         /\ <<"fetch", c, v>> # <<"loop", b>>
    BY States
  <2>1. pipe[a] \in Pipeline /\ Live(a) /\ workers[a][<<"fetch", b, u>>] > 0
    BY <1>3, <1>l, <2>0 DEF Fetched, FetchFails
  <2>2. workers'[a] = Moves(workers[a], <<"fetch", b, u>>, <<"loop", b>>)
    BY <1>3, <1>t DEF Fetched, FetchFails
  <2>3. \A v \in InHand(a) : v # u => v \in InHand(a)'
    <3>1. ASSUME NEW c \in Boxes, NEW v \in Uids, v # u, workers[a][<<"fetch", c, v>>] > 0
          PROVE  workers'[a][<<"fetch", c, v>>] > 0
      <4>1. <<"fetch", c, v>> \in WorkerState \ {<<"fetch", b, u>>, <<"loop", b>>}
        BY <2>0, <3>1, States
      <4> QED
        BY <1>l, <2>0, <2>1, <2>2, <3>1, <4>1, MovesType
    <3> QED
      BY <3>1 DEF InHand
  <2>4. CASE Fetched(a, b, u)
    <3>1. PICK kept \in BOOLEAN :
            /\ kept => stored' = stored \cup {<<a, b, u>>}
            /\ pipe'[a] = [pipe[a] EXCEPT
                             !.amiss = IF kept /\ b = pipe[a].box THEN @ ELSE @ \cup {u}]
      BY <1>t, <2>4 DEF Fetched
    <3>2. /\ pipe'[a].asked = pipe[a].asked /\ pipe'[a].box = pipe[a].box
          /\ pipe'[a].amiss = IF kept /\ b = pipe[a].box THEN pipe[a].amiss
                               ELSE pipe[a].amiss \cup {u}
          /\ pipe'[a].retry = pipe[a].retry /\ pipe'[a].queue = pipe[a].queue
      BY <2>1, <3>1 DEF Pipeline
    <3>3. u \in Settled(a)'
      BY <3>1, <3>2 DEF Settled
    <3>4. Settled(a) \ {} \subseteq Settled(a)'
      <4>1. pipe[a].amiss \ {} \subseteq pipe'[a].amiss
        BY <3>2
      <4> QED
        BY <3>2, <4>1, SettledKept
    <3> QED
      BY <2>1, <2>3, <3>2, <3>3, <3>4 DEF Whole
  <2>5. CASE FetchFails(a, b, u)
    <3>1. pipe'[a] = [pipe[a] EXCEPT !.retry = @ \cup {u}, !.amiss = @ \ {u}]
      BY <1>t, <2>5 DEF FetchFails
    <3>2. /\ pipe'[a].asked = pipe[a].asked /\ pipe'[a].box = pipe[a].box
          /\ pipe'[a].amiss = pipe[a].amiss \ {u}
          /\ pipe'[a].retry = pipe[a].retry \cup {u} /\ pipe'[a].queue = pipe[a].queue
      BY <2>1, <3>1 DEF Pipeline
    <3>3. Settled(a) \ {u} \subseteq Settled(a)'
      BY <3>2, SettledKept
    <3> QED
      BY <2>1, <2>3, <3>2, <3>3 DEF Whole
  <2> QED
    BY <1>3, <2>4, <2>5
<1>4. ASSUME NEW b \in Boxes, SlotEnds(a, b) PROVE Whole(a)'
  <2>0. <<"loop", b>> \in WorkerState
        /\ \A c \in Boxes, u \in Uids : <<"fetch", c, u>> \in WorkerState
                                         /\ <<"fetch", c, u>> # <<"loop", b>>
    BY FetchStates
  <2>1. pipe[a] \in Pipeline /\ Live(a) /\ workers[a][<<"loop", b>>] > 0
    BY <1>4, <1>l, <2>0 DEF SlotEnds
  <2>2. workers'[a] = [workers[a] EXCEPT ![<<"loop", b>>] = @ - 1]
    BY <1>4, <1>t DEF SlotEnds
  <2>3. InHand(a)' = InHand(a)
    BY <1>l, <2>0, <2>2, HandKept
  <2>4. /\ pipe'[a].asked = pipe[a].asked /\ pipe'[a].box = pipe[a].box
        /\ pipe'[a].amiss = pipe[a].amiss
        /\ pipe'[a].retry = pipe[a].retry /\ pipe'[a].queue = pipe[a].queue
    <3> DEFINE p == [pipe[a] EXCEPT !.slots = @ - 1]
    <3>1. PICK x \in BOOLEAN, y \in BOOLEAN :
            \/ pipe'[a] = p
            \/ pipe'[a] = [p EXCEPT !.timer = b]
            \/ pipe'[a] = [p EXCEPT !.phase = "done", !.loaded = {}, !.finishing = x, !.hooked = y]
      <4>1. /\ (pipe[a].finishing \/ a = active) \in BOOLEAN
            /\ (pipe[a].hooked /\ a = active) \in BOOLEAN
        OBVIOUS
      <4>2. p.finishing = pipe[a].finishing /\ p.hooked = pipe[a].hooked
        BY <2>1 DEF Pipeline
      <4>3. \/ pipe'[a] = p
            \/ pipe'[a] = [p EXCEPT !.timer = b]
            \/ pipe'[a] = [p EXCEPT !.phase = "done", !.loaded = {},
                                    !.finishing = @ \/ a = active,
                                    !.hooked = @ /\ a = active]
        BY <1>4, <1>t DEF SlotEnds
      <4> HIDE DEF p
      <4> QED
        BY <4>1, <4>2, <4>3
    <3>2. p \in Pipeline /\ p.asked = pipe[a].asked /\ p.box = pipe[a].box
          /\ p.amiss = pipe[a].amiss
          /\ p.retry = pipe[a].retry /\ p.queue = pipe[a].queue
      BY <2>1 DEF Pipeline
    <3> HIDE DEF p
    <3> QED
      BY <3>1, <3>2 DEF Pipeline
  <2>5. Settled(a) \ {} \subseteq Settled(a)'
    BY <2>4, SettledKept
  <2> QED
    BY <2>1, <2>3, <2>4, <2>5 DEF Whole
<1>5. CASE RetryFires(a)
  <2>1. pipe[a] \in Pipeline /\ Live(a) /\ pipe[a].timer \in Boxes /\ pipe[a].conc \in Nat
    BY <1>5, <1>l, CascadeAssumption DEF RetryFires, Pipeline
  <2>2. \A c \in Boxes, u \in Uids :
           workers'[a][<<"fetch", c, u>>] = workers[a][<<"fetch", c, u>>]
    <3> DEFINE p == [pipe[a] EXCEPT !.timer = None]
    <3>1. p.conc = pipe[a].conc
      BY <2>1 DEF Pipeline
    <3>2. \/ workers'[a] = workers[a]
          \/ workers'[a] = Launches(workers[a], pipe[a].conc, pipe[a].timer)
      BY <1>5, <1>t, <3>1 DEF RetryFires
    <3>3. \A c \in Boxes, u \in Uids :
             <<"fetch", c, u>> \in WorkerState \ {<<"waiting", pipe[a].timer>>}
      BY <2>1, States
    <3>4. \A s \in WorkerState \ {<<"waiting", pipe[a].timer>>} :
             Launches(workers[a], pipe[a].conc, pipe[a].timer)[s] = workers[a][s]
      BY <1>l, <2>1, LaunchesType
    <3> QED
      BY <3>2, <3>3, <3>4
  <2>3. InHand(a)' = InHand(a)
    BY <2>2, HandKept
  <2>4. /\ pipe'[a].asked = pipe[a].asked /\ pipe'[a].box = pipe[a].box
        /\ pipe'[a].amiss = pipe[a].amiss
        /\ pipe'[a].retry \cup pipe'[a].queue = pipe[a].retry \cup pipe[a].queue
    <3> DEFINE p == [pipe[a] EXCEPT !.timer = None]
    <3>1. /\ p \in Pipeline /\ p.asked = pipe[a].asked /\ p.box = pipe[a].box
          /\ p.amiss = pipe[a].amiss
          /\ p.retry = pipe[a].retry /\ p.queue = pipe[a].queue
      BY <2>1 DEF Pipeline
    <3>2. \/ pipe'[a] = p
          \/ pipe'[a] = [p EXCEPT !.queue = @ \cup p.retry, !.retry = {}]
      BY <1>5, <1>t, <2>1 DEF RetryFires
    <3> HIDE DEF p
    <3> QED
      BY <3>1, <3>2 DEF Pipeline
  <2>5. Settled(a) \ {} \subseteq Settled(a)'
    BY <2>4, SettledKept
  <2> QED
    BY <2>1, <2>3, <2>4, <2>5 DEF Whole
<1> QED
  BY <1>1, <1>2, <1>3, <1>4, <1>5, <1>6 DEF Slots

(* No body a content run was started with is lost, whatever pauses,        *)
(* resumes, restarts, failures and retries come: it is in the vault under  *)
(* that mailbox, queued, set aside, in a worker's hand, or amiss in one of *)
(* the three ways NothingLost names.                                       *)
THEOREM NothingIsLost == Spec => []NothingLost
<1>1. Init => NothingLost
  BY DEF Init, NothingLost, Live
<1>2. TypeInv /\ NothingLost /\ [Next]_vars => NothingLost'
  <2> SUFFICES ASSUME TypeInv, NothingLost, [Next]_vars, NEW a \in Accounts PROVE Whole(a)'
    BY DEF NothingLost, Whole
  <2>1. Whole(a) /\ stored \subseteq stored'
    BY StoredGrows DEF NothingLost, Whole
  <2>2. CASE Same(a)
    BY <2>1, <2>2, KindKeepsWhole DEF Kind
  <2> QED
    BY <2>1, <2>2, NextKinds, KindKeepsWhole, SlotsKeepWhole
<1> QED
  BY <1>1, <1>2, InitType, NextType, PTL DEF Spec


-----------------------------------------------------------------------------
(* The count of slots.  The crew is the worker loops that have started:    *)
(* one element for each of them.                                           *)

CrewOf(w) == {m \in Busy \X Nat : 1 <= m[2] /\ m[2] <= w[m[1]]}

LEMMA CrewUp ==
    ASSUME NEW w \in [WorkerState -> Nat], NEW v \in [WorkerState -> Nat], NEW s \in Busy,
           v[s] = w[s] + 1, \A r \in Busy \ {s} : v[r] = w[r], IsFiniteSet(CrewOf(w))
    PROVE  /\ IsFiniteSet(CrewOf(v))
           /\ Cardinality(CrewOf(v)) = Cardinality(CrewOf(w)) + 1
<1>1. w[s] \in Nat /\ s \in WorkerState
  BY DEF Busy
<1> DEFINE m == <<s, w[s] + 1>>
<1>2. m \notin CrewOf(w)
  BY <1>1 DEF CrewOf
<1>3. CrewOf(v) = CrewOf(w) \cup {m}
  <2>1. ASSUME NEW r \in Busy, NEW k \in Nat
        PROVE  (1 <= k /\ k <= v[r]) <=> ((1 <= k /\ k <= w[r]) \/ (r = s /\ k = w[s] + 1))
    <3>1. w[r] \in Nat
      BY DEF Busy
    <3>2. CASE r = s
      BY <1>1, <3>2
    <3>3. CASE r # s
      BY <3>1, <3>3
    <3> QED
      BY <3>2, <3>3
  <2>2. m \in Busy \X Nat
    BY <1>1
  <2>3. \A x \in Busy \X Nat : x \in CrewOf(v) <=> x \in CrewOf(w) \/ x = m
    <3>1. SUFFICES ASSUME NEW r \in Busy, NEW k \in Nat
                   PROVE  <<r, k>> \in CrewOf(v) <=> <<r, k>> \in CrewOf(w) \/ <<r, k>> = m
      OBVIOUS
    <3>2. <<r, k>> = m <=> r = s /\ k = w[s] + 1
      OBVIOUS
    <3>3. /\ <<r, k>> \in CrewOf(v) <=> 1 <= k /\ k <= v[r]
          /\ <<r, k>> \in CrewOf(w) <=> 1 <= k /\ k <= w[r]
      BY DEF CrewOf
    <3> HIDE DEF m
    <3> QED
      BY <2>1, <3>2, <3>3
  <2>4. CrewOf(v) \subseteq Busy \X Nat /\ CrewOf(w) \subseteq Busy \X Nat
    BY DEF CrewOf
  <2> HIDE DEF m
  <2> QED
    BY <2>2, <2>3, <2>4
<1> HIDE DEF m
<1> QED
  BY <1>2, <1>3, FS_AddElement

LEMMA CrewDown ==
    ASSUME NEW w \in [WorkerState -> Nat], NEW v \in [WorkerState -> Nat], NEW s \in Busy,
           v[s] + 1 = w[s], \A r \in Busy \ {s} : v[r] = w[r], IsFiniteSet(CrewOf(w))
    PROVE  /\ IsFiniteSet(CrewOf(v))
           /\ Cardinality(CrewOf(v)) = Cardinality(CrewOf(w)) - 1
<1>1. CrewOf(v) \subseteq CrewOf(w)
  <2>1. \A r \in Busy : v[r] \in Nat /\ w[r] \in Nat /\ v[r] <= w[r]
    BY DEF Busy
  <2>2. SUFFICES ASSUME NEW r \in Busy, NEW k \in Nat, <<r, k>> \in CrewOf(v)
                 PROVE  <<r, k>> \in CrewOf(w)
    BY DEF CrewOf
  <2> QED
    BY <2>1, <2>2 DEF CrewOf
<1>2. IsFiniteSet(CrewOf(v))
  BY <1>1, FS_Subset
<1>3. \A r \in Busy \ {s} : w[r] = v[r]
  OBVIOUS
<1>4. w[s] = v[s] + 1
  OBVIOUS
<1>5. Cardinality(CrewOf(w)) = Cardinality(CrewOf(v)) + 1
  BY <1>2, <1>3, <1>4, CrewUp
<1>6. Cardinality(CrewOf(v)) \in Nat
  BY <1>2, FS_CardinalityType
<1> QED
  BY <1>2, <1>5, <1>6

LEMMA CrewMoves ==
    ASSUME NEW w \in [WorkerState -> Nat], NEW from \in Busy, NEW to \in Busy, from # to,
           w[from] > 0, IsFiniteSet(CrewOf(w))
    PROVE  /\ IsFiniteSet(CrewOf(Moves(w, from, to)))
           /\ Cardinality(CrewOf(Moves(w, from, to))) = Cardinality(CrewOf(w))
<1> DEFINE u == [w EXCEPT ![from] = @ - 1]
           v == Moves(w, from, to)
<1>0. from \in WorkerState /\ to \in WorkerState
  BY DEF Busy
<1>1. /\ u \in [WorkerState -> Nat] /\ u[from] + 1 = w[from]
      /\ \A r \in Busy \ {from} : u[r] = w[r]
  BY <1>0 DEF Busy
<1>2. /\ v \in [WorkerState -> Nat] /\ v[to] = w[to] + 1 /\ v[from] = w[from] - 1
      /\ \A r \in WorkerState \ {from, to} : v[r] = w[r]
  BY <1>0, MovesType
<1>3. v[to] = u[to] + 1 /\ \A r \in Busy \ {to} : v[r] = u[r]
  <2>1. v[to] = u[to] + 1
    BY <1>1, <1>2
  <2>2. ASSUME NEW r \in Busy \ {to} PROVE v[r] = u[r]
    <3>1. CASE r = from
      BY <1>0, <1>2, <3>1
    <3>2. CASE r # from
      BY <1>1, <1>2, <3>2 DEF Busy
    <3> QED
      BY <3>1, <3>2
  <2> QED
    BY <2>1, <2>2
<1> HIDE DEF u, v
<1>4. IsFiniteSet(CrewOf(u)) /\ Cardinality(CrewOf(u)) = Cardinality(CrewOf(w)) - 1
  BY <1>1, CrewDown
<1>5. IsFiniteSet(CrewOf(v)) /\ Cardinality(CrewOf(v)) = Cardinality(CrewOf(u)) + 1
  BY <1>1, <1>2, <1>3, <1>4, CrewUp
<1>6. Cardinality(CrewOf(w)) \in Nat
  BY FS_CardinalityType
<1> QED
  BY <1>4, <1>5, <1>6 DEF v

LEMMA CrewSame ==
    ASSUME NEW w, NEW v, \A r \in Busy : v[r] = w[r]
    PROVE  CrewOf(v) = CrewOf(w)
  BY DEF CrewOf

LEMMA CrewNone ==
    ASSUME NEW w \in [WorkerState -> Nat]
    PROVE  /\ (\A s \in Busy : w[s] = 0) => CrewOf(w) = {}
           /\ IsFiniteSet(CrewOf(w)) /\ Cardinality(CrewOf(w)) # 0
                => \E s \in WorkerState : w[s] > 0
<1>1. ASSUME \A s \in Busy : w[s] = 0 PROVE CrewOf(w) = {}
  BY <1>1 DEF CrewOf
<1>2. ASSUME IsFiniteSet(CrewOf(w)), Cardinality(CrewOf(w)) # 0
      PROVE  \E s \in WorkerState : w[s] > 0
  <2>1. CrewOf(w) # {}
    BY <1>2, FS_EmptySet
  <2>2. PICK s \in Busy : w[s] # 0
    BY <1>1, <2>1
  <2>3. s \in WorkerState /\ w[s] \in Nat
    BY DEF Busy
  <2> QED
    BY <2>2, <2>3
<1> QED
  BY <1>1, <1>2


(* A slot ends: the run is through, its retry is scheduled, or neither.    *)
LEMMA EndEffect ==
    ASSUME TypeInv, NEW a \in Accounts, NEW b \in Boxes, SlotEnds(a, b)
    PROVE  /\ Live(a) /\ pipe[a] \in Pipeline /\ pipe'[a] \in Pipeline
           /\ workers[a][<<"loop", b>>] > 0
           /\ workers'[a] = [workers[a] EXCEPT ![<<"loop", b>>] = @ - 1]
           /\ pipe[a].paused \/ pipe[a].queue = {}
           /\ pipe'[a].slots = pipe[a].slots - 1 /\ pipe'[a].conc = pipe[a].conc
           /\ pipe'[a].queue = pipe[a].queue /\ pipe'[a].retry = pipe[a].retry
           /\ pipe'[a].asked = pipe[a].asked /\ pipe'[a].box = pipe[a].box
           /\ pipe'[a].amiss = pipe[a].amiss /\ pipe'[a].over = pipe[a].over
           /\ \/ /\ pipe'[a].slots = 0 /\ pipe[a].queue = {} /\ pipe[a].retry = {}
                 /\ pipe'[a].phase = "done" /\ pipe'[a].timer = pipe[a].timer
                 /\ a # active => /\ pipe'[a].finishing = pipe[a].finishing
                                  /\ cascade' = Wakes(cascade, a)
                 /\ a = active => cascade' = cascade
              \/ /\ pipe'[a].slots = 0 /\ pipe[a].queue = {} /\ pipe[a].retry # {}
                 /\ pipe[a].timer = None /\ pipe'[a].timer = b
                 /\ pipe'[a].phase = pipe[a].phase /\ pipe'[a].finishing = pipe[a].finishing
                 /\ cascade' = cascade
              \/ /\ pipe'[a] = [pipe[a] EXCEPT !.slots = @ - 1] /\ cascade' = cascade
                 /\ pipe'[a].slots = 0 /\ pipe[a].queue = {} =>
                      pipe[a].retry # {} /\ pipe[a].timer # None
<1> DEFINE p == [pipe[a] EXCEPT !.slots = @ - 1]
           finishes == p.slots = 0 /\ Through(p)
           retries == p.slots = 0 /\ p.queue = {} /\ p.retry # {} /\ p.timer = None
           finished == [p EXCEPT !.phase = "done", !.loaded = {},
                                 !.finishing = @ \/ a = active,
                                 !.hooked = @ /\ a = active]
<1>t. pipe \in [Accounts -> Pipeline \cup {None}] /\ workers \in [Accounts -> [WorkerState -> Nat]]
  BY DEF TypeInv, TypeOK
<1>1. /\ workers[a][<<"loop", b>>] > 0 /\ (pipe[a].paused \/ pipe[a].queue = {})
      /\ workers'[a] = [workers[a] EXCEPT ![<<"loop", b>>] = @ - 1]
  BY <1>t DEF SlotEnds
<1>2. Live(a) /\ pipe[a] \in Pipeline
  <2>1. <<"loop", b>> \in WorkerState
    BY DEF WorkerState
  <2> QED
    BY <1>1, <2>1, LivePipe DEF Working
<1>3. /\ p \in Pipeline /\ p.slots = pipe[a].slots - 1 /\ p.conc = pipe[a].conc
      /\ p.queue = pipe[a].queue /\ p.retry = pipe[a].retry /\ p.timer = pipe[a].timer
      /\ p.asked = pipe[a].asked /\ p.box = pipe[a].box
      /\ p.amiss = pipe[a].amiss /\ p.over = pipe[a].over
      /\ p.phase = pipe[a].phase /\ p.finishing = pipe[a].finishing
  BY <1>2 DEF Pipeline
<1>4. /\ pipe'[a] = IF finishes THEN finished
                    ELSE IF retries THEN [p EXCEPT !.timer = b] ELSE p
      /\ cascade' = IF finishes /\ a # active THEN Wakes(cascade, a) ELSE cascade
  BY <1>t DEF SlotEnds
<1>p. p = [pipe[a] EXCEPT !.slots = @ - 1]
  OBVIOUS
<1> HIDE DEF p
<1>5. CASE finishes
  <2> DEFINE x == p.finishing \/ a = active
             y == p.hooked /\ a = active
  <2>1. finished = [p EXCEPT !.phase = "done", !.loaded = {}, !.finishing = x, !.hooked = y]
    OBVIOUS
  <2>2. x \in BOOLEAN /\ y \in BOOLEAN /\ (a # active => x = p.finishing)
    BY <1>3 DEF Pipeline
  <2> HIDE DEF x, y, finished
  <2>3. /\ finished \in Pipeline /\ finished.slots = p.slots /\ finished.conc = p.conc
        /\ finished.queue = p.queue /\ finished.retry = p.retry /\ finished.asked = p.asked
        /\ finished.box = p.box /\ finished.amiss = p.amiss /\ finished.over = p.over /\ finished.timer = p.timer
        /\ finished.phase = "done" /\ finished.finishing = x
    BY <1>3, <2>1, <2>2 DEF Pipeline
  <2>4. pipe'[a] = finished
    BY <1>4, <1>5
  <2> QED
    BY <1>1, <1>2, <1>3, <1>4, <1>5, <2>2, <2>3, <2>4 DEF Through
<1>6. CASE ~finishes /\ retries
  <2> DEFINE q == [p EXCEPT !.timer = b]
  <2>1. /\ q \in Pipeline /\ q.slots = p.slots /\ q.conc = p.conc
        /\ q.queue = p.queue /\ q.retry = p.retry /\ q.asked = p.asked
        /\ q.box = p.box /\ q.amiss = p.amiss /\ q.over = p.over /\ q.timer = b
        /\ q.phase = p.phase /\ q.finishing = p.finishing
    BY <1>3 DEF Pipeline
  <2>2. pipe'[a] = q /\ cascade' = cascade
    BY <1>4, <1>6
  <2> HIDE DEF q
  <2> QED
    BY <1>1, <1>2, <1>3, <1>6, <2>1, <2>2
<1>7. CASE ~finishes /\ ~retries
  <2>1. pipe'[a] = p /\ cascade' = cascade
    BY <1>4, <1>7
  <2> QED
    BY <1>1, <1>2, <1>3, <1>7, <1>p, <2>1 DEF Through
<1> QED
  BY <1>5, <1>6, <1>7

-----------------------------------------------------------------------------
(* A content run carries on.                                               *)

\* The slots a pipeline counts are its crew, unless a run was started over one.
Counted(a) == Live(a) /\ ~pipe[a].over =>
    IsFiniteSet(CrewOf(workers[a])) /\ pipe[a].slots = Cardinality(CrewOf(workers[a]))

\* With work left there is a worker, a timer, or a pause that resume ends.
Carries(a) == Live(a) /\ pipe[a].phase = "content" /\ ~pipe[a].over
                 /\ pipe[a].queue \cup pipe[a].retry # {} =>
    Working(a) \/ pipe[a].timer # None \/ (pipe[a].paused /\ pipe[a].queue # {})

Runs(a) == Counted(a) /\ Carries(a)

LEMMA KindRuns ==
    ASSUME TypeInv, NEW a \in Accounts, Kind(a), Runs(a)
    PROVE  Runs(a)'
<1>t. workers[a] \in [WorkerState -> Nat] /\ (Live(a) => pipe[a] \in Pipeline)
  BY LivePipe
<1>1. CASE Same(a)
  BY <1>1 DEF Same, Runs, Counted, Carries, Live, Working
<1>2. CASE Kept(a)
  <2>1. /\ workers'[a] = workers[a] /\ pipe'[a].over = pipe[a].over
        /\ pipe'[a].slots = pipe[a].slots /\ pipe'[a].queue = pipe[a].queue
        /\ pipe'[a].retry = pipe[a].retry /\ pipe'[a].timer = pipe[a].timer /\ Live(a)
        /\ pipe'[a].phase = "content" =>
             pipe[a].phase = "content" /\ (pipe[a].paused => pipe'[a].paused)
    BY <1>2 DEF Kept, KeepsWork
  <2>2. Counted(a)'
    BY <2>1 DEF Runs, Counted
  <2>3. Carries(a)'
    <3>1. Working(a)' <=> Working(a)
      BY <2>1 DEF Working
    <3> QED
      BY <2>1, <3>1 DEF Runs, Carries
  <2> QED
    BY <2>2, <2>3 DEF Runs
<1>3. CASE Back(a)
  <2>1. PICK b \in Boxes :
          workers'[a] = Launches(workers[a],
                                 Relaunched([pipe[a] EXCEPT !.conc = pipe'[a].conc]), b)
    BY <1>3 DEF Back
  <2> DEFINE q == [pipe[a] EXCEPT !.conc = pipe'[a].conc]
             n == Relaunched(q)
  <2>2. pipe[a] \in Pipeline /\ pipe'[a] \in Pipeline /\ pipe'[a].conc \in 1 .. MaxSlots
    BY <1>3, <1>t DEF Back, KeepsWork, Pipeline
  <2>3. /\ q \in Pipeline /\ q.paused = pipe[a].paused /\ q.phase = pipe[a].phase
        /\ q.slots = pipe[a].slots /\ q.queue = pipe[a].queue /\ q.conc = pipe'[a].conc
    BY <2>2 DEF Pipeline
  <2>4. workers'[a] = Launches(workers[a], n, b)
    BY <2>1
  <2> HIDE DEF q
  <2>5. n \in Nat /\ (q.paused /\ q.phase = "content" /\ q.conc > q.slots /\ q.queue # {} => n > 0)
    BY <2>3, RelaunchedType, Zenon
  <2> HIDE DEF n
  <2>6. /\ workers'[a] \in [WorkerState -> Nat]
        /\ \A s \in Busy : workers'[a][s] = workers[a][s]
        /\ \A s \in WorkerState : workers[a][s] > 0 => workers'[a][s] > 0
        /\ n > 0 => \E s \in WorkerState : workers'[a][s] > 0
    <3> DEFINE w == Launches(workers[a], n, b)
    <3>1. /\ w \in [WorkerState -> Nat] /\ w[<<"waiting", b>>] = workers[a][<<"waiting", b>>] + n
          /\ \A s \in WorkerState \ {<<"waiting", b>>} : w[s] = workers[a][s]
      BY <1>t, <2>5, LaunchesType, Zenon
    <3> HIDE DEF w
    <3>2. w = workers'[a]
      BY <2>4 DEF w
    <3>3. <<"waiting", b>> \in WorkerState /\ workers[a][<<"waiting", b>>] \in Nat
      BY <1>t DEF WorkerState
    <3>4. \A s \in Busy : w[s] = workers[a][s]
      BY <3>1 DEF Busy
    <3>5. \A s \in WorkerState : workers[a][s] > 0 => w[s] > 0
      BY <3>1, <3>3, <2>5
    <3>6. n > 0 => \E s \in WorkerState : w[s] > 0
      BY <3>1, <3>3, <2>5
    <3> QED
      BY <3>1, <3>2, <3>4, <3>5, <3>6
  <2>7. /\ Live(a) /\ pipe'[a].over = pipe[a].over /\ pipe'[a].slots = pipe[a].slots
        /\ pipe'[a].queue = pipe[a].queue /\ pipe'[a].retry = pipe[a].retry
        /\ pipe'[a].timer = pipe[a].timer /\ pipe'[a].phase = pipe[a].phase
    BY <1>3 DEF Back, KeepsWork
  <2>8. CrewOf(workers'[a]) = CrewOf(workers[a])
    BY <2>6, CrewSame
  <2>9. Counted(a)'
    BY <2>7, <2>8 DEF Runs, Counted
  <2>10. Carries(a)'
    <3> SUFFICES ASSUME pipe'[a].phase = "content", ~pipe'[a].over,
                        pipe'[a].queue \cup pipe'[a].retry # {}, pipe'[a].timer = None
                 PROVE  Working(a)'
      BY DEF Carries
    <3>1. Working(a) \/ (pipe[a].paused /\ pipe[a].queue # {})
      BY <2>7 DEF Runs, Carries
    <3>2. CASE Working(a)
      BY <2>6, <3>2 DEF Working
    <3>3. CASE ~Working(a) /\ pipe[a].paused /\ pipe[a].queue # {}
      <4>1. \A s \in Busy : workers[a][s] = 0
        <5>1. ASSUME NEW s \in Busy PROVE workers[a][s] = 0
          <6>1. s \in WorkerState /\ workers[a][s] \in Nat
            BY <1>t DEF Busy
          <6> QED
            BY <3>3, <6>1 DEF Working
        <5> QED
          BY <5>1
      <4>2. CrewOf(workers[a]) = {}
        BY <1>t, <4>1, CrewNone
      <4>3. pipe[a].slots = 0
        BY <2>7, <4>2, FS_EmptySet DEF Runs, Counted
      <4>4. q.conc > q.slots
        BY <2>2, <2>3, <4>3
      <4>5. n > 0
        BY <2>3, <2>5, <2>7, <3>3, <4>4
      <4> QED
        BY <2>6, <4>5 DEF Working
    <3> QED
      BY <3>1, <3>2, <3>3
  <2> QED
    BY <2>9, <2>10 DEF Runs
<1>4. CASE Fresh(a)
  <2>1. /\ pipe'[a].queue = {} /\ pipe'[a].retry = {} /\ pipe'[a].slots = 0
        /\ workers'[a] = NoWorkers
    BY <1>4 DEF Fresh, NewPipe
  <2>2. \A s \in Busy : NoWorkers[s] = 0
    BY DEF Busy, NoWorkers
  <2>3. CrewOf(workers'[a]) = {}
    BY <2>1, <2>2, NoWorkersType, CrewNone
  <2> QED
    BY <2>1, <2>3, FS_EmptySet DEF Runs, Counted, Carries
<1>5. CASE Begun(a)
  <2>1. /\ pipe'[a].slots = 0 /\ workers'[a] \in [WorkerState -> Nat] /\ Working(a)'
        /\ ~pipe'[a].over => \A s \in Busy : workers'[a][s] = 0
    BY <1>5 DEF Begun
  <2>2. ~pipe'[a].over => CrewOf(workers'[a]) = {}
    BY <2>1, CrewNone
  <2> QED
    BY <2>1, <2>2, FS_EmptySet DEF Runs, Counted, Carries
<1> QED
  BY <1>1, <1>2, <1>3, <1>4, <1>5 DEF Kind


LEMMA SlotsRun ==
    ASSUME TypeInv, NEW a \in Accounts, Slots(a) \/ RetryFires(a), Runs(a)
    PROVE  Runs(a)'
<1>t. /\ pipe \in [Accounts -> Pipeline \cup {None}]
      /\ workers \in [Accounts -> [WorkerState -> Nat]]
  BY DEF TypeInv, TypeOK
<1>l. /\ \A s \in WorkerState : workers[a][s] > 0 => pipe[a] \in Pipeline /\ Live(a)
      /\ Live(a) => pipe[a] \in Pipeline
      /\ workers[a] \in [WorkerState -> Nat]
  BY LivePipe DEF Working
<1>b. /\ \A b \in Boxes : <<"loop", b>> \in Busy /\ <<"loop", b>> \in WorkerState
      /\ \A b \in Boxes, u \in Uids : <<"fetch", b, u>> \in Busy
                                       /\ <<"fetch", b, u>> \in WorkerState
      /\ \A b \in Boxes : <<"waiting", b>> \in WorkerState /\ <<"waiting", b>> \notin Busy
  <2>1. \A b, c \in Boxes : <<"loop", b>> # <<"waiting", c>>
    OBVIOUS
  <2> QED
    BY <2>1, FetchStates DEF Busy
<1>w. ASSUME \E s \in WorkerState : workers'[a][s] > 0, Counted(a)' PROVE Runs(a)'
  BY <1>w DEF Runs, Carries, Working
<1>1. ASSUME NEW b \in Boxes, SlotStarts(a, b) PROVE Runs(a)'
  <2> DEFINE w == Moves(workers[a], <<"waiting", b>>, <<"loop", b>>)
  <2>1. pipe[a] \in Pipeline /\ Live(a) /\ workers[a][<<"waiting", b>>] > 0
    BY <1>1, <1>l, <1>b DEF SlotStarts
  <2>2. workers'[a] = w /\ pipe'[a] = [pipe[a] EXCEPT !.slots = @ + 1]
    BY <1>1, <1>t DEF SlotStarts
  <2>3. /\ w \in [WorkerState -> Nat] /\ w[<<"loop", b>>] = workers[a][<<"loop", b>>] + 1
        /\ \A s \in WorkerState \ {<<"waiting", b>>, <<"loop", b>>} : w[s] = workers[a][s]
    <3>1. /\ <<"waiting", b>> \in WorkerState /\ <<"loop", b>> \in WorkerState
          /\ <<"waiting", b>> # <<"loop", b>>
      BY FetchStates
    <3> QED
      BY <1>l, <2>1, <3>1, MovesType, Zenon
  <2> HIDE DEF w
  <2>4. \A s \in Busy \ {<<"loop", b>>} : w[s] = workers[a][s]
    BY <1>b, <2>3 DEF Busy
  <2>5. Counted(a)'
    <3>1. pipe'[a].over = pipe[a].over /\ pipe'[a].slots = pipe[a].slots + 1
      BY <2>1, <2>2 DEF Pipeline
    <3> SUFFICES ASSUME ~pipe[a].over
                 PROVE  /\ IsFiniteSet(CrewOf(w))
                        /\ pipe[a].slots + 1 = Cardinality(CrewOf(w))
      BY <2>2, <3>1 DEF Counted
    <3>2. IsFiniteSet(CrewOf(workers[a])) /\ pipe[a].slots = Cardinality(CrewOf(workers[a]))
      BY <2>1 DEF Runs, Counted
    <3>3. /\ IsFiniteSet(CrewOf(w))
          /\ Cardinality(CrewOf(w)) = Cardinality(CrewOf(workers[a])) + 1
      BY <1>l, <1>b, <2>3, <2>4, <3>2, CrewUp
    <3> QED
      BY <3>2, <3>3
  <2>6. w[<<"loop", b>>] > 0
    <3>1. workers[a][<<"loop", b>>] \in Nat
      BY <1>b, <1>l
    <3> QED
      BY <2>3, <3>1
  <2> QED
    BY <1>w, <1>b, <2>2, <2>5, <2>6
<1>2. ASSUME NEW from \in Busy, NEW to \in Busy, from # to, workers[a][from] > 0,
             workers'[a] = Moves(workers[a], from, to),
             Live(a), pipe'[a].over = pipe[a].over, pipe'[a].slots = pipe[a].slots
      PROVE  Runs(a)'
  <2>1. from \in WorkerState /\ to \in WorkerState
    BY DEF Busy
  <2>2. workers'[a][to] = workers[a][to] + 1 /\ workers[a][to] \in Nat
    BY <1>2, <1>l, <2>1, MovesType
  <2>3. Counted(a)'
    <3> SUFFICES ASSUME ~pipe[a].over
                 PROVE  /\ IsFiniteSet(CrewOf(Moves(workers[a], from, to)))
                        /\ pipe[a].slots = Cardinality(CrewOf(Moves(workers[a], from, to)))
      BY <1>2 DEF Counted
    <3>2. IsFiniteSet(CrewOf(workers[a])) /\ pipe[a].slots = Cardinality(CrewOf(workers[a]))
      BY <1>2 DEF Runs, Counted
    <3> QED
      BY <1>2, <1>l, <3>2, CrewMoves
  <2>4. workers'[a][to] > 0
    BY <2>2
  <2> QED
    BY <1>w, <2>1, <2>3, <2>4
<1>3. ASSUME NEW b \in Boxes, NEW u \in Uids, TakesNext(a, b, u) PROVE Runs(a)'
  <2>1. pipe[a] \in Pipeline /\ Live(a) /\ workers[a][<<"loop", b>>] > 0
    BY <1>3, <1>l, <1>b DEF TakesNext
  <2>2. /\ workers'[a] = Moves(workers[a], <<"loop", b>>, <<"fetch", b, u>>)
        /\ pipe'[a] = [pipe[a] EXCEPT
                         !.queue = @ \ {u},
                         !.amiss = IF AsAsked(a, b, u) THEN @ \ {u} ELSE @ \cup {u}]
    BY <1>3, <1>t DEF TakesNext
  <2>3. pipe'[a].over = pipe[a].over /\ pipe'[a].slots = pipe[a].slots
    BY <2>1, <2>2 DEF Pipeline
  <2>4. <<"loop", b>> \in Busy /\ <<"fetch", b, u>> \in Busy /\ <<"loop", b>> # <<"fetch", b, u>>
    BY <1>b, FetchStates
  <2> QED
    BY <1>2, <2>1, <2>2, <2>3, <2>4
<1>7. ASSUME NEW b \in Boxes, NEW u \in Uids, Skips(a, b, u) PROVE Runs(a)'
  <2>1. pipe[a] \in Pipeline /\ Live(a) /\ workers[a][<<"loop", b>>] > 0
    BY <1>7, <1>l, <1>b DEF Skips
  <2>2. /\ workers' = workers
        /\ pipe'[a] = [pipe[a] EXCEPT !.queue = @ \ {u}, !.amiss = @ \cup {u}]
    BY <1>7, <1>t DEF Skips
  <2>3. pipe'[a].over = pipe[a].over /\ pipe'[a].slots = pipe[a].slots
    BY <2>1, <2>2 DEF Pipeline
  <2>4. Counted(a)'
    BY <2>1, <2>2, <2>3 DEF Runs, Counted
  <2> QED
    BY <1>w, <1>b, <2>1, <2>2, <2>4
<1>4. ASSUME NEW b \in Boxes, NEW u \in Uids, Fetched(a, b, u) \/ FetchFails(a, b, u)
      PROVE  Runs(a)'
  <2>1. pipe[a] \in Pipeline /\ Live(a) /\ workers[a][<<"fetch", b, u>>] > 0
    BY <1>4, <1>l, <1>b DEF Fetched, FetchFails
  <2>2. /\ workers'[a] = Moves(workers[a], <<"fetch", b, u>>, <<"loop", b>>)
        /\ \/ \E m : pipe'[a] = [pipe[a] EXCEPT !.amiss = m]
           \/ pipe'[a] = [pipe[a] EXCEPT !.retry = @ \cup {u}, !.amiss = @ \ {u}]
    BY <1>4, <1>t DEF Fetched, FetchFails
  <2>3. pipe'[a].over = pipe[a].over /\ pipe'[a].slots = pipe[a].slots
    BY <2>1, <2>2 DEF Pipeline
  <2>4. <<"loop", b>> \in Busy /\ <<"fetch", b, u>> \in Busy /\ <<"loop", b>> # <<"fetch", b, u>>
    BY <1>b, FetchStates
  <2> QED
    BY <1>2, <2>1, <2>2, <2>3, <2>4
<1>5. ASSUME NEW b \in Boxes, SlotEnds(a, b) PROVE Runs(a)'
  <2>1. /\ Live(a) /\ pipe[a] \in Pipeline /\ pipe'[a] \in Pipeline
        /\ workers[a][<<"loop", b>>] > 0
        /\ workers'[a] = [workers[a] EXCEPT ![<<"loop", b>>] = @ - 1]
        /\ pipe[a].paused \/ pipe[a].queue = {}
        /\ pipe'[a].slots = pipe[a].slots - 1
        /\ pipe'[a].queue = pipe[a].queue /\ pipe'[a].retry = pipe[a].retry
        /\ pipe'[a].over = pipe[a].over
    BY <1>5, EndEffect, Zenon
  <2>2. \/ pipe'[a].phase = "done"
        \/ pipe'[a].timer = b
        \/ /\ pipe'[a] = [pipe[a] EXCEPT !.slots = @ - 1]
           /\ pipe'[a].slots = 0 /\ pipe[a].queue = {} =>
                pipe[a].retry # {} /\ pipe[a].timer # None
    BY <1>5, EndEffect, Zenon
  <2>3. Counted(a)'
    <3> DEFINE w == [workers[a] EXCEPT ![<<"loop", b>>] = @ - 1]
    <3> SUFFICES ASSUME ~pipe[a].over
                 PROVE  /\ IsFiniteSet(CrewOf(w))
                        /\ pipe[a].slots - 1 = Cardinality(CrewOf(w))
      BY <2>1 DEF Counted
    <3>1. IsFiniteSet(CrewOf(workers[a])) /\ pipe[a].slots = Cardinality(CrewOf(workers[a]))
      BY <2>1 DEF Runs, Counted
    <3>2. /\ w \in [WorkerState -> Nat] /\ w[<<"loop", b>>] + 1 = workers[a][<<"loop", b>>]
          /\ \A s \in Busy \ {<<"loop", b>>} : w[s] = workers[a][s]
      BY <1>b, <1>l, <2>1 DEF Busy
    <3> HIDE DEF w
    <3> QED
      BY <1>l, <1>b, <3>1, <3>2, CrewDown
  <2>4. Carries(a)'
    <3> SUFFICES ASSUME pipe'[a].phase = "content", ~pipe'[a].over,
                        pipe'[a].queue \cup pipe'[a].retry # {}, pipe'[a].timer = None
                 PROVE  Working(a)' \/ (pipe'[a].paused /\ pipe'[a].queue # {})
      BY DEF Carries
    <3>1. /\ pipe'[a] = [pipe[a] EXCEPT !.slots = @ - 1]
          /\ pipe'[a].slots = 0 /\ pipe[a].queue = {} =>
               pipe[a].retry # {} /\ pipe[a].timer # None
      <4>1. b # None
        BY CascadeAssumption
      <4> QED
        BY <2>2, <4>1
    <3>2. pipe'[a].timer = pipe[a].timer /\ pipe'[a].paused = pipe[a].paused
      BY <2>1, <3>1 DEF Pipeline
    <3>3. CASE pipe'[a].slots = 0
      BY <2>1, <3>1, <3>2, <3>3
    <3>4. CASE pipe'[a].slots # 0
      <4>1. Cardinality(CrewOf(workers'[a])) # 0 /\ IsFiniteSet(CrewOf(workers'[a]))
        <5>1. Live(a)'
          BY <2>1, NoneAssumption DEF Live
        <5> QED
          BY <2>1, <2>3, <3>4, <5>1 DEF Counted
      <4>2. workers'[a] \in [WorkerState -> Nat]
        BY <1>b, <1>l, <2>1
      <4>3. \E s \in WorkerState : workers'[a][s] > 0
        BY <4>1, <4>2, CrewNone
      <4> QED
        BY <4>3 DEF Working
    <3> QED
      BY <3>3, <3>4
  <2> QED
    BY <2>3, <2>4 DEF Runs
<1>6. CASE RetryFires(a)
  <2> DEFINE p == [pipe[a] EXCEPT !.timer = None]
             b == pipe[a].timer
  <2>1. pipe[a] \in Pipeline /\ Live(a) /\ b \in Boxes /\ pipe[a].conc \in Nat \ {0}
    BY <1>6, <1>l, CascadeAssumption DEF RetryFires, Pipeline
  <2>2. /\ p \in Pipeline /\ p.conc = pipe[a].conc /\ p.slots = pipe[a].slots /\ p.over = pipe[a].over
    BY <2>1 DEF Pipeline
  <2>3. \/ /\ p.slots > 0 /\ pipe'[a] = p /\ workers'[a] = workers[a]
        \/ /\ pipe'[a] = [p EXCEPT !.queue = @ \cup p.retry, !.retry = {}]
           /\ workers'[a] = Launches(workers[a], p.conc, b)
    BY <1>6, <1>t DEF RetryFires
  <2> HIDE DEF p, b
  <2>4. pipe'[a].over = pipe[a].over /\ pipe'[a].slots = pipe[a].slots
    BY <2>2, <2>3 DEF Pipeline
  <2>5. CASE p.slots > 0 /\ pipe'[a] = p /\ workers'[a] = workers[a]
    <3>1. Counted(a)'
      BY <2>1, <2>4, <2>5 DEF Runs, Counted
    <3> SUFFICES ASSUME ~pipe[a].over PROVE \E s \in WorkerState : workers[a][s] > 0
      BY <1>w, <2>4, <2>5, <3>1 DEF Runs, Carries
    <3>2. IsFiniteSet(CrewOf(workers[a])) /\ Cardinality(CrewOf(workers[a])) # 0
      BY <2>1, <2>2, <2>5 DEF Runs, Counted
    <3> QED
      BY <1>l, <3>2, CrewNone
  <2>6. CASE workers'[a] = Launches(workers[a], p.conc, b)
    <3>1. /\ \E s \in WorkerState : workers'[a][s] > 0
          /\ \A s \in Busy : workers'[a][s] = workers[a][s]
      <4>1. p.conc \in Nat \ {0}
        BY <2>1, <2>2
      <4> QED
        BY <1>l, <2>1, <2>6, <4>1, LaunchWorks
    <3>2. CrewOf(workers'[a]) = CrewOf(workers[a])
      BY <3>1, CrewSame
    <3>3. Counted(a)'
      BY <2>1, <2>4, <3>2 DEF Runs, Counted
    <3> QED
      BY <1>w, <3>1, <3>3
  <2> QED
    BY <2>3, <2>5, <2>6
<1> QED
  BY <1>1, <1>3, <1>4, <1>5, <1>6, <1>7 DEF Slots

(* A content run that has work left and is not paused has a slot or the    *)
(* retry timer to carry it on: the slots are counted right unless a run    *)
(* was started over slots of the one before, so the last one notices.      *)
THEOREM NeverStalls == Spec => []NoStall
<1> DEFINE RunInv == \A a \in Accounts : Runs(a)
<1>1. Init => RunInv
  BY DEF Init, Runs, Counted, Carries, Live
<1>2. TypeInv /\ RunInv /\ [Next]_vars => RunInv'
  <2> SUFFICES ASSUME TypeInv, RunInv, [Next]_vars, NEW a \in Accounts PROVE Runs(a)'
    OBVIOUS
  <2>1. CASE Same(a)
    BY <2>1, KindRuns DEF Kind
  <2> QED
    BY <2>1, NextKinds, KindRuns, SlotsRun
<1>3. RunInv => NoStall
  BY DEF Runs, Carries, NoStall, Unfinished
<1> QED
  BY <1>1, <1>2, <1>3, InitType, NextType, PTL DEF Spec


-----------------------------------------------------------------------------
(* The other accounts while the user stays at one: a pipeline nobody waits *)
(* for is at rest, and the one the cascade waits for has at most one slot. *)

NoQuick == "quick" \notin Env

Quiet(a) ==
    /\ ~Working(a)
    /\ Live(a) => /\ pipe[a].conc = 1 /\ pipe[a].slots = 0 /\ ~pipe[a].finishing
                  /\ pipe[a].queue = {} /\ pipe[a].retry = {} /\ pipe[a].timer \notin Boxes

OnlyIn(w, s) == w[s] = 1 /\ \A r \in WorkerState \ {s} : w[r] = 0

Alone(a) ==
    /\ Live(a) /\ pipe[a].conc = 1 /\ ~pipe[a].finishing
    /\ \/ /\ ~Working(a) /\ pipe[a].slots = 0
          /\ pipe[a].timer \in Boxes => pipe[a].queue = {}
       \/ /\ pipe[a].timer \notin Boxes
          /\ \E s \in WorkerState : /\ OnlyIn(workers[a], s)
                                    /\ pipe[a].slots = IF s \in Busy THEN 1 ELSE 0

Behaves(a) == IF cascade.st = "waits" /\ cascade.acct = a
              THEN Alone(a) /\ ~cascade.dead
              ELSE Quiet(a)

CascadeSound ==
    /\ cascade.st # "off" => cascade.acct \notin cascade.todo \cup {active}
    /\ active \notin cascade.todo
    /\ cascade.st = "woken" /\ ~cascade.dead =>
         pipe[cascade.acct].asked \subseteq Settled(cascade.acct)

BackInv == Stayed => CascadeSound /\ \A a \in Accounts \ {active} : Behaves(a)

LEMMA BackLaunches ==
    ASSUME TypeInv, NEW a \in Accounts, Back(a), pipe'[a].conc = pipe[a].conc
    PROVE  \E n \in Nat, b \in Boxes :
              /\ workers'[a] = Launches(workers[a], n, b)
              /\ pipe[a].queue = {} => n = 0
              /\ n > 0 => n <= pipe[a].conc - pipe[a].slots
<1>1. PICK b \in Boxes :
         workers'[a] = Launches(workers[a],
                                Relaunched([pipe[a] EXCEPT !.conc = pipe'[a].conc]), b)
  BY DEF Back
<1>2. pipe[a] \in Pipeline
  BY LivePipe DEF Back, KeepsWork
<1>3. [pipe[a] EXCEPT !.conc = pipe'[a].conc] = pipe[a]
  BY <1>2 DEF Pipeline
<1>4. workers'[a] = Launches(workers[a], Relaunched(pipe[a]), b)
  BY <1>1, <1>3
<1>5. /\ Relaunched(pipe[a]) \in Nat
      /\ pipe[a].queue = {} => Relaunched(pipe[a]) = 0
      /\ Relaunched(pipe[a]) > 0 => Relaunched(pipe[a]) <= pipe[a].conc - pipe[a].slots
  BY <1>2, RelaunchedType, Zenon
<1> QED
  BY <1>4, <1>5

LEMMA StaysQuiet ==
    ASSUME TypeInv, NEW a \in Accounts, a # active, active' = active,
           Same(a) \/ Kept(a) \/ Back(a) \/ Fresh(a), Quiet(a) \/ Fresh(a)
    PROVE  Quiet(a)'
<1>t. workers[a] \in [WorkerState -> Nat] /\ (Live(a) => pipe[a] \in Pipeline)
  BY LivePipe
<1>1. CASE Same(a) /\ Quiet(a)
  BY <1>1 DEF Same, Quiet, Live, Working
<1>2. CASE Kept(a) /\ Quiet(a)
  <2>1. workers'[a] = workers[a] /\ pipe'[a].conc = pipe[a].conc
    BY <1>2 DEF Kept
  <2>2. Working(a)' <=> Working(a)
    BY <2>1 DEF Working
  <2> QED
    BY <1>2, <2>1, <2>2 DEF Kept, KeepsWork, Quiet
<1>3. CASE Back(a) /\ Quiet(a)
  <2>1. pipe'[a].conc = pipe[a].conc
    BY <1>3 DEF Back
  <2>2. PICK n \in Nat, b \in Boxes :
            /\ workers'[a] = Launches(workers[a], n, b)
            /\ pipe[a].queue = {} => n = 0
    BY <1>3, <2>1, BackLaunches
  <2>3. n = 0
    BY <1>3, <2>2 DEF Quiet, Back, KeepsWork
  <2>4. workers'[a] = workers[a]
    BY <1>t, <2>2, <2>3, LaunchesType
  <2>5. Working(a)' <=> Working(a)
    BY <2>4 DEF Working
  <2> QED
    BY <1>3, <2>1, <2>5 DEF Back, KeepsWork, Quiet
<1>4. CASE Fresh(a)
  <2>1. /\ pipe'[a].queue = {} /\ pipe'[a].retry = {} /\ pipe'[a].slots = 0
        /\ pipe'[a].conc = 1 /\ pipe'[a].timer = None /\ ~pipe'[a].finishing
        /\ workers'[a] = NoWorkers
    BY <1>4 DEF Fresh, NewPipe
  <2>2. ~Working(a)'
    BY <2>1 DEF Working, NoWorkers
  <2> QED
    BY <2>1, <2>2, CascadeAssumption DEF Quiet
<1> QED
  BY <1>1, <1>2, <1>3, <1>4

LEMMA OneWorker ==
    ASSUME NEW a, Alone(a), NEW r \in WorkerState, workers[a][r] > 0
    PROVE  /\ OnlyIn(workers[a], r) /\ pipe[a].timer \notin Boxes
           /\ pipe[a].slots = IF r \in Busy THEN 1 ELSE 0
<1>1. Working(a)
  BY DEF Working
<1>2. PICK s \in WorkerState : /\ OnlyIn(workers[a], s)
                               /\ pipe[a].slots = IF s \in Busy THEN 1 ELSE 0
  BY <1>1 DEF Alone
<1>3. s = r
  BY <1>2 DEF OnlyIn
<1> QED
  BY <1>1, <1>2, <1>3 DEF Alone

LEMMA StaysAlone ==
    ASSUME TypeInv, NEW a \in Accounts, a # active, active' = active, Alone(a),
           Same(a) \/ Kept(a) \/ (Back(a) /\ ~Waiting(a))
    PROVE  Alone(a)'
<1>t. workers[a] \in [WorkerState -> Nat] /\ pipe[a] \in Pipeline
  BY LivePipe DEF Alone
<1>0. ASSUME workers'[a] = workers[a], Live(a)', pipe'[a].conc = pipe[a].conc,
             pipe'[a].finishing => pipe[a].finishing, pipe'[a].slots = pipe[a].slots,
             pipe'[a].timer = pipe[a].timer, pipe'[a].queue = pipe[a].queue
      PROVE  Alone(a)'
  <2>1. Working(a)' <=> Working(a)
    BY <1>0 DEF Working
  <2> QED
    BY <1>0, <2>1 DEF Alone
<1>1. CASE Same(a)
  <2>1. Live(a)'
    BY <1>1 DEF Same, Alone, Live
  <2> QED
    BY <1>0, <1>1, <2>1 DEF Same
<1>2. CASE Kept(a)
  <2>1. Live(a)'
    BY <1>2, NoneAssumption DEF Kept, KeepsWork, Live
  <2> QED
    BY <1>0, <1>2, <2>1 DEF Kept, KeepsWork
<1>3. CASE Back(a) /\ ~Waiting(a)
  <2>1. /\ pipe'[a].conc = pipe[a].conc /\ Live(a)'
        /\ pipe'[a].finishing => pipe[a].finishing
        /\ pipe'[a].slots = pipe[a].slots /\ pipe'[a].timer = pipe[a].timer
        /\ pipe'[a].queue = pipe[a].queue
    BY <1>3, NoneAssumption DEF Back, KeepsWork, Live
  <2>2. PICK n \in Nat, b \in Boxes :
            /\ workers'[a] = Launches(workers[a], n, b)
            /\ pipe[a].queue = {} => n = 0
            /\ n > 0 => n <= pipe[a].conc - pipe[a].slots
    BY <1>3, <2>1, BackLaunches
  <2>3. CASE n = 0
    <3>1. workers'[a] = workers[a]
      BY <1>t, <2>2, <2>3, LaunchesType
    <3> QED
      BY <1>0, <2>1, <3>1
  <2>4. CASE n # 0
    <3>1. pipe[a].conc = 1 /\ n <= 1 - pipe[a].slots /\ n > 0
      BY <2>2, <2>4 DEF Alone
    <3>2. ~Working(a)
      <4>1. ASSUME NEW s \in WorkerState, workers[a][s] > 0 PROVE FALSE
        <5>1. pipe[a].slots = IF s \in Busy THEN 1 ELSE 0
          BY <4>1, OneWorker
        <5>2. s \notin Busy
          BY <3>1, <5>1
        <5>3. Waiting(a)
          BY <4>1, <5>2 DEF Busy, Waiting
        <5> QED
          BY <1>3, <5>3
      <4> QED
        BY <4>1 DEF Working
    <3>3. pipe[a].slots = 0 /\ (pipe[a].timer \in Boxes => pipe[a].queue = {})
      BY <3>2 DEF Alone, OnlyIn, Working
    <3>4. n = 1 /\ pipe[a].timer \notin Boxes
      BY <2>2, <2>4, <3>1, <3>3
    <3>5. \A s \in WorkerState : workers[a][s] = 0
      BY <1>t, <3>2 DEF Working
    <3>6. OnlyIn(workers'[a], <<"waiting", b>>)
      <4>1. <<"waiting", b>> \in WorkerState
        BY DEF WorkerState
      <4>2. /\ Launches(workers[a], n, b)[<<"waiting", b>>] = workers[a][<<"waiting", b>>] + n
            /\ \A s \in WorkerState \ {<<"waiting", b>>} :
                 Launches(workers[a], n, b)[s] = workers[a][s]
        BY <1>t, <2>2, LaunchesType, Zenon
      <4> QED
        BY <2>2, <3>4, <3>5, <4>1, <4>2 DEF OnlyIn
    <3>7. <<"waiting", b>> \in WorkerState /\ <<"waiting", b>> \notin Busy
      BY DEF WorkerState, Busy
    <3> QED
      BY <2>1, <3>1, <3>3, <3>4, <3>6, <3>7 DEF Alone
  <2> QED
    BY <2>3, <2>4
<1> QED
  BY <1>1, <1>2, <1>3


LEMMA MovesOnly ==
    ASSUME NEW w \in [WorkerState -> Nat], NEW from \in WorkerState, NEW to \in WorkerState,
           from # to, OnlyIn(w, from)
    PROVE  OnlyIn(Moves(w, from, to), to)
<1>1. w[from] = 1 /\ w[to] = 0 /\ \A r \in WorkerState \ {from} : w[r] = 0
  BY DEF OnlyIn
<1>2. /\ Moves(w, from, to)[from] = w[from] - 1
      /\ Moves(w, from, to)[to] = w[to] + 1
      /\ \A s \in WorkerState \ {from, to} : Moves(w, from, to)[s] = w[s]
  <2>1. w[from] > 0
    BY <1>1
  <2> QED
    BY <2>1, MovesType, Zenon
<1> HIDE DEF Moves
<1>3. Moves(w, from, to)[to] = 1 /\ Moves(w, from, to)[from] = 0
  BY <1>1, <1>2
<1>4. ASSUME NEW r \in WorkerState \ {to} PROVE Moves(w, from, to)[r] = 0
  <2>1. CASE r = from
    BY <1>3, <2>1
  <2>2. CASE r # from
    BY <1>1, <1>2, <2>2
  <2> QED
    BY <2>1, <2>2
<1> QED
  BY <1>3, <1>4 DEF OnlyIn

(* Its one slot goes its way; when it ends the run, everything asked for   *)
(* is settled.                                                             *)
LEMMA SlotAlone ==
    ASSUME TypeInv, NEW a \in Accounts, a # active, active' = active,
           Alone(a), Whole(a)', Slots(a) \/ RetryFires(a)
    PROVE  /\ Alone(a)'
           /\ \/ cascade' = cascade
              \/ /\ cascade' = Wakes(cascade, a) /\ Quiet(a)'
                 /\ pipe'[a].asked \subseteq Settled(a)'
<1>t. /\ pipe \in [Accounts -> Pipeline \cup {None}]
      /\ workers \in [Accounts -> [WorkerState -> Nat]]
      /\ workers[a] \in [WorkerState -> Nat] /\ pipe[a] \in Pipeline
      /\ Live(a) /\ pipe[a].conc = 1 /\ ~pipe[a].finishing
  BY LivePipe DEF TypeInv, TypeOK, Alone
<1>p. pipe[a] \in Pipeline
  BY <1>t
<1>b. /\ \A b \in Boxes : <<"loop", b>> \in Busy /\ <<"loop", b>> \in WorkerState
      /\ \A b \in Boxes, u \in Uids : <<"fetch", b, u>> \in Busy
                                       /\ <<"fetch", b, u>> \in WorkerState
      /\ \A b \in Boxes : <<"waiting", b>> \in WorkerState /\ <<"waiting", b>> \notin Busy
      /\ \A b \in Boxes : <<"waiting", b>> # <<"loop", b>>
      /\ \A b \in Boxes, u \in Uids : <<"fetch", b, u>> # <<"loop", b>>
  <2>1. \A b, c \in Boxes : <<"loop", b>> # <<"waiting", c>>
    OBVIOUS
  <2> QED
    BY <2>1, FetchStates DEF Busy
<1>a. ASSUME NEW s \in WorkerState, OnlyIn(workers'[a], s), pipe'[a] \in Pipeline,
             pipe'[a].conc = 1, ~pipe'[a].finishing, pipe'[a].timer \notin Boxes,
             pipe'[a].slots = IF s \in Busy THEN 1 ELSE 0
      PROVE  Alone(a)'
  BY <1>a, NoneAssumption DEF Alone, Live
<1>1. ASSUME NEW b \in Boxes, SlotStarts(a, b) PROVE Alone(a)' /\ cascade' = cascade
  <2>1. /\ workers[a][<<"waiting", b>>] > 0 /\ cascade' = cascade
        /\ workers'[a] = Moves(workers[a], <<"waiting", b>>, <<"loop", b>>)
        /\ pipe'[a] = [pipe[a] EXCEPT !.slots = @ + 1]
    BY <1>1, <1>t DEF SlotStarts
  <2>2. /\ OnlyIn(workers[a], <<"waiting", b>>) /\ pipe[a].timer \notin Boxes
        /\ pipe[a].slots = 0
    BY <1>b, <2>1, OneWorker
  <2>3. OnlyIn(workers'[a], <<"loop", b>>)
    BY <1>t, <1>b, <2>1, <2>2, MovesOnly
  <2>4. /\ pipe'[a] \in Pipeline /\ pipe'[a].conc = 1 /\ ~pipe'[a].finishing
        /\ pipe'[a].timer \notin Boxes /\ pipe'[a].slots = 1
    <3>1. /\ pipe'[a] \in Pipeline /\ pipe'[a].conc = pipe[a].conc
          /\ pipe'[a].finishing = pipe[a].finishing /\ pipe'[a].timer = pipe[a].timer
          /\ pipe'[a].slots = pipe[a].slots + 1
      <4>1. pipe'[a] = [pipe[a] EXCEPT !.slots = @ + 1]
        BY <2>1
      <4> QED
        BY <1>p, <4>1 DEF Pipeline
    <3> QED
      BY <1>t, <2>2, <3>1
  <2> QED
    BY <1>a, <1>b, <2>1, <2>3, <2>4
<1>2. ASSUME NEW b \in Boxes, NEW u \in Uids,
             TakesNext(a, b, u) \/ Fetched(a, b, u) \/ FetchFails(a, b, u)
      PROVE  Alone(a)' /\ cascade' = cascade
  <2>1. PICK from \in Busy, to \in Busy :
           /\ from # to /\ workers[a][from] > 0
           /\ workers'[a] = Moves(workers[a], from, to)
    <3>1. CASE TakesNext(a, b, u)
      <4>1. /\ workers[a][<<"loop", b>>] > 0
            /\ workers'[a] = Moves(workers[a], <<"loop", b>>, <<"fetch", b, u>>)
        BY <1>t, <3>1 DEF TakesNext
      <4> QED
        BY <1>b, <4>1
    <3>2. CASE Fetched(a, b, u) \/ FetchFails(a, b, u)
      <4>1. /\ workers[a][<<"fetch", b, u>>] > 0
            /\ workers'[a] = Moves(workers[a], <<"fetch", b, u>>, <<"loop", b>>)
        BY <1>t, <3>2 DEF Fetched, FetchFails
      <4> QED
        BY <1>b, <4>1
    <3> QED
      BY <1>2, <3>1, <3>2
  <2>2. /\ \E m \in SUBSET Uids :
              \/ pipe'[a] = [pipe[a] EXCEPT !.queue = @ \ {u}, !.amiss = m]
              \/ pipe'[a] = [pipe[a] EXCEPT !.amiss = m]
              \/ pipe'[a] = [pipe[a] EXCEPT !.retry = @ \cup {u}, !.amiss = m]
        /\ cascade' = cascade
    <3>1. pipe[a].amiss \ {u} \in SUBSET Uids /\ pipe[a].amiss \cup {u} \in SUBSET Uids
          /\ pipe[a].amiss \in SUBSET Uids
      BY <1>p DEF Pipeline
    <3>2. CASE TakesNext(a, b, u)
      BY <1>t, <3>1, <3>2 DEF TakesNext
    <3>3. CASE Fetched(a, b, u)
      BY <1>t, <3>1, <3>3 DEF Fetched
    <3>4. CASE FetchFails(a, b, u)
      BY <1>t, <3>1, <3>4 DEF FetchFails
    <3> QED
      BY <1>2, <3>2, <3>3, <3>4
  <2>3. /\ pipe'[a] \in Pipeline /\ pipe'[a].conc = 1 /\ ~pipe'[a].finishing
        /\ pipe'[a].timer = pipe[a].timer /\ pipe'[a].slots = pipe[a].slots
    <3>1. /\ pipe'[a] \in Pipeline /\ pipe'[a].conc = pipe[a].conc
          /\ pipe'[a].finishing = pipe[a].finishing /\ pipe'[a].timer = pipe[a].timer
          /\ pipe'[a].slots = pipe[a].slots
      <4>0. PICK m \in SUBSET Uids :
              \/ pipe'[a] = [pipe[a] EXCEPT !.queue = @ \ {u}, !.amiss = m]
              \/ pipe'[a] = [pipe[a] EXCEPT !.amiss = m]
              \/ pipe'[a] = [pipe[a] EXCEPT !.retry = @ \cup {u}, !.amiss = m]
        BY <2>2
      <4>1. CASE pipe'[a] = [pipe[a] EXCEPT !.queue = @ \ {u}, !.amiss = m]
        <5>1. pipe'[a] \in Pipeline
          BY <1>p, <4>1 DEF Pipeline
        <5>2. /\ pipe'[a].conc = pipe[a].conc /\ pipe'[a].finishing = pipe[a].finishing
              /\ pipe'[a].timer = pipe[a].timer /\ pipe'[a].slots = pipe[a].slots
          BY <1>p, <4>1 DEF Pipeline
        <5> QED
          BY <5>1, <5>2
      <4>2. CASE pipe'[a] = [pipe[a] EXCEPT !.amiss = m]
        BY <1>p, <4>2 DEF Pipeline
      <4>3. CASE pipe'[a] = [pipe[a] EXCEPT !.retry = @ \cup {u}, !.amiss = m]
        <5>1. pipe'[a] \in Pipeline
          <6>1. ASSUME NEW q \in Pipeline, NEW r \in SUBSET Uids
                PROVE  [q EXCEPT !.retry = r, !.amiss = m] \in Pipeline
            BY DEF Pipeline
          <6>2. pipe[a].retry \cup {u} \in SUBSET Uids
            BY <1>p DEF Pipeline
          <6> QED
            BY <1>p, <4>3, <6>1, <6>2
        <5>2. /\ pipe'[a].conc = pipe[a].conc /\ pipe'[a].finishing = pipe[a].finishing
              /\ pipe'[a].timer = pipe[a].timer /\ pipe'[a].slots = pipe[a].slots
          BY <1>p, <4>3 DEF Pipeline
        <5> QED
          BY <5>1, <5>2
      <4> QED
        BY <4>0, <4>1, <4>2, <4>3
    <3> QED
      BY <1>t, <3>1
  <2>4. from \in WorkerState /\ to \in WorkerState
    BY DEF Busy
  <2>5. /\ OnlyIn(workers[a], from) /\ pipe[a].timer \notin Boxes
        /\ pipe[a].slots = 1
    BY <2>1, <2>4, OneWorker
  <2>6. OnlyIn(workers'[a], to)
    BY <1>t, <2>1, <2>4, <2>5, MovesOnly
  <2> QED
    BY <1>a, <2>2, <2>3, <2>4, <2>5, <2>6
<1>3. ASSUME NEW b \in Boxes, SlotEnds(a, b)
      PROVE  /\ Alone(a)'
             /\ \/ cascade' = cascade
                \/ /\ cascade' = Wakes(cascade, a) /\ Quiet(a)'
                   /\ pipe'[a].asked \subseteq Settled(a)'
  <2>1. /\ pipe'[a] \in Pipeline /\ workers[a][<<"loop", b>>] > 0
        /\ workers'[a] = [workers[a] EXCEPT ![<<"loop", b>>] = @ - 1]
        /\ pipe'[a].slots = pipe[a].slots - 1 /\ pipe'[a].conc = 1
        /\ pipe'[a].queue = pipe[a].queue /\ pipe'[a].retry = pipe[a].retry
    BY <1>t, <1>3, EndEffect, Zenon
  <2>2. \/ /\ pipe[a].queue = {} /\ pipe[a].retry = {} /\ pipe'[a].timer = pipe[a].timer
           /\ pipe'[a].finishing = pipe[a].finishing /\ cascade' = Wakes(cascade, a)
        \/ /\ pipe[a].queue = {} /\ pipe'[a].timer = b /\ cascade' = cascade
           /\ pipe'[a].finishing = pipe[a].finishing
        \/ pipe'[a] = [pipe[a] EXCEPT !.slots = @ - 1] /\ cascade' = cascade
    BY <1>3, EndEffect, Zenon
  <2>3. /\ OnlyIn(workers[a], <<"loop", b>>) /\ pipe[a].timer \notin Boxes
        /\ pipe[a].slots = 1
    BY <1>b, <2>1, OneWorker
  <2>4. \A s \in WorkerState : workers'[a][s] = 0
    BY <1>t, <1>b, <2>1, <2>3 DEF OnlyIn
  <2>5. ~Working(a)' /\ InHand(a)' = {}
    <3>1. \A c \in Boxes, u \in Uids : workers'[a][<<"fetch", c, u>>] = 0
      BY <1>b, <2>4
    <3>2. InHand(a)' = {}
      <4>1. ASSUME NEW u \in Uids, NEW c \in Boxes PROVE ~(workers'[a][<<"fetch", c, u>>] > 0)
        BY <3>1
      <4> QED
        BY <4>1 DEF InHand
    <3>3. ~Working(a)'
      BY <2>4 DEF Working
    <3> QED
      BY <3>2, <3>3
  <2>6. pipe'[a].slots = 0 /\ Live(a)'
    BY <2>1, <2>3, NoneAssumption DEF Live
  <2>7. CASE /\ pipe[a].queue = {} /\ pipe[a].retry = {} /\ pipe'[a].timer = pipe[a].timer
             /\ pipe'[a].finishing = pipe[a].finishing /\ cascade' = Wakes(cascade, a)
    <3>1. pipe'[a].asked \subseteq Settled(a)'
      BY <2>1, <2>5, <2>6, <2>7 DEF Whole
    <3> QED
      BY <1>t, <2>1, <2>3, <2>5, <2>6, <2>7, <3>1 DEF Alone, Quiet
  <2>8. CASE /\ pipe[a].queue = {} /\ pipe'[a].timer = b /\ cascade' = cascade
             /\ pipe'[a].finishing = pipe[a].finishing
    BY <1>t, <2>1, <2>5, <2>6, <2>8 DEF Alone
  <2>9. CASE pipe'[a] = [pipe[a] EXCEPT !.slots = @ - 1] /\ cascade' = cascade
    <3>1. pipe'[a].timer = pipe[a].timer /\ pipe'[a].finishing = pipe[a].finishing
      BY <1>t, <2>9 DEF Pipeline
    <3> QED
      BY <1>t, <2>1, <2>3, <2>5, <2>6, <2>9, <3>1 DEF Alone
  <2> QED
    BY <2>2, <2>7, <2>8, <2>9
<1>5. ASSUME NEW b \in Boxes, NEW u \in Uids, Skips(a, b, u)
      PROVE  Alone(a)' /\ cascade' = cascade
  <2>1. /\ workers[a][<<"loop", b>>] > 0 /\ workers'[a] = workers[a] /\ cascade' = cascade
        /\ pipe'[a] = [pipe[a] EXCEPT !.queue = @ \ {u}, !.amiss = @ \cup {u}]
    BY <1>t, <1>5 DEF Skips
  <2>2. /\ OnlyIn(workers[a], <<"loop", b>>) /\ pipe[a].timer \notin Boxes
        /\ pipe[a].slots = 1
    BY <1>b, <2>1, OneWorker
  <2>3. pipe'[a] \in Pipeline
    <3>1. ASSUME NEW q \in Pipeline, NEW r \in SUBSET Uids, NEW m \in SUBSET Uids
          PROVE  [q EXCEPT !.queue = r, !.amiss = m] \in Pipeline
      BY DEF Pipeline
    <3>2. pipe[a].queue \ {u} \in SUBSET Uids /\ pipe[a].amiss \cup {u} \in SUBSET Uids
      BY <1>p DEF Pipeline
    <3>3. PICK r \in SUBSET Uids, m \in SUBSET Uids :
            pipe'[a] = [pipe[a] EXCEPT !.queue = r, !.amiss = m]
      BY <2>1, <3>2
    <3> QED
      BY <1>p, <3>1, <3>3
  <2>4. /\ pipe'[a].conc = pipe[a].conc /\ pipe'[a].finishing = pipe[a].finishing
        /\ pipe'[a].timer = pipe[a].timer /\ pipe'[a].slots = pipe[a].slots
    BY <1>p, <2>1 DEF Pipeline
  <2> QED
    BY <1>t, <1>a, <1>b, <2>1, <2>2, <2>3, <2>4
<1>4. CASE RetryFires(a)
  <2> DEFINE p == [pipe[a] EXCEPT !.timer = None]
             b == pipe[a].timer
  <2>1. /\ b \in Boxes /\ cascade' = cascade
        /\ \/ p.slots > 0
           \/ /\ pipe'[a] = [p EXCEPT !.queue = @ \cup p.retry, !.retry = {}]
              /\ workers'[a] = Launches(workers[a], p.conc, b)
    BY <1>4, <1>t DEF RetryFires
  <2>2. p \in Pipeline /\ p.conc = 1 /\ p.slots = pipe[a].slots /\ p.timer = None /\ ~p.finishing
    BY <1>t DEF Pipeline
  <2>3. ~Working(a) /\ pipe[a].slots = 0
    BY <2>1 DEF Alone
  <2>4. \A s \in WorkerState : workers[a][s] = 0
    BY <1>t, <2>3 DEF Working
  <2> HIDE DEF p, b
  <2>5. OnlyIn(workers'[a], <<"waiting", b>>)
    <3>1. workers'[a] = Launches(workers[a], 1, b) /\ 1 \in Nat
      BY <2>1, <2>2, <2>3
    <3>2. /\ Launches(workers[a], 1, b)[<<"waiting", b>>] = workers[a][<<"waiting", b>>] + 1
          /\ \A s \in WorkerState \ {<<"waiting", b>>} :
               Launches(workers[a], 1, b)[s] = workers[a][s]
      <4>1. workers[a] \in [WorkerState -> Nat] /\ b \in Boxes /\ 1 \in Nat
        BY <1>t, <2>1
      <4> QED
        BY <4>1, LaunchesType, Zenon
    <3>3. workers[a][<<"waiting", b>>] = 0
      BY <1>b, <2>1, <2>4
    <3> QED
      BY <2>4, <3>1, <3>2, <3>3 DEF OnlyIn
  <2>6. pipe'[a] = [p EXCEPT !.queue = @ \cup p.retry, !.retry = {}]
    BY <2>1, <2>2, <2>3
  <2>7. /\ pipe'[a] \in Pipeline /\ pipe'[a].conc = 1 /\ ~pipe'[a].finishing
        /\ pipe'[a].timer = None /\ pipe'[a].slots = 0
    <3>1. ASSUME NEW q \in Pipeline, NEW us \in SUBSET Uids
          PROVE  /\ [q EXCEPT !.queue = us, !.retry = {}] \in Pipeline
                 /\ [q EXCEPT !.queue = us, !.retry = {}].conc = q.conc
                 /\ [q EXCEPT !.queue = us, !.retry = {}].timer = q.timer
                 /\ [q EXCEPT !.queue = us, !.retry = {}].slots = q.slots
      BY DEF Pipeline
    <3>2. ASSUME NEW q \in Pipeline, NEW us
          PROVE  [q EXCEPT !.queue = us, !.retry = {}].finishing = q.finishing
      BY DEF Pipeline
    <3>3. p \in Pipeline /\ p.queue \cup p.retry \in SUBSET Uids
      BY <2>2 DEF Pipeline
    <3>4. pipe'[a] = [p EXCEPT !.queue = p.queue \cup p.retry, !.retry = {}]
      BY <2>6
    <3>5. /\ pipe'[a] \in Pipeline /\ pipe'[a].conc = p.conc /\ pipe'[a].timer = p.timer
          /\ pipe'[a].slots = p.slots
      <4>1. PICK us \in SUBSET Uids : us = p.queue \cup p.retry
        BY <3>3
      <4>2. /\ [p EXCEPT !.queue = us, !.retry = {}] \in Pipeline
            /\ [p EXCEPT !.queue = us, !.retry = {}].conc = p.conc
            /\ [p EXCEPT !.queue = us, !.retry = {}].timer = p.timer
            /\ [p EXCEPT !.queue = us, !.retry = {}].slots = p.slots
        BY <3>1, <3>3, Zenon
      <4>3. pipe'[a] = [p EXCEPT !.queue = us, !.retry = {}]
        BY <3>4, <4>1
      <4> QED
        BY <4>2, <4>3, Zenon
    <3>6. pipe'[a].finishing = p.finishing
      BY <3>2, <3>3, <3>4
    <3> QED
      BY <2>2, <2>3, <3>5, <3>6
  <2>8. None \notin Boxes
    BY CascadeAssumption
  <2> QED
    BY <1>a, <1>b, <2>1, <2>5, <2>7, <2>8
<1> QED
  BY <1>1, <1>2, <1>3, <1>4, <1>5 DEF Slots

LEMMA BegunAlone ==
    ASSUME TypeInv, NEW a \in Accounts, Quiet(a), Live(a), Begun(a),
           pipe'[a].conc = pipe[a].conc, pipe'[a].finishing = pipe[a].finishing,
           pipe'[a].timer \notin Boxes,
           workers'[a] = Launches(workers[a], pipe[a].conc, Inbox)
    PROVE  Alone(a)'
<1>1. /\ pipe'[a] \in Pipeline /\ pipe'[a].slots = 0 /\ pipe[a].conc = 1
      /\ ~pipe[a].finishing /\ workers[a] \in [WorkerState -> Nat] /\ Inbox \in Boxes
  BY LivePipe DEF Begun, Quiet, Boxes
<1>2. \A s \in WorkerState : workers[a][s] = 0
  BY <1>1 DEF Quiet, Working
<1>3. <<"waiting", Inbox>> \in WorkerState /\ <<"waiting", Inbox>> \notin Busy
  BY <1>1 DEF WorkerState, Busy
<1>4. OnlyIn(workers'[a], <<"waiting", Inbox>>)
  <2>1. workers'[a] = Launches(workers[a], 1, Inbox) /\ 1 \in Nat
    BY <1>1
  <2>2. /\ Launches(workers[a], 1, Inbox)[<<"waiting", Inbox>>] = workers[a][<<"waiting", Inbox>>] + 1
        /\ \A s \in WorkerState \ {<<"waiting", Inbox>>} :
             Launches(workers[a], 1, Inbox)[s] = workers[a][s]
    BY <1>1, <2>1, LaunchesType, Zenon
  <2> QED
    BY <1>2, <1>3, <2>1, <2>2 DEF OnlyIn
<1> QED
  BY <1>1, <1>3, <1>4, NoneAssumption DEF Alone, Live


LEMMA StayedSteps ==
    ASSUME TypeInv, [Next]_vars, Stayed'
    PROVE  Stayed /\ active' = active
<1>t. used \in [{"switches", "views", "outages", "fails"} -> Nat]
  BY DEF TypeInv, TypeOK
<1>1. ASSUME NEW how \in {"switches", "views", "outages", "fails"},
             used' = [used EXCEPT ![how] = @ + 1]
      PROVE  Stayed /\ how # "switches"
  <2>1. used[how] \in Nat /\ used["switches"] \in Nat
    BY <1>t
  <2>2. how # "switches"
    BY <1>t, <1>1, <2>1 DEF Stayed
  <2> QED
    BY <1>t, <1>1, <2>2 DEF Stayed
<1>2. ASSUME UNCHANGED used PROVE Stayed
  BY <1>2 DEF Stayed
<1>3. CASE User
  <2>1. ASSUME NEW a \in Accounts, Switch(a) PROVE FALSE
    BY <1>1, <2>1 DEF Switch, Interrupts
  <2>2. ASSUME NEW b \in Boxes, View(b) PROVE Stayed /\ active' = active
    BY <1>1, <2>2 DEF View, Interrupts
  <2>3. CASE Offline
    BY <1>1, <2>3 DEF Offline, Interrupts
  <2>4. CASE Online
    BY <1>2, <2>4 DEF Online
  <2> QED
    BY <1>3, <2>1, <2>2, <2>3, <2>4 DEF User
<1>4. ASSUME NEW a \in Accounts, Slots(a) PROVE Stayed /\ active' = active
  <2>1. ASSUME NEW b \in Boxes, SlotStarts(a, b) \/ SlotEnds(a, b) PROVE Stayed /\ active' = active
    BY <1>2, <2>1 DEF SlotStarts, SlotEnds, screen
  <2>2. ASSUME NEW b \in Boxes, NEW u \in Uids, TakesNext(a, b, u) \/ Skips(a, b, u)
        PROVE  Stayed /\ active' = active
    BY <1>2, <2>2 DEF TakesNext, Skips, screen
  <2>3. ASSUME NEW b \in Boxes, NEW u \in Uids, Fetched(a, b, u) \/ FetchFails(a, b, u)
        PROVE  Stayed /\ active' = active
    <3>1. UNCHANGED used \/ used' = [used EXCEPT !["fails"] = @ + 1]
      BY <2>3 DEF Fetched, FetchFails, Fails
    <3> QED
      BY <1>1, <1>2, <2>3, <3>1 DEF Fetched, FetchFails, screen
  <2> QED
    BY <1>4, <2>1, <2>2, <2>3 DEF Slots
<1>5. CASE System
  <2>1. CASE StartActive \/ CascadeAsks \/ CascadeGoesOn
    BY <1>2, <2>1 DEF StartActive, CascadeAsks, CascadeGoesOn, screen
  <2>2. ASSUME NEW a \in Accounts, RetryFires(a) \/ FinishEnds(a)
        PROVE  Stayed /\ active' = active
    BY <1>2, <2>2 DEF RetryFires, FinishEnds, screen
  <2>3. ASSUME NEW a \in Accounts, Loading(a) PROVE Stayed /\ active' = active
    BY <1>2, <2>3 DEF Loading, SentPath, SentLoaded, InboxLoaded, JobSentLoaded, DeadJobEnds,
                      JobGoesOn, screen
  <2> QED
    BY <1>4, <1>5, <2>1, <2>2, <2>3 DEF System
<1>6. CASE UNCHANGED vars
  BY <1>6 DEF vars, screen, Stayed
<1> QED
  BY <1>3, <1>5, <1>6 DEF Next

LEMMA BackStep ==
    ASSUME NoQuick, TypeInv, NothingLost, BackInv, [Next]_vars
    PROVE  BackInv'
<1> SUFFICES ASSUME Stayed'
             PROVE  CascadeSound' /\ \A a \in Accounts \ {active} : Behaves(a)'
  BY StayedSteps DEF BackInv
<1>a. active' = active /\ active \in Accounts
  BY StayedSteps DEF TypeInv, TypeOK
<1>i. CascadeSound /\ \A a \in Accounts \ {active} : Behaves(a)
  BY StayedSteps DEF BackInv
<1>t. /\ cascade \in CascadeState /\ cascade.todo \in SUBSET Accounts
      /\ done \in SUBSET Accounts /\ pipe \in [Accounts -> Pipeline \cup {None}]
  BY DEF TypeInv, TypeOK, CascadeState
<1>q. ASSUME cascade.st # "waits" PROVE \A a \in Accounts \ {active} : Quiet(a)
  BY <1>i, <1>q DEF Behaves
\* The cascade walks on.
<1>w. ASSUME NEW ps \in [Accounts -> Pipeline \cup {None}], NEW todo \in SUBSET Accounts,
             NEW marked \in SUBSET Accounts, CascadeWalks(ps, todo, marked), active \notin todo,
             \A a \in Accounts \ {active} : Quiet(a)'
      PROVE  CascadeSound' /\ \A a \in Accounts \ {active} : Behaves(a)'
  <2>1. \/ cascade' = NoCascade
        \/ /\ cascade'.st = "saved" /\ cascade'.acct \in todo \ marked
           /\ cascade'.todo \subseteq todo \ {cascade'.acct}
    BY <1>w, WalksTo, Zenon
  <2>2. cascade'.st \in {"off", "saved"} /\ active \notin cascade'.todo
        /\ (cascade'.st # "off" => cascade'.acct \notin cascade'.todo \cup {active})
    BY <1>w, <2>1 DEF NoCascade
  <2> QED
    BY <1>a, <1>w, <2>2 DEF CascadeSound, Behaves
\* It stays where it is.
<1>c. ASSUME cascade' = cascade, cascade.st # "woken",
             \A a \in Accounts \ {active} : Same(a) \/ Kept(a) \/ (Back(a) /\ ~Waiting(a))
      PROVE  CascadeSound' /\ \A a \in Accounts \ {active} : Behaves(a)'
  <2>1. CascadeSound'
    BY <1>a, <1>i, <1>c DEF CascadeSound
  <2>2. ASSUME NEW a \in Accounts \ {active} PROVE Behaves(a)'
    <3>1. Quiet(a) => Quiet(a)'
      BY <1>a, <1>c, <2>2, StaysQuiet
    <3>2. Alone(a) => Alone(a)'
      BY <1>a, <1>c, <2>2, StaysAlone
    <3> QED
      BY <1>i, <1>c, <2>2, <3>1, <3>2 DEF Behaves
  <2> QED
    BY <2>1, <2>2
<1>1. CASE UNCHANGED vars
  BY <1>1, <1>i DEF vars, screen, CascadeSound, Settled, Behaves, Alone, Quiet, Working, Live,
                   OnlyIn
<1>2. CASE CascadeGoesOn
  <2>1. \A a \in Accounts \ {active} : Quiet(a)'
    <3>1. \A a \in Accounts : Same(a)
      BY <1>2 DEF CascadeGoesOn, Same
    <3> QED
      BY <1>2, <1>a, <1>q, <3>1, StaysQuiet DEF CascadeGoesOn
  <2>2. cascade.acct \in Accounts /\ active \notin cascade.todo
    BY <1>2, <1>i DEF CascadeGoesOn, TypeInv, LiveInv, CascadeSound
  <2>3. (IF cascade.dead THEN done ELSE done \cup {cascade.acct}) \in SUBSET Accounts
    BY <1>t, <2>2
  <2> QED
    BY <1>2, <1>t, <1>w, <2>1, <2>2, <2>3 DEF CascadeGoesOn
<1>3. CASE StartActive /\ cascade.st # "woken"
  <2> DEFINE others == IF headersRunning THEN {} ELSE Accounts \ {active}
             replaced == others \cup (IF Reusable(active) THEN {} ELSE {active})
  <2>1. /\ pipe' \in [Accounts -> Pipeline \cup {None}]
        /\ \A a \in Accounts \ {active} : Same(a) \/ Fresh(a)
    BY <1>3, StartEffect
  <2>2. /\ \A a \in Accounts \ {active} : a \in replaced <=> a \in others
        /\ \A a \in others : Fresh(a)
        /\ \A a \in Accounts \ {active} : a \notin others => Same(a)
    <3>1. others \subseteq Accounts \ {active}
      OBVIOUS
    <3>2. /\ \A a \in others : /\ pipe'[a] = NewPipe(1, "background", "headers")
                               /\ workers'[a] = NoWorkers
          /\ \A a \in Accounts \ {active} : a \notin others =>
                pipe'[a] = pipe[a] /\ workers'[a] = workers[a]
      BY <1>3 DEF StartActive
    <3>3. 1 \in 1 .. MaxSlots
      BY CascadeAssumption
    <3> QED
      BY <3>1, <3>2, <3>3 DEF Fresh, Same
  <2>3. CASE cascade.st = "off" /\ CascadeStarts(pipe')
    <3>1. \A a \in Accounts \ {active} : Quiet(a)'
      BY <1>a, <1>q, <2>1, <2>3, StaysQuiet
    <3>2. CascadeWalks(pipe', Accounts \ {active}, done)
      BY <2>3 DEF CascadeStarts
    <3> QED
      BY <1>t, <1>w, <2>1, <3>1, <3>2
  <2>4. CASE cascade' = Bereft(cascade, replaced)
    <3> HIDE DEF others, replaced
    <3>1. /\ cascade'.acct = cascade.acct /\ cascade'.todo = cascade.todo
          /\ cascade'.st = "off" <=> cascade.st = "off"
          /\ cascade'.st = "woken" => cascade'.dead
          /\ cascade'.st = "waits" =>
               cascade' = cascade /\ cascade.st = "waits" /\ cascade.acct \notin replaced
          /\ cascade.st = "waits" /\ cascade.acct \notin replaced => cascade' = cascade
          /\ cascade.st = "waits" /\ cascade.acct \in replaced => cascade'.st = "woken"
      BY <1>3, <1>t, <2>4 DEF Bereft, CascadeState
    <3>2. CascadeSound'
      BY <1>a, <1>i, <3>1 DEF CascadeSound
    <3>3. ASSUME NEW a \in Accounts \ {active} PROVE Behaves(a)'
      <4>1. CASE a \in others
        <5>1. Quiet(a)'
          BY <1>a, <2>2, <4>1, StaysQuiet
        <5>2. ~(cascade'.st = "waits" /\ cascade'.acct = a)
          BY <2>2, <3>1, <4>1
        <5> QED
          BY <5>1, <5>2 DEF Behaves
      <4>2. CASE a \notin others
        <5>1. Same(a)
          BY <2>2, <4>2
        <5>2. (Quiet(a) => Quiet(a)') /\ (Alone(a) => Alone(a)')
          BY <1>a, <5>1, StaysQuiet, StaysAlone
        <5>3. (cascade'.st = "waits" /\ cascade'.acct = a) <=> (cascade.st = "waits" /\ cascade.acct = a)
          BY <2>2, <3>1, <4>2
        <5> QED
          BY <1>i, <3>1, <5>2, <5>3 DEF Behaves
      <4> QED
        BY <4>1, <4>2
    <3> QED
      BY <3>2, <3>3
  <2> QED
    BY <1>3, <2>3, <2>4 DEF StartActive
<1>4. CASE CascadeAsks
  <2>1. cascade.st = "saved"
    BY <1>4 DEF CascadeAsks
  <2>2. PICK c \in Accounts : c = cascade.acct
    BY <2>1 DEF TypeInv, LiveInv
  <2>3. /\ c # active /\ Quiet(c)
        /\ active \notin cascade.todo /\ c \notin cascade.todo
    BY <1>i, <1>q, <2>1, <2>2 DEF CascadeSound
  <2>4. /\ \A x \in Accounts \ {c} : Same(x)
        /\ \/ Same(c) /\ \E marked \in SUBSET Accounts :
                            CascadeWalks(pipe, cascade.todo, marked)
           \/ /\ Begun(c) /\ Live(c)
              /\ cascade' = [cascade EXCEPT !.st = "waits"] /\ ~cascade.dead
              /\ pipe'[c].conc = pipe[c].conc
              /\ pipe'[c].finishing = pipe[c].finishing
              /\ pipe'[c].timer \notin Boxes
              /\ workers'[c] = Launches(workers[c], pipe[c].conc, Inbox)
    BY <1>4, <2>2, AsksEffect, Zenon
  <2>5. \A a \in Accounts \ {active, c} : Quiet(a)'
    BY <1>a, <1>q, <2>1, <2>4, StaysQuiet
  <2>6. CASE /\ Begun(c) /\ Live(c)
             /\ cascade' = [cascade EXCEPT !.st = "waits"] /\ ~cascade.dead
             /\ pipe'[c].conc = pipe[c].conc
             /\ pipe'[c].finishing = pipe[c].finishing
             /\ pipe'[c].timer \notin Boxes
             /\ workers'[c] = Launches(workers[c], pipe[c].conc, Inbox)
    <3>1. /\ cascade'.acct = c /\ cascade'.todo = cascade.todo /\ cascade'.st = "waits"
          /\ ~cascade'.dead
      BY <1>t, <2>2, <2>6 DEF CascadeState
    <3>2. Alone(c)'
      BY <2>3, <2>6, BegunAlone
    <3>3. CascadeSound'
      BY <1>a, <2>3, <3>1 DEF CascadeSound
    <3> QED
      BY <2>5, <3>1, <3>2, <3>3 DEF Behaves
  <2>7. CASE Same(c) /\ \E marked \in SUBSET Accounts :
                           CascadeWalks(pipe, cascade.todo, marked)
    <3>1. \A a \in Accounts \ {active} : Quiet(a)'
      BY <1>a, <2>3, <2>5, <2>7, StaysQuiet
    <3> QED
      BY <1>t, <1>w, <2>3, <2>7, <3>1
  <2> QED
    BY <2>4, <2>6, <2>7
<1>5. ASSUME NEW x \in Accounts, Slots(x) \/ RetryFires(x), cascade.st # "woken"
      PROVE  CascadeSound' /\ \A a \in Accounts \ {active} : Behaves(a)'
  <2>1. \A a \in Accounts \ {x} : Same(a)
    BY <1>5, SlotsAreOne
  <2>2. CASE x = active
    <3>1. cascade' = cascade
      <4>1. CASE RetryFires(x)
        BY <4>1 DEF RetryFires
      <4>2. ASSUME NEW b \in Boxes, SlotStarts(x, b) PROVE cascade' = cascade
        BY <4>2 DEF SlotStarts
      <4>3. ASSUME NEW b \in Boxes, SlotEnds(x, b) PROVE cascade' = cascade
        BY <2>2, <4>3 DEF SlotEnds
      <4>4. ASSUME NEW b \in Boxes, NEW u \in Uids,
                   \/ TakesNext(x, b, u) \/ Skips(x, b, u)
                   \/ Fetched(x, b, u) \/ FetchFails(x, b, u)
            PROVE  cascade' = cascade
        BY <4>4 DEF TakesNext, Skips, Fetched, FetchFails
      <4> QED
        BY <1>5, <4>1, <4>2, <4>3, <4>4 DEF Slots
    <3> QED
      BY <1>5, <1>c, <2>1, <2>2, <3>1
  <2>3. CASE x # active
    <3>1. cascade.st = "waits" /\ cascade.acct = x /\ Alone(x) /\ ~cascade.dead
      <4>1. ~Quiet(x)
        <5>1. CASE RetryFires(x)
          BY <5>1 DEF RetryFires, Quiet
        <5>2. CASE Slots(x)
          BY <5>2, FetchStates DEF Slots, SlotStarts, SlotEnds, TakesNext, Skips, Fetched,
                                   FetchFails, Quiet, Working
        <5> QED
          BY <1>5, <5>1, <5>2
      <4> QED
        BY <1>i, <2>3, <4>1 DEF Behaves
    <3>2. Whole(x)'
      <4>1. Whole(x)
        BY DEF NothingLost, Whole
      <4> QED
        BY <1>5, <4>1, SlotsKeepWhole, StoredGrows
    <3>3. /\ Alone(x)'
          /\ \/ cascade' = cascade
             \/ /\ cascade' = Wakes(cascade, x) /\ Quiet(x)'
                /\ pipe'[x].asked \subseteq Settled(x)'
      BY <1>5, <1>a, <2>3, <3>1, <3>2, SlotAlone
    <3>4. \A a \in Accounts \ {active, x} : Quiet(a)'
      <4>1. \A a \in Accounts \ {active, x} : Quiet(a)
        BY <1>i, <3>1 DEF Behaves
      <4> QED
        BY <1>a, <2>1, <4>1, StaysQuiet
    <3>5. CASE cascade' = cascade
      <4>1. CascadeSound'
        BY <1>a, <1>i, <1>5, <3>5 DEF CascadeSound
      <4> QED
        BY <3>1, <3>3, <3>4, <3>5, <4>1 DEF Behaves
    <3>6. CASE cascade' # cascade
      <4>1. cascade' = [cascade EXCEPT !.st = "woken"]
        BY <3>3, <3>6 DEF Wakes
      <4>2. /\ cascade'.st = "woken" /\ cascade'.acct = x /\ cascade'.todo = cascade.todo
        BY <1>t, <3>1, <4>1 DEF CascadeState
      <4>3. CascadeSound'
        BY <1>a, <1>i, <3>1, <3>3, <3>6, <4>2 DEF CascadeSound
      <4> QED
        BY <3>3, <3>4, <3>6, <4>2, <4>3 DEF Behaves
    <3> QED
      BY <3>5, <3>6
  <2> QED
    BY <2>2, <2>3
<1>6. ASSUME NEW x \in Accounts, FinishEnds(x), cascade.st # "woken"
      PROVE  CascadeSound' /\ \A a \in Accounts \ {active} : Behaves(a)'
  <2>1. x = active
    BY <1>6, <1>i DEF FinishEnds, Behaves, Alone, Quiet
  <2>2. \A a \in Accounts : Same(a) \/ Kept(a)
    BY <1>6, FinishKinds
  <2>3. CASE cascade.st = "off" /\ CascadeStarts(pipe')
    <3>1. \A a \in Accounts \ {active} : Quiet(a)'
      BY <1>a, <1>q, <2>2, <2>3, StaysQuiet
    <3>2. CascadeWalks(pipe', Accounts \ {active}, done)
      BY <2>3 DEF CascadeStarts
    <3>3. pipe' \in [Accounts -> Pipeline \cup {None}]
      BY <1>6, FinishType DEF TypeInv, TypeOK
    <3> QED
      BY <1>t, <1>w, <3>1, <3>2, <3>3
  <2>4. CASE cascade' = Wakes(cascade, x)
    <3>1. ~(cascade.st = "waits" /\ cascade.acct = x)
      BY <1>i, <2>1 DEF CascadeSound
    <3>2. cascade' = cascade
      BY <2>4, <3>1 DEF Wakes
    <3> QED
      BY <1>6, <1>c, <2>2, <3>2
  <2> QED
    BY <1>6, <2>3, <2>4 DEF FinishEnds
<1>7. ASSUME NEW x \in Accounts, Loading(x), cascade.st # "woken"
      PROVE  CascadeSound' /\ \A a \in Accounts \ {active} : Behaves(a)'
  <2>1. cascade' = cascade
    BY <1>7 DEF Loading, SentPath, SentLoaded, InboxLoaded, JobSentLoaded, DeadJobEnds, JobGoesOn
  <2> QED
    BY <1>7, <1>c, <2>1, LoadKinds
<1>8. CASE User /\ cascade.st # "woken"
  <2>1. cascade' = cascade
    BY <1>8 DEF User, Switch, View, Offline, Online
  <2>2. ASSUME NEW a \in Accounts \ {active}
        PROVE  Same(a) \/ Kept(a) \/ (Back(a) /\ ~Waiting(a))
    <3>1. Online => ~Waiting(a)
      BY DEF Online, Unhurried, NoQuick
    <3> QED
      BY <1>8, <1>a, <3>1, UserKinds
  <2> QED
    BY <1>8, <1>c, <2>1, <2>2
<1> QED
  BY <1>1, <1>2, <1>3, <1>4, <1>5, <1>6, <1>7, <1>8 DEF Next, System

LEMMA BackInit == Init => BackInv
<1> SUFFICES ASSUME Init PROVE BackInv
  OBVIOUS
<1>1. CascadeSound
  BY NoneAssumption DEF Init, NoCascade, CascadeSound
<1>2. \A a \in Accounts : Quiet(a)
  BY DEF Init, Quiet, Live, Working, NoWorkers
<1>3. cascade.st # "waits"
  BY DEF Init, NoCascade
<1> QED
  BY <1>1, <1>2, <1>3 DEF BackInv, Behaves

LEMMA BackMeans ==
    ASSUME BackInv
    PROVE  BackgroundOneAtATime
<1> SUFFICES ASSUME Stayed, NEW a \in Accounts \ {active}, Working(a)
             PROVE  /\ cascade.st = "waits" /\ cascade.acct = a
                    /\ \E s \in WorkerState : OnlyIn(workers[a], s)
  BY DEF BackgroundOneAtATime, OnlyIn
<1>1. Behaves(a)
  BY DEF BackInv
<1>2. cascade.st = "waits" /\ cascade.acct = a /\ Alone(a)
  BY <1>1 DEF Behaves, Quiet
<1> QED
  BY <1>2 DEF Alone

(* While the user stays at one account, a worker of another account is the *)
(* only one of the account the cascade waits for: the cascade starts the   *)
(* next account only when the one before is at rest.                       *)
THEOREM OneAtATime == ASSUME NoQuick PROVE Spec => []BackgroundOneAtATime
<1>1. TypeInv /\ NothingLost /\ BackInv /\ [Next]_vars => BackInv'
  BY BackStep
<1>2. BackInv => BackgroundOneAtATime
  BY BackMeans
<1> QED
  BY <1>1, <1>2, BackInit, InitType, NextType, NothingIsLost, PTL DEF Spec

(* While the user stays at one account, the cascade ticks off an account   *)
(* it waited for only with everything asked for in the vault, or amiss in  *)
(* one of the three ways NothingLost names: between the wake and the tick  *)
(* nothing else runs, and a walk marks only accounts still to come.        *)
THEOREM FetchedBeforeDone == ASSUME NoQuick PROVE Spec => WaitedMeansFetched
<1>1. TypeInv /\ NothingLost /\ BackInv /\ [Next]_vars => BackInv'
  BY BackStep
<1>2. TypeInv /\ BackInv /\ [Next]_vars =>
        [Stayed /\ cascade.st = "woken" /\ cascade.acct \in done' \ done =>
           pipe[cascade.acct].asked \subseteq Settled(cascade.acct)]_vars
  <2> SUFFICES ASSUME TypeInv, BackInv, Next, Stayed, cascade.st = "woken",
                      cascade.acct \in done' \ done
               PROVE  pipe[cascade.acct].asked \subseteq Settled(cascade.acct)
    OBVIOUS
  <2>1. CascadeGoesOn
    BY DEF Next, System
  <2>2. CascadeSound
    BY DEF BackInv
  <2>3. ~cascade.dead
    <3> SUFFICES ASSUME cascade.dead PROVE FALSE
      OBVIOUS
    <3>1. CascadeWalks(pipe, cascade.todo, done)
      BY <2>1 DEF CascadeGoesOn
    <3>2. /\ pipe \in [Accounts -> Pipeline \cup {None}] /\ done \in SUBSET Accounts
          /\ cascade.todo \in SUBSET Accounts
      BY DEF TypeInv, TypeOK
    <3>3. done' \subseteq done \cup cascade.todo
      BY <3>1, <3>2, WalksTo, Zenon
    <3> QED
      BY <2>2, <3>3 DEF CascadeSound
  <2> QED
    BY <2>2, <2>3 DEF CascadeSound
<1> QED
  BY <1>1, <1>2, BackInit, InitType, NextType, NothingIsLost, PTL DEF Spec, WaitedMeansFetched

=============================================================================
