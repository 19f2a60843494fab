-------------------------- MODULE BackgroundProofs --------------------------
(***************************************************************************)
(* Theorems about the long jobs: those of BackupCoordinator, for any       *)
(* accounts, folders and bounds, and what the jobs keep where MCBackground *)
(* puts them side by side.                                                 *)
(***************************************************************************)
EXTENDS MCBackground, FiniteSetTheorems, TLAPS

-----------------------------------------------------------------------------
(* The coordinator between two awaits: each helper leaves it sane.         *)

Display(c) == c.shown \in {"none", IF c.isManual THEN "manual" ELSE "auto"}

Sane(c) == c \in Coordinator /\ (Active(c) => c.acct \in Accounts /\ Display(c))

(* From c to d, while nothing returns from an await: a backup under way    *)
(* goes on, and none comes to its native run.                              *)
Goes(c, d) ==
    /\ Sane(d)
    /\ Active(c) => d.pc = c.pc /\ d.acct = c.acct /\ (Paused(d) => Paused(c))
    /\ ~Active(c) => d.pc # "invoked"

LEMMA SetState ==
    ASSUME NEW c \in Coordinator, NEW s \in {"idle", "running"} \cup Pauses
    PROVE  /\ [c EXCEPT !.state = s] \in Coordinator
           /\ LET d == [c EXCEPT !.state = s]
              IN  /\ d.state = s /\ d.queue = c.queue /\ d.manual = c.manual
                  /\ d.pc = c.pc /\ d.acct = c.acct /\ d.isManual = c.isManual
                  /\ d.saved = c.saved /\ d.shown = c.shown
BY DEF Coordinator

LEMMA EndsSane ==
    ASSUME NEW c \in Coordinator PROVE Sane(Ends(c)) /\ Ends(c).pc = "off"
<1> DEFINE d == Ends(c)
<1>1. d \in Coordinator /\ d.pc = "off"
  BY DEF Ends, Coordinator, Pauses
<1> QED
  BY <1>1 DEF Sane, Active

LEMMA BeginsSane ==
    ASSUME NEW c \in Coordinator, c.queue # <<>>
    PROVE  Sane(Begins(c)) /\ Begins(c).pc = "resolving" /\ Begins(c).state = "running"
<1> DEFINE a == Head(c.queue)
           q == Tail(c.queue)
           m == c.manual \ {a}
           b == a \in c.manual
           s == IF Paused(c) THEN c.state ELSE "none"
           shown == IF b THEN "manual" ELSE "auto"
           d == [c EXCEPT !.queue = q, !.manual = m, !.pc = "resolving", !.acct = a,
                          !.isManual = b, !.saved = s, !.state = "running",
                          !.shown = shown]
<1>1. c.queue \in Seq(Accounts) /\ c.manual \in SUBSET Accounts
  BY DEF Coordinator
<1>2. a \in Accounts /\ q \in Seq(Accounts)
  BY <1>1
<1>3. m \in SUBSET Accounts /\ b \in BOOLEAN /\ shown \in {"auto", "manual"}
  BY <1>1
<1>4. s \in Pauses \cup {"none"}
  BY DEF Paused
<1>5. Begins(c) = d
  BY DEF Begins, Coordinator
<1>6. shown = IF b THEN "manual" ELSE "auto"
  OBVIOUS
<1> HIDE DEF a, q, m, b, s, shown
<1>d. d = [c EXCEPT !.queue = q, !.manual = m, !.pc = "resolving", !.acct = a,
                    !.isManual = b, !.saved = s, !.state = "running", !.shown = shown]
  OBVIOUS
<1> HIDE DEF d
<1>7. /\ d \in Coordinator
      /\ d.pc = "resolving" /\ d.state = "running" /\ d.acct = a
      /\ d.isManual = b /\ d.shown = shown
  BY <1>2, <1>3, <1>4, <1>d DEF Coordinator
<1>8. Display(d)
  BY <1>6, <1>7 DEF Display
<1> QED
  BY <1>2, <1>5, <1>7, <1>8 DEF Sane

LEMMA LoopHeadSane ==
    ASSUME NEW c \in Coordinator
    PROVE  Sane(LoopHead(c)) /\ LoopHead(c).pc # "invoked"
<1>1. ~Blocked(c) => c.queue # <<>>
  BY DEF Blocked
<1> QED
  BY <1>1, EndsSane, BeginsSane DEF LoopHead

LEMMA ProcessedGoes == ASSUME NEW c, Sane(c) PROVE Goes(c, Processed(c))
<1>1. c \in Coordinator
  BY DEF Sane
<1>2. CASE Processed(c) = c
  BY <1>2 DEF Goes, Active
<1>3. CASE ~Active(c) /\ Processed(c) = LoopHead(c)
  BY <1>1, <1>3, LoopHeadSane DEF Goes
<1> QED
  BY <1>2, <1>3 DEF Processed

LEMMA AfterRunSane ==
    ASSUME NEW c \in Coordinator PROVE Sane(AfterRun(c)) /\ AfterRun(c).pc # "invoked"
<1> DEFINE r == [c EXCEPT !.state = IF c.saved # "none" /\ ~Paused(c) THEN c.saved ELSE @]
<1>1. r \in Coordinator
  BY DEF Coordinator, Pauses
<1> HIDE DEF r
<1>2. AfterRun(c) = IF Paused(r) THEN Ends(r) ELSE LoopHead(r)
  BY DEF AfterRun, r
<1>3. "off" # "invoked"
  OBVIOUS
<1> QED
  BY <1>1, <1>2, EndsSane, LoopHeadSane

LEMMA GoesOn == ASSUME NEW c, NEW e, NEW d, Goes(c, e), Goes(e, d) PROVE Goes(c, d)
  BY DEF Goes, Active

(* The backup under way stays the same one.                                *)
LEMMA SameBackup ==
    ASSUME NEW c, NEW d, Sane(c), d \in Coordinator,
           d.pc = c.pc, d.acct = c.acct, d.isManual = c.isManual,
           d.shown \in {c.shown, "none"}, Paused(d) => Paused(c)
    PROVE  Goes(c, d)
  BY DEF Goes, Sane, Display, Active

LEMMA RequeuedGoes ==
    ASSUME NEW c, Sane(c), NEW q \in Seq(Accounts), NEW d, d = [c EXCEPT !.queue = q]
    PROVE  Goes(c, d)
<1>1. c \in Coordinator
  BY DEF Sane
<1>2. /\ d \in Coordinator /\ d.pc = c.pc /\ d.acct = c.acct /\ d.isManual = c.isManual
      /\ d.shown = c.shown /\ d.state = c.state
  BY <1>1 DEF Coordinator
<1> QED
  BY <1>2, SameBackup DEF Paused

LEMMA WithQueuedGoes ==
    ASSUME NEW c, Sane(c), NEW a \in Accounts PROVE Goes(c, WithQueued(c, a))
<1> DEFINE q == Append(c.queue, a)
           e == [c EXCEPT !.queue = q]
<1>1. q \in Seq(Accounts) /\ e = [c EXCEPT !.queue = Append(@, a)]
  BY DEF Sane, Coordinator
<1>2. Goes(c, e)
  BY <1>1, RequeuedGoes
<1> HIDE DEF e, q
<1>3. Goes(e, Processed(e))
  BY <1>2, ProcessedGoes DEF Goes
<1>4. Goes(c, c)
  BY DEF Goes, Active
<1> QED
  BY <1>1, <1>2, <1>3, <1>4, GoesOn DEF WithQueued

LEMMA AccountsFinite == IsFiniteSet(Accounts)
<1>1. Order \in Seq(Accounts)
  BY BackupAssumption
<1>2. Order \in Surjection(1 .. Len(Order), Accounts)
  BY <1>1 DEF Surjection, Accounts
<1>3. IsFiniteSet(1 .. Len(Order))
  BY <1>1, FS_Interval
<1> QED
  BY <1>2, <1>3, FS_Surjection

LEMMA NewlyDueType == ASSUME NEW c PROVE NewlyDue(c) \subseteq Seq(Accounts)
<1> DEFINE new == {a \in Accounts : due[a] = "due" /\ ~Running(c, a) /\ a \notin Queued(c)}
<1>1. new \subseteq Accounts
  OBVIOUS
<1>2. NewlyDue(c) \subseteq [1 .. Cardinality(new) -> new]
  BY DEF NewlyDue
<1> HIDE DEF new
<1>3. Cardinality(new) \in Nat
  BY <1>1, AccountsFinite, FS_Subset, FS_CardinalityType
<1> QED
  BY <1>1, <1>2, <1>3

LEMMA WithDueGoes ==
    ASSUME NEW c, Sane(c), NEW new \in Seq(Accounts) PROVE Goes(c, WithDue(c, new))
<1> DEFINE q == c.queue \o new
           e == [c EXCEPT !.queue = q]
<1>1. q \in Seq(Accounts) /\ e = [c EXCEPT !.queue = @ \o new]
  BY DEF Sane, Coordinator
<1>2. Goes(c, e)
  BY <1>1, RequeuedGoes
<1> HIDE DEF e, q
<1>3. Goes(e, Processed(e))
  BY <1>2, ProcessedGoes DEF Goes
<1>4. Goes(c, c)
  BY DEF Goes, Active
<1> QED
  BY <1>1, <1>2, <1>3, <1>4, GoesOn DEF WithDue

LEMMA ResumedGoes == ASSUME NEW c, Sane(c) PROVE Goes(c, Resumed(c))
<1> DEFINE a == c.interrupted
           again == a # None /\ a \notin Queued(c) /\ ~Running(c, a)
           q == IF again THEN <<a>> \o c.queue ELSE c.queue
           d == [c EXCEPT !.state = "idle", !.interrupted = None, !.queue = q]
<1>1. c \in Coordinator
  BY DEF Sane
<1>2. Resumed(c) = d
  BY <1>1 DEF Resumed, Coordinator
<1>3. q \in Seq(Accounts)
  BY <1>1 DEF Coordinator
<1> HIDE DEF q
<1>4. /\ d \in Coordinator /\ d.pc = c.pc /\ d.acct = c.acct /\ d.isManual = c.isManual
      /\ d.shown = c.shown /\ d.state = "idle"
  BY <1>1, <1>3 DEF Coordinator
<1>5. ~Paused(d)
  BY <1>4 DEF Paused, Pauses
<1> QED
  BY <1>2, <1>4, <1>5, SameBackup

-----------------------------------------------------------------------------
(* Types.  A native run belongs to the backup that waits for it and walks  *)
(* that account's folders.                                                 *)

InRun ==
    rust.pc # "none" =>
       /\ co.pc = "invoked"
       /\ rust.folder \in 1 .. Folders[co.acct] + 1
       /\ rust.pc \in {"fetch", "cancelled"} => rust.folder <= Folders[co.acct]

TypeInv == TypeOK /\ Sane(co) /\ InRun

LEMMA InitType == Init => TypeInv
<1> SUFFICES ASSUME Init PROVE TypeInv
  OBVIOUS
<1>1. co \in Coordinator /\ co.pc = "off"
  <2>1. <<>> \in Seq(Accounts)
    OBVIOUS
  <2> QED
    BY <2>1 DEF Init, Coordinator
<1>2. rust \in RustRun /\ rust.pc = "none"
  BY DEF Init, NoRun, RustRun
<1>3. /\ checkpoint \in [Accounts -> Nat] /\ \A a \in Accounts : checkpoint[a] <= Folders[a]
      /\ retries \in [Accounts -> 0 .. MaxRetries]
      /\ due \in [Accounts -> {"notyet", "due", "done"}]
  BY BackupAssumption DEF Init
<1>4. used \in [interrupts : 0 .. MaxInterrupts, asks : 0 .. MaxAsks, fails : 0 .. MaxFails]
  BY BackupAssumption DEF Init
<1> QED
  BY <1>1, <1>2, <1>3, <1>4 DEF Init, TypeInv, TypeOK, Sane, Active, InRun

(* What a step does not touch keeps its type.                              *)
Counters ==
    /\ waiting \subseteq Accounts
    /\ timers \subseteq {<<"check">>, <<"wake">>, <<"clear">>} \cup ({"retry"} \X Accounts)
    /\ wasIdle \in BOOLEAN /\ online \in BOOLEAN
    /\ used \in [interrupts : 0 .. MaxInterrupts, asks : 0 .. MaxAsks, fails : 0 .. MaxFails]

Books ==
    /\ checkpoint \in [Accounts -> Nat]
    /\ \A a \in Accounts : checkpoint[a] <= Folders[a]
    /\ retries \in [Accounts -> 0 .. MaxRetries]
    /\ due \in [Accounts -> {"notyet", "due", "done"}]

LEMMA TypeParts ==
    /\ TypeInv => Counters /\ Books
    /\ /\ Sane(co)' /\ Counters' /\ Books' /\ rust' \in RustRun /\ stored' \subseteq AllFolders
       /\ InRun'
       => TypeInv'
  BY DEF TypeInv, TypeOK, Counters, Books, Sane

LEMMA SpentType ==
    ASSUME TypeInv, NEW what \in {"interrupts", "asks", "fails"}, Spent(what),
           what = "interrupts" => used.interrupts < MaxInterrupts,
           what = "asks" => used.asks < MaxAsks,
           what = "fails" => used.fails < MaxFails
    PROVE  used' \in [interrupts : 0 .. MaxInterrupts, asks : 0 .. MaxAsks,
                      fails : 0 .. MaxFails]
  BY BackupAssumption DEF Spent, TypeInv, TypeOK

-----------------------------------------------------------------------------
(* The four kinds of steps.                                                *)

Waits ==
    Goes(co, co') /\ Counters' /\ Books' /\ UNCHANGED <<rust, stored>>

LEMMA WaitsSteps ==
    ASSUME TypeInv,
           \/ IdleTick \/ Wakes \/ Online \/ CheckFires \/ ClearFires
           \/ \E a \in Accounts : RetryFires(a) \/ ComesDue(a) \/ TriggerManual(a)
           \/ UNCHANGED vars
    PROVE  Waits
<1>s. Sane(co) /\ Counters /\ Books /\ Goes(co, co)
  BY TypeParts DEF TypeInv, Goes, Active
<1>b. UNCHANGED books => Books'
  BY <1>s DEF Books, books
<1>1. CASE IdleTick
  <2> DEFINE wakes == ~wasIdle /\ co.state = "paused_user_active"
             c == IF wakes THEN Resumed(co) ELSE co
  <2>1. Goes(co, c)
    BY <1>s, ResumedGoes
  <2>2. PICK new \in NewlyDue(c) : co' = WithDue(c, new)
    BY <1>1 DEF IdleTick
  <2> HIDE DEF c
  <2>3. Goes(co, co')
    BY <2>1, <2>2, NewlyDueType, WithDueGoes, GoesOn DEF Goes
  <2>4. Counters' /\ UNCHANGED <<books, rust, stored>>
    BY <1>1, <1>s DEF IdleTick, Counters
  <2> QED
    BY <1>b, <2>3, <2>4 DEF Waits
<1>2. CASE Wakes \/ Online
  <2>1. Goes(co, co')
    BY <1>2, <1>s, ResumedGoes DEF Wakes, Online
  <2>2. Counters' /\ UNCHANGED <<books, rust, stored>>
    BY <1>2, <1>s DEF Wakes, Online, Counters, hook
  <2> QED
    BY <1>b, <2>1, <2>2 DEF Waits
<1>3. CASE CheckFires
  <2>1. Goes(co, co')
    BY <1>3, <1>s, NewlyDueType, WithDueGoes DEF CheckFires
  <2>2. Counters' /\ UNCHANGED <<books, rust, stored>>
    BY <1>3, <1>s DEF CheckFires, Counters, hook
  <2> QED
    BY <1>b, <2>1, <2>2 DEF Waits
<1>4. CASE ClearFires
  <2>0. co \in Coordinator
    BY <1>s DEF Sane
  <2>1. co' = [co EXCEPT !.shown = "none"]
    BY <1>4 DEF ClearFires
  <2>2. /\ co' \in Coordinator /\ co'.pc = co.pc /\ co'.acct = co.acct
        /\ co'.isManual = co.isManual /\ co'.shown = "none" /\ co'.state = co.state
    BY <2>0, <2>1 DEF Coordinator
  <2>3. Goes(co, co')
    BY <1>s, <2>2, SameBackup DEF Paused
  <2>4. Counters' /\ UNCHANGED <<books, rust, stored>>
    BY <1>4, <1>s DEF ClearFires, Counters, hook
  <2> QED
    BY <1>b, <2>3, <2>4 DEF Waits
<1>5. ASSUME NEW a \in Accounts, RetryFires(a) PROVE Waits
  <2>1. Goes(co, co')
    BY <1>5, <1>s, WithQueuedGoes DEF RetryFires
  <2>2. Counters' /\ UNCHANGED <<books, rust, stored>>
    BY <1>5, <1>s DEF RetryFires, Counters, hook
  <2> QED
    BY <1>b, <2>1, <2>2 DEF Waits
<1>6. ASSUME NEW a \in Accounts, ComesDue(a) PROVE Waits
  BY <1>6, <1>s DEF ComesDue, Waits, Counters, Books, hook
<1>7. ASSUME NEW a \in Accounts, TriggerManual(a) PROVE Waits
  <2> DEFINE c == [co EXCEPT !.manual = @ \cup {a}]
  <2>0. co \in Coordinator
    BY <1>s DEF Sane
  <2>1. /\ c \in Coordinator /\ c.pc = co.pc /\ c.acct = co.acct
        /\ c.isManual = co.isManual /\ c.shown = co.shown /\ c.state = co.state
    BY <2>0 DEF Coordinator
  <2>2. co' = WithQueued(c, a)
    BY <1>7 DEF TriggerManual
  <2> HIDE DEF c
  <2>3. Goes(co, c)
    BY <1>s, <2>1, SameBackup DEF Paused
  <2>4. Goes(co, co')
    BY <2>2, <2>3, WithQueuedGoes, GoesOn DEF Goes
  <2>5. used' \in [interrupts : 0 .. MaxInterrupts, asks : 0 .. MaxAsks, fails : 0 .. MaxFails]
    BY <1>7, SpentType DEF TriggerManual
  <2>6. Counters' /\ UNCHANGED <<books, rust, stored>>
    BY <1>7, <1>s, <2>5 DEF TriggerManual, Counters, hook
  <2> QED
    BY <1>b, <2>4, <2>6 DEF Waits
<1>8. CASE UNCHANGED vars
  BY <1>8, <1>s DEF vars, hook, books, Waits, Counters, Books
<1> QED
  BY <1>1, <1>2, <1>3, <1>4, <1>5, <1>6, <1>7, <1>8

(* A pause tells the native run to stop.                                   *)
Pausing ==
    /\ Sane(co)' /\ Counters' /\ Books' /\ UNCHANGED stored
    /\ co'.pc = co.pc /\ co'.acct = co.acct
    /\ rust' = Cancelled

LEMMA PausesSteps ==
    ASSUME TypeInv, UserActs \/ SleepNoticed \/ Offline
    PROVE  Waits \/ Pausing
<1>s. Sane(co) /\ Counters /\ Books /\ Goes(co, co)
  BY TypeParts DEF TypeInv, Goes, Active
<1>b. UNCHANGED books => Books'
  BY <1>s DEF Books, books
<1>1. Counters' /\ UNCHANGED <<books, stored>>
  <2>1. used' \in [interrupts : 0 .. MaxInterrupts, asks : 0 .. MaxAsks, fails : 0 .. MaxFails]
    BY SpentType DEF UserActs, SleepNoticed, Offline
  <2> QED
    BY <1>s, <2>1 DEF UserActs, SleepNoticed, Offline, Counters, hook
<1>2. ASSUME NEW reason \in Pauses, PausesFor(reason) PROVE Pausing
  <2> DEFINE kept == IF Active(co) THEN co.acct ELSE co.interrupted
  <2>1. co \in Coordinator /\ kept \in Accounts \cup {None}
    BY <1>s DEF Sane, Coordinator
  <2>2. co' = [co EXCEPT !.state = reason, !.interrupted = kept]
    BY <1>2, <2>1 DEF PausesFor, Coordinator
  <2> HIDE DEF kept
  <2>3. /\ co' \in Coordinator /\ co'.pc = co.pc /\ co'.acct = co.acct
        /\ co'.isManual = co.isManual /\ co'.shown = co.shown
    BY <2>1, <2>2 DEF Coordinator
  <2>4. Sane(co)'
    BY <1>s, <2>3 DEF Sane, Active, Display
  <2>5. rust' = Cancelled
    <3>1. CASE Active(co)
      BY <1>2, <3>1 DEF PausesFor
    <3>2. CASE ~Active(co)
      <4>1. rust.pc = "none" /\ rust \in RustRun /\ rust' = rust
        BY <1>2, <3>2 DEF PausesFor, TypeInv, TypeOK, InRun, Active
      <4>2. ~RunUnderWay /\ rust.flag \in BOOLEAN
        BY <4>1 DEF RunUnderWay, RustRun
      <4>3. Cancelled = rust
        BY <4>1, <4>2 DEF Cancelled, RustRun
      <4> QED
        BY <4>1, <4>3
    <3> QED
      BY <3>1, <3>2
  <2> QED
    BY <1>1, <1>b, <2>3, <2>4, <2>5 DEF Pausing
<1>3. CASE UNCHANGED <<co, rust>>
  BY <1>1, <1>3, <1>b, <1>s DEF Waits
<1> QED
  BY <1>2, <1>3 DEF UserActs, SleepNoticed, Offline, Pauses

(* A step of the native run, which leaves the coordinator alone.           *)
Runs ==
    /\ co.pc = "invoked" /\ UNCHANGED co /\ Counters' /\ Books'
    /\ rust.pc # "none" /\ rust'.pc # "none"
    /\ FolderBegins \/ Fetches \/ FetchFails \/ RunFails

LEMMA RunsSteps ==
    ASSUME TypeInv, FolderBegins \/ Fetches \/ FetchFails \/ RunFails PROVE Runs
<1>s. Counters /\ Books /\ rust \in RustRun
  BY TypeParts DEF TypeInv, TypeOK
<1>b. UNCHANGED books => Books'
  BY <1>s DEF Books, books
<1>1. UNCHANGED <<co, books, waiting, timers, hook>>
  BY DEF FolderBegins, Fetches, FetchFails, RunFails
<1>2. used' \in [interrupts : 0 .. MaxInterrupts, asks : 0 .. MaxAsks, fails : 0 .. MaxFails]
  BY <1>s, SpentType DEF FolderBegins, Fetches, FetchFails, RunFails, Counters
<1>3. Counters'
  BY <1>s, <1>1, <1>2 DEF Counters, hook
<1>4. rust.pc # "none" /\ rust'.pc # "none"
  BY <1>s DEF FolderBegins, Fetches, FetchFails, RunFails, RustRun
<1>5. co.pc = "invoked"
  BY <1>4 DEF TypeInv, InRun
<1> QED
  BY <1>1, <1>3, <1>4, <1>5, <1>b DEF Runs

(* What the run makes of rust.                                             *)
LEMMA RunsType ==
    ASSUME TypeInv, Runs
    PROVE  rust' \in RustRun /\ stored' \subseteq AllFolders /\ InRun'
<1>s. /\ rust \in RustRun /\ co.acct \in Accounts /\ Folders[co.acct] \in Nat
      /\ rust.folder \in 1 .. Folders[co.acct] + 1
      /\ rust.pc = "fetch" => rust.folder <= Folders[co.acct]
      /\ UNCHANGED co /\ co.pc = "invoked"
  BY BackupAssumption DEF TypeInv, TypeOK, Sane, Active, InRun, Runs
<1>1. CASE FolderBegins
  <2>1. \/ rust.folder > Folders[co.acct] /\ rust' = [rust EXCEPT !.pc = "complete"]
        \/ rust.folder <= Folders[co.acct] /\ rust' = [rust EXCEPT !.pc = "cancelled"]
        \/ rust.folder <= Folders[co.acct] /\ rust.pc = "folder"
              /\ rust' = [rust EXCEPT !.folder = rust.folder + 1]
        \/ rust.folder <= Folders[co.acct] /\ rust' = [rust EXCEPT !.pc = "fetch"]
    BY <1>1, <1>s DEF FolderBegins, RustRun
  <2>2. UNCHANGED stored
    BY <1>1 DEF FolderBegins
  <2> QED
    BY <1>s, <2>1, <2>2 DEF RustRun, InRun, TypeInv, TypeOK
<1>2. CASE Fetches
  <2>1. rust' = [rust EXCEPT !.pc = "folder", !.folder = rust.folder + 1] /\ rust.pc = "fetch"
    BY <1>2, <1>s DEF Fetches, RustRun
  <2>2. stored' \subseteq stored \cup {<<co.acct, rust.folder>>}
    BY <1>2 DEF Fetches
  <2>3. <<co.acct, rust.folder>> \in AllFolders
    BY <1>s, <2>1 DEF AllFolders
  <2>n. rust.folder + 1 \in Nat /\ rust \in RustRun
    BY <1>s
  <2>4. rust' \in RustRun /\ rust'.pc = "folder" /\ rust'.folder = rust.folder + 1
    BY <2>n, <2>1 DEF RustRun
  <2>5. stored' \subseteq AllFolders
    BY <2>2, <2>3 DEF TypeInv, TypeOK
  <2> QED
    BY <1>s, <2>1, <2>4, <2>5 DEF InRun
<1>3. CASE FetchFails
  <2>1. PICK limit \in BOOLEAN :
          rust' = [rust EXCEPT !.pc = "folder", !.folder = rust.folder + 1,
                               !.errors = TRUE, !.flag = limit]
    BY <1>3, <1>s DEF FetchFails, RustRun
  <2>2. rust.pc = "fetch" /\ UNCHANGED stored
    BY <1>3 DEF FetchFails
  <2>n. rust.folder + 1 \in Nat /\ rust \in RustRun
    BY <1>s
  <2>3. rust' \in RustRun /\ rust'.pc = "folder" /\ rust'.folder = rust.folder + 1
    BY <2>n, <2>1 DEF RustRun
  <2> QED
    BY <1>s, <2>2, <2>3 DEF InRun, TypeInv, TypeOK
<1>4. CASE RunFails
  BY <1>4, <1>s DEF RunFails, RustRun, InRun, TypeInv, TypeOK
<1> QED
  BY <1>1, <1>2, <1>3, <1>4 DEF Runs

(* A backup is over.                                                       *)
Over ==
    /\ Sane(co)' /\ Counters' /\ Books' /\ UNCHANGED stored
    /\ rust' \in RustRun /\ rust'.pc = "none"

LEMMA OverSteps ==
    ASSUME TypeInv, CredentialsFail \/ HandlesCancelled \/ HandlesComplete \/ HandlesError
    PROVE  Over
<1>s. /\ Counters /\ Books /\ co \in Coordinator /\ rust \in RustRun
      /\ co.acct \in Accounts \cup {None} /\ co.pc \in {"off", "resolving", "invoked"}
  BY TypeParts DEF TypeInv, TypeOK, Coordinator
<1>a. co.pc # "off" => co.acct \in Accounts
  BY DEF TypeInv, Sane, Active
<1>r. rust.pc # "none" => co.pc # "off" /\ rust.folder \in 1 .. Folders[co.acct] + 1
  BY DEF TypeInv, InRun
<1>n. NoRun \in RustRun /\ NoRun.pc = "none"
  BY DEF NoRun, RustRun
<1>f. ASSUME NEW c \in Coordinator, NEW more \in SUBSET ({"retry"} \X Accounts), Finally(c, more)
      PROVE  /\ Sane(co)' /\ rust' = NoRun
             /\ timers' \subseteq {<<"check">>, <<"wake">>, <<"clear">>} \cup ({"retry"} \X Accounts)
  <2>1. NextShown(c) \in Coordinator
    BY DEF NextShown, Coordinator
  <2>2. ClearSet(c) \subseteq {<<"clear">>}
    BY DEF ClearSet
  <2> QED
    BY <1>f, <1>s, <2>1, <2>2, AfterRunSane DEF Finally, Counters
<1>1. CASE CredentialsFail
  <2>1. [co EXCEPT !.shown = "none"] \in Coordinator
    BY <1>s DEF Coordinator
  <2>2. Sane(co)'
    BY <1>1, <2>1, AfterRunSane DEF CredentialsFail
  <2>3. rust' = rust /\ rust.pc = "none"
    BY <1>1 DEF CredentialsFail, TypeInv, InRun
  <2>4. used' \in [interrupts : 0 .. MaxInterrupts, asks : 0 .. MaxAsks, fails : 0 .. MaxFails]
    BY <1>1, SpentType DEF CredentialsFail
  <2>5. Counters' /\ Books' /\ UNCHANGED stored
    BY <1>1, <1>s, <2>4 DEF CredentialsFail, Answers, Counters, Books, books, hook
  <2> QED
    BY <1>s, <2>2, <2>3, <2>5 DEF Over
<1>2. CASE HandlesCancelled
  <2>1. /\ rust.pc = "cancelled" /\ Finally(co, {}) /\ Answers(co.acct)
        /\ checkpoint' = [checkpoint EXCEPT ![co.acct] = rust.folder - 1]
        /\ UNCHANGED <<retries, due, hook, stored, used>>
    BY <1>2 DEF HandlesCancelled
  <2>2. rust.folder - 1 \in Nat /\ rust.folder - 1 <= Folders[co.acct]
    BY <1>a, <1>r, <2>1, BackupAssumption
  <2>3. Books'
    BY <1>s, <2>1, <2>2 DEF Books
  <2>4. Sane(co)' /\ rust' = NoRun /\ Counters'
    BY <1>f, <1>s, <2>1 DEF Answers, Counters, hook
  <2> QED
    BY <1>n, <2>1, <2>3, <2>4 DEF Over
<1>3. CASE HandlesComplete
  <2>1. /\ Finally(co, {}) /\ Answers(co.acct)
        /\ checkpoint' = [checkpoint EXCEPT ![co.acct] = 0]
        /\ retries' = [retries EXCEPT ![co.acct] = 0]
        /\ due' = [due EXCEPT ![co.acct] = "done"]
        /\ UNCHANGED <<hook, stored, used>>
    BY <1>3 DEF HandlesComplete
  <2>2. co.acct \in Accounts
    BY <1>3, <1>a, <1>r DEF HandlesComplete
  <2>3. Books'
    <3>1. 0 \in Nat /\ 0 \in 0 .. MaxRetries /\ \A a \in Accounts : 0 <= Folders[a]
      BY BackupAssumption
    <3>2. checkpoint' \in [Accounts -> Nat] /\ \A a \in Accounts : checkpoint'[a] <= Folders[a]
      BY <1>s, <2>1, <2>2, <3>1 DEF Books
    <3> QED
      BY <1>s, <2>1, <2>2, <3>1, <3>2 DEF Books
  <2>4. Sane(co)' /\ rust' = NoRun /\ Counters'
    BY <1>f, <1>s, <2>1 DEF Answers, Counters, hook
  <2> QED
    BY <1>n, <2>1, <2>3, <2>4 DEF Over
<1>4. CASE HandlesError
  <2> DEFINE a == co.acct
  <2>0. a \in Accounts /\ UNCHANGED <<checkpoint, hook, stored, used>>
    BY <1>4, <1>a, <1>r DEF HandlesError
  <2>1. CASE Paused(co) /\ Answers(a) /\ Finally([co EXCEPT !.interrupted = a], {})
             /\ UNCHANGED <<retries, due>>
    <3>1. [co EXCEPT !.interrupted = a] \in Coordinator
      BY <1>s, <2>0 DEF Coordinator
    <3>2. Sane(co)' /\ rust' = NoRun /\ Counters'
      BY <1>f, <1>s, <2>0, <2>1, <3>1 DEF Answers, Counters, hook
    <3> QED
      BY <1>n, <1>s, <2>0, <2>1, <3>2 DEF Over, Books
  <2>2. CASE /\ retries[a] < MaxRetries /\ retries' = [retries EXCEPT ![a] = @ + 1]
             /\ Finally(co, {<<"retry", a>>}) /\ UNCHANGED <<waiting, due>>
    <3>1. {<<"retry", a>>} \in SUBSET ({"retry"} \X Accounts)
      BY <2>0
    <3>2. Sane(co)' /\ rust' = NoRun /\ Counters'
      BY <1>f, <1>s, <2>0, <2>2, <3>1 DEF Counters, hook
    <3>3. retries' \in [Accounts -> 0 .. MaxRetries]
      BY <1>s, <2>0, <2>2, BackupAssumption DEF Books
    <3> QED
      BY <1>n, <1>s, <2>0, <2>2, <3>2, <3>3 DEF Over, Books
  <2>3. CASE /\ retries' = [retries EXCEPT ![a] = 0] /\ due' = [due EXCEPT ![a] = "done"]
             /\ Answers(a) /\ Finally(co, {})
    <3>1. Sane(co)' /\ rust' = NoRun /\ Counters'
      BY <1>f, <1>s, <2>0, <2>3 DEF Answers, Counters, hook
    <3>2. Books'
      BY <1>s, <2>0, <2>3, BackupAssumption DEF Books
    <3> QED
      BY <1>n, <2>0, <3>1, <3>2 DEF Over
  <2> QED
    BY <1>4, <2>1, <2>2, <2>3 DEF HandlesError
<1> QED
  BY <1>1, <1>2, <1>3, <1>4

LEMMA Kinds == ASSUME TypeInv, [Next]_vars PROVE Waits \/ Pausing \/ Runs \/ Over \/ RunStarts
<1>1. CASE \/ IdleTick \/ Wakes \/ Online \/ CheckFires \/ ClearFires
           \/ \E a \in Accounts : RetryFires(a) \/ ComesDue(a) \/ TriggerManual(a)
           \/ UNCHANGED vars
  BY <1>1, WaitsSteps
<1>2. CASE UserActs \/ SleepNoticed \/ Offline
  BY <1>2, PausesSteps
<1>3. CASE FolderBegins \/ Fetches \/ FetchFails \/ RunFails
  BY <1>3, RunsSteps
<1>4. CASE CredentialsFail \/ HandlesCancelled \/ HandlesComplete \/ HandlesError
  BY <1>4, OverSteps
<1> QED
  BY <1>1, <1>2, <1>3, <1>4 DEF Next, System, User

(* The native run of an account that skips what its checkpoint says.       *)
LEMMA StartsType ==
    ASSUME TypeInv, RunStarts
    PROVE  /\ TypeInv'
           /\ rust' = [NoRun EXCEPT !.pc = "folder", !.folder = 1,
                          !.skip = checkpoint[co.acct], !.late = Paused(co)]
           /\ rust'.pc = "folder" /\ rust'.folder = 1 /\ rust'.late = Paused(co)
           /\ Paused(co)' = Paused(co) /\ co'.acct = co.acct
<1>s. /\ Counters /\ Books /\ co \in Coordinator /\ Sane(co) /\ co.acct \in Accounts
      /\ co.pc = "resolving"
  BY TypeParts DEF TypeInv, Sane, Active, RunStarts
<1>1. co' = [co EXCEPT !.pc = "invoked"]
  BY DEF RunStarts
<1>2. /\ co' \in Coordinator /\ co'.pc = "invoked" /\ co'.acct = co.acct
      /\ co'.isManual = co.isManual /\ co'.shown = co.shown /\ co'.state = co.state
  BY <1>1, <1>s DEF Coordinator
<1>3. Sane(co)' /\ Paused(co)' = Paused(co)
  BY <1>2, <1>s DEF Sane, Active, Display, Paused
<1>4. rust' = [NoRun EXCEPT !.pc = "folder", !.folder = 1,
                 !.skip = checkpoint[co.acct], !.late = Paused(co)]
  BY DEF RunStarts
<1>5. checkpoint[co.acct] \in Nat /\ Paused(co) \in BOOLEAN
  BY <1>s DEF Books, Paused
<1>6. rust' \in RustRun /\ rust'.pc = "folder" /\ rust'.folder = 1 /\ rust'.late = Paused(co)
  BY <1>4, <1>5 DEF NoRun, RustRun
<1>7. InRun'
  BY <1>2, <1>6, <1>s, BackupAssumption DEF InRun
<1>8. Counters' /\ Books' /\ stored' \subseteq AllFolders
  BY <1>s DEF RunStarts, Counters, Books, books, hook, TypeInv, TypeOK
<1> QED
  BY <1>2, <1>3, <1>4, <1>6, <1>7, <1>8, TypeParts

LEMMA NextType == ASSUME TypeInv, [Next]_vars PROVE TypeInv'
<1>s. rust \in RustRun /\ stored \subseteq AllFolders /\ InRun
  BY DEF TypeInv, TypeOK
<1>1. CASE Waits
  <2>1. InRun'
    BY <1>1, <1>s DEF Waits, Goes, Active, InRun
  <2> QED
    BY <1>1, <1>s, <2>1, TypeParts DEF Waits, Goes
<1>2. CASE Pausing
  <2>1. /\ rust' \in RustRun /\ rust'.pc = rust.pc /\ rust'.folder = rust.folder
    BY <1>2, <1>s DEF Pausing, Cancelled, RunUnderWay, RustRun
  <2>2. InRun'
    BY <1>2, <1>s, <2>1 DEF Pausing, InRun
  <2> QED
    BY <1>2, <1>s, <2>1, <2>2, TypeParts DEF Pausing
<1>3. CASE Runs
  <2>1. Sane(co)'
    BY <1>3 DEF Runs, TypeInv, Sane, Active, Display
  <2> QED
    BY <1>3, <2>1, RunsType, TypeParts DEF Runs
<1>4. CASE Over
  <2>1. InRun'
    BY <1>4 DEF Over, InRun
  <2> QED
    BY <1>4, <1>s, <2>1, TypeParts DEF Over
<1>5. CASE RunStarts
  BY <1>5, StartsType
<1> QED
  BY <1>1, <1>2, <1>3, <1>4, <1>5, Kinds

(* Every reachable state of the coordinator is well typed; in particular   *)
(* _runBackup always has an account.  (backupScheduler.js)                 *)
THEOREM CoordinatorTyping == Spec => []TypeOK
<1>1. TypeInv => TypeOK
  BY DEF TypeInv
<1> QED
  BY <1>1, InitType, NextType, PTL DEF Spec

(* "Only pause automatic backups, not manual ones": the display never says *)
(* of the backup under way that it is of the other kind.  It may say       *)
(* nothing, once the timer of the backup before has cleared it, and user   *)
(* activity then pauses a manual one.  (backupScheduler.js:56, 550)        *)
THEOREM ManualIsTold == Spec => []DisplayTellsManual
<1>1. TypeInv => DisplayTellsManual
  BY DEF TypeInv, Sane, Display, DisplayTellsManual
<1> QED
  BY <1>1, InitType, NextType, PTL DEF Spec

-----------------------------------------------------------------------------
(* "Cancel the Rust-side backup": a native run that began before the pause *)
(* has been told to stop, whatever timers, wakes, requests and queued      *)
(* accounts come between.  (backupScheduler.js:509, backup_cancel)         *)
THEOREM PausesReachTheRun == Spec => []PauseStopsTheRun
<1>1. Init => PauseStopsTheRun
  BY DEF Init, NoRun, PauseStopsTheRun, RunUnderWay
<1>2. TypeInv /\ PauseStopsTheRun /\ [Next]_vars => PauseStopsTheRun'
  <2> SUFFICES ASSUME TypeInv, PauseStopsTheRun, [Next]_vars PROVE PauseStopsTheRun'
    OBVIOUS
  <2>s. rust \in RustRun /\ (rust.pc # "none" => Active(co))
    BY DEF TypeInv, TypeOK, InRun, Active
  <2>1. CASE Waits
    BY <2>1, <2>s DEF Waits, Goes, PauseStopsTheRun, RunUnderWay
  <2>2. CASE Pausing
    <3>1. rust'.pc = rust.pc /\ (RunUnderWay => rust'.flag)
      BY <2>2, <2>s DEF Pausing, Cancelled, RustRun
    <3> QED
      BY <3>1 DEF PauseStopsTheRun, RunUnderWay
  <2>3. CASE Runs
    <3>1. CASE FolderBegins \/ Fetches \/ RunFails
      <4>1. rust'.flag = rust.flag /\ rust'.late = rust.late
        BY <2>s, <3>1 DEF FolderBegins, Fetches, RunFails, RustRun
      <4>2. RunUnderWay
        BY <3>1 DEF FolderBegins, Fetches, RunFails, RunUnderWay
      <4>3. Paused(co)' = Paused(co)
        BY <2>3 DEF Runs, Paused
      <4> QED
        BY <4>1, <4>2, <4>3 DEF PauseStopsTheRun
    <3>2. CASE FetchFails
      <4>1. rust'.late = rust.late /\ ~rust.flag /\ RunUnderWay
        BY <2>s, <3>2 DEF FetchFails, RustRun, RunUnderWay
      <4>2. Paused(co)' = Paused(co)
        BY <2>3 DEF Runs, Paused
      <4> QED
        BY <4>1, <4>2 DEF PauseStopsTheRun
    <3> QED
      BY <2>3, <3>1, <3>2 DEF Runs
  <2>4. CASE Over
    BY <2>4 DEF Over, PauseStopsTheRun, RunUnderWay
  <2>5. CASE RunStarts
    BY <2>5, StartsType DEF PauseStopsTheRun
  <2> QED
    BY <2>1, <2>2, <2>3, <2>4, <2>5, Kinds
<1> QED
  BY <1>1, <1>2, InitType, NextType, PTL DEF Spec

-----------------------------------------------------------------------------
(* A run without errors that was not told to stop has stored every folder  *)
(* it is past and did not skip.                                            *)
StoredSoFar ==
    rust.pc \in {"folder", "fetch", "complete"} /\ ~rust.errors /\ ~rust.flag =>
       /\ \A i \in 1 .. Folders[co.acct] :
             i > rust.skip /\ i < rust.folder => <<co.acct, i>> \in stored
       /\ rust.pc = "complete" => rust.folder > Folders[co.acct]

LEMMA StoredNext == ASSUME TypeInv, StoredSoFar, [Next]_vars PROVE StoredSoFar'
<1>s. /\ rust \in RustRun /\ (rust.pc # "none" => Active(co))
      /\ rust.pc # "none" => co.acct \in Accounts /\ Folders[co.acct] \in Nat
  BY BackupAssumption DEF TypeInv, TypeOK, InRun, Active, Sane
<1>1. CASE Waits
  BY <1>1, <1>s DEF Waits, Goes, StoredSoFar
<1>2. CASE Pausing
  <2>1. /\ rust'.pc = rust.pc /\ rust'.folder = rust.folder /\ rust'.skip = rust.skip
        /\ rust'.errors = rust.errors /\ (~rust'.flag => ~rust.flag)
    BY <1>2, <1>s DEF Pausing, Cancelled, RustRun
  <2> QED
    BY <1>2, <2>1 DEF Pausing, StoredSoFar
<1>3. CASE Runs
  <2>0. co' = co /\ co.acct \in Accounts /\ Folders[co.acct] \in Nat
    BY <1>3, <1>s DEF Runs
  <2>1. CASE FolderBegins
    <3>1. /\ rust'.skip = rust.skip /\ rust'.errors = rust.errors /\ rust'.flag = rust.flag
          /\ UNCHANGED stored /\ rust.pc = "folder"
      BY <2>1, <1>s DEF FolderBegins, RustRun
    <3>2. \/ rust'.folder = rust.folder /\ (rust'.pc = "complete" => rust.folder > Folders[co.acct])
          \/ /\ rust'.folder = rust.folder + 1 /\ rust'.pc = "folder"
             /\ rust.folder <= rust.skip \/ <<co.acct, rust.folder>> \in stored
      BY <2>1, <1>s, <2>0 DEF FolderBegins, RustRun, Skips
    <3>3. rust.folder \in Nat /\ rust.skip \in Nat
      BY <1>s DEF RustRun
    <3> QED
      BY <2>0, <3>1, <3>2, <3>3 DEF StoredSoFar
  <2>2. CASE Fetches
    <3>1. /\ rust'.pc = "folder" /\ rust'.folder = rust.folder + 1 /\ rust.pc = "fetch"
          /\ rust'.skip = rust.skip /\ rust'.errors = rust.errors /\ rust'.flag = rust.flag
          /\ rust.folder \in Nat
      BY <2>2, <1>s DEF Fetches, RustRun
    <3>2. /\ ~rust.flag => stored' = stored \cup {<<co.acct, rust.folder>>}
      BY <2>2 DEF Fetches
    <3> QED
      BY <2>0, <3>1, <3>2 DEF StoredSoFar
  <2>3. CASE FetchFails
    BY <2>3, <1>s DEF FetchFails, RustRun, StoredSoFar
  <2>4. CASE RunFails
    BY <2>4, <1>s DEF RunFails, RustRun, StoredSoFar
  <2> QED
    BY <1>3, <2>1, <2>2, <2>3, <2>4 DEF Runs
<1>4. CASE Over
  BY <1>4 DEF Over, StoredSoFar
<1>5. CASE RunStarts
  <2>1. rust'.pc = "folder" /\ rust'.folder = 1
    BY <1>5, StartsType
  <2> QED
    BY <2>1 DEF StoredSoFar
<1> QED
  BY <1>1, <1>2, <1>3, <1>4, <1>5, Kinds

(* A backup reported complete and without errors has stored the message of *)
(* every folder that its checkpoint did not let it skip, unless it had     *)
(* been told to stop.  (backup.rs:670-785, 820)                            *)
THEOREM CompleteIsStored == Spec => []SuccessIsComplete
<1>1. Init => StoredSoFar
  BY DEF Init, NoRun, StoredSoFar
<1>2. TypeInv /\ StoredSoFar => SuccessIsComplete
  <2> SUFFICES ASSUME TypeInv, StoredSoFar, rust.pc = "complete", ~rust.errors, ~rust.flag,
                      NEW i \in 1 .. Folders[co.acct], i > rust.skip
               PROVE  <<co.acct, i>> \in stored
    BY DEF SuccessIsComplete
  <2>1. co.acct \in Accounts /\ Folders[co.acct] \in Nat /\ rust.folder \in Nat
    BY BackupAssumption DEF TypeInv, TypeOK, InRun, Active, Sane, RustRun
  <2> QED
    BY <2>1 DEF StoredSoFar
<1>3. TypeInv /\ StoredSoFar /\ [Next]_vars => StoredSoFar'
  BY StoredNext
<1> QED
  BY <1>1, <1>2, <1>3, InitType, NextType, PTL DEF Spec

-----------------------------------------------------------------------------
(* The jobs side by side: the one that runs takes its own steps and the    *)
(* others rest, so a behaviour of the application is one of every job.     *)

LEMMA MigrationAlone == [JobNext]_JobVars => [M!Next]_(M!migration)
BY DEF JobNext, JobVars, BackupStep, MigrationStep, VaultStep, BulkStep,
       migrationVars, M!migration

LEMMA VaultAlone == [JobNext]_JobVars => [V!Next]_(V!vault)
BY DEF JobNext, JobVars, BackupStep, MigrationStep, VaultStep, BulkStep,
       vaultVars, V!vault

LEMMA BulkAlone == [JobNext]_JobVars => [B!Next]_(B!vars)
BY DEF JobNext, JobVars, BackupStep, MigrationStep, VaultStep, BulkStep, bulkVars,
       B!vars, B!manager, B!commands, B!recovery, B!mail, B!history, B!bounds

LEMMA BackupAlone == [JobNext]_JobVars => [Next]_vars
BY DEF JobNext, JobVars, BackupStep, MigrationStep, VaultStep, BulkStep

(* The application runs each of its jobs as that job's module specifies    *)
(* it: the composed specification implements all four.                     *)
(* (BackgroundScheduler, migration.rs, vault.rs, BulkOperationManager.js)  *)
THEOREM JobsImplemented == JobSpec => Spec /\ M!Spec /\ V!Spec /\ B!Spec
<1>1. JobInit => Init /\ M!Init /\ V!Init /\ B!Init
  BY DEF JobInit
<1> QED
  BY <1>1, MigrationAlone, VaultAlone, BulkAlone, BackupAlone, PTL
     DEF JobSpec, Spec, M!Spec, V!Spec, B!Spec

(* Every value the jobs keep in memory and on disk stays of its kind.      *)
THEOREM JobsTyping == JobSpec => []JobsTypeOK
<1>1. TypeOK /\ M!TypeOK /\ V!TypeOK => JobsTypeOK
  BY DEF JobsTypeOK
<1>2. Spec => []TypeOK
  BY CoordinatorTyping
<1>3. M!Spec => []M!TypeOK
  BY JobsAssumption, M!Typing
<1>4. V!Spec => []V!TypeOK
  BY JobsAssumption, V!Typing
<1> QED
  BY <1>1, <1>2, <1>3, <1>4, JobsImplemented, PTL

(* Of every message of a folder a migration calls completed, a copy of it  *)
(* or of one with its Message-ID is at the destination, or it is listed as *)
(* failed, or its folder was listed without the source's token, as empty.  *)
(* (migration.rs:836, 933, 1295-1330)                                      *)
THEOREM MigrationCopiesAll == JobSpec => []CompletedIsCopied
<1>1. M!CompletedIsCopied => CompletedIsCopied
  BY DEF CompletedIsCopied
<1>2. M!Spec => []M!CompletedIsCopied
  BY JobsAssumption, M!CompletedHasBeenCopied
<1> QED
  BY <1>1, <1>2, JobsImplemented, PTL

(* A cancelled migration lets at most the message under way through.       *)
(* (migration.rs:866, 1053)                                                *)
THEOREM MigrationStops == JobSpec => []CancelStops
<1>1. M!CancelStops => CancelStops
  BY DEF CancelStops
<1>2. M!Spec => []M!CancelStops
  BY JobsAssumption, M!CancelStopsTheRun
<1> QED
  BY <1>1, <1>2, JobsImplemented, PTL

(* A message that the Message-ID comparison recognises is twice at the     *)
(* destination only where a failed request left in doubt whether it had    *)
(* arrived, if a resume waits for the paused run.  Those without an ID or  *)
(* with a folded one are excepted.  (migration.rs:264, 757-789, 930-959)   *)
THEOREM MigrationCopiesOnce == ASSUME M!Unhasty PROVE JobSpec => []NothingTwice
<1>1. M!NothingTwice => NothingTwice
  BY DEF NothingTwice
<1>2. M!Spec => []M!NothingTwice
  BY JobsAssumption, M!NothingIsCopiedTwice
<1> QED
  BY <1>1, <1>2, JobsImplemented, PTL

(* Moving the vault loses no message, and the place in use has them all,   *)
(* folders adopted or left beside a move included; what two moves at once  *)
(* have in hand is excepted.  (vault.rs:167, 426-428)                      *)
THEOREM VaultLosesNothing == JobSpec => []VaultKeepsMail
<1>1. V!VaultKeepsMail => VaultKeepsMail
  BY DEF VaultKeepsMail
<1>2. V!Spec => []V!VaultKeepsMail
  BY JobsAssumption, V!MailIsKept
<1> QED
  BY <1>1, <1>2, JobsImplemented, PTL

(* Where a second bulk operation starts while a cancelled one unwinds, no  *)
(* message leaves the server that was not chosen for deletion.             *)
(* (BulkOperationManager.js:37, 68)                                        *)
THEOREM BulkDeletesTheChosen == JobSpec => []DeletedWasChosen
<1>1. B!DeletedWasSelected => DeletedWasChosen
  BY DEF DeletedWasChosen
<1>2. B!NoRestart /\ B!NoDeleteEverywhere
  BY DEF B!NoRestart, B!NoDeleteEverywhere
<1>3. B!Spec => []B!DeletedWasSelected
  BY <1>2, JobsAssumption, B!OverlapDeletesTheChosen
<1> QED
  BY <1>1, <1>3, JobsImplemented, PTL
=============================================================================
