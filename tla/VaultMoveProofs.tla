-------------------------- MODULE VaultMoveProofs --------------------------
(***************************************************************************)
(* Theorems about VaultMove, for any drives, messages, moves and mishaps:  *)
(* the types, that no message is lost in a move, and that the place in use *)
(* holds them all.                                                         *)
(***************************************************************************)
EXTENDS VaultMove, FiniteSetTheorems, TLAPS

-----------------------------------------------------------------------------
(* Types.                                                                  *)

Kept == {"absent", "torn", "whole"}

Movers == [pc : {"idle", "copy", "stamp", "switch", "clean"},
           src : Places, dst : Places, todo : SUBSET Letters, present : BOOLEAN]

(* A file is of a message some archive has reported stored, and lies in    *)
(* mail directories.                                                       *)
Settled ==
    \A p \in Places, m \in Letters : files[p][m] # "absent" => m \in received /\ p \in dirs

TypeInv == TypeOK /\ Settled

(* A new vault id is one that no marker has.                               *)
LEMMA FreshIdType ==
    ASSUME VaultAssumption, TypeOK
    PROVE  FreshId \in 1 .. Cardinality(Places) + 1
<1> DEFINE n == Cardinality(Places)
           ids == {marker[p] : p \in Places}
<1>1. IsFiniteSet(Places) /\ n \in Nat
  BY FS_AddElement, FS_CardinalityType DEF VaultAssumption, Places
<1>2. IsFiniteSet(ids) /\ Cardinality(ids) <= n
  <2>1. [p \in Places |-> marker[p]] \in Surjection(Places, ids)
    BY DEF Surjection
  <2> QED
    BY <1>1, <2>1, FS_Surjection
<1> HIDE DEF ids, n
<1>3. Cardinality(1 .. n + 1) = n + 1
  BY <1>1, FS_Interval
<1>4. ~(1 .. n + 1 \subseteq ids)
  <2> SUFFICES ASSUME 1 .. n + 1 \subseteq ids PROVE FALSE
    OBVIOUS
  <2>1. Cardinality(1 .. n + 1) <= Cardinality(ids)
    BY <1>2, FS_Subset
  <2>2. Cardinality(ids) \in Nat
    BY <1>2, FS_CardinalityType
  <2> QED
    BY <1>1, <1>2, <1>3, <2>1, <2>2
<1>5. \E id \in 1 .. n + 1 : \A p \in Places : marker[p] # id
  BY <1>4 DEF ids
<1> QED
  BY <1>5 DEF FreshId, n

(* What a file written by a copy leaves, be it whole or torn.              *)
LEMMA WriteType ==
    ASSUME TypeInv, NEW n \in 1 .. MaxMoves, NEW m \in movers[n].todo, NEW new \in Kept,
           files[movers[n].src][m] # "absent", movers[n].dst \in dirs,
           files' = [files EXCEPT ![movers[n].dst][m] = new],
           excused' = excused \cup Spoils(movers[n], m), UNCHANGED <<dirs, received>>
    PROVE  /\ files' \in [Places -> [Letters -> Kept]]
           /\ excused' \subseteq received' /\ Settled'
<1>1. m \in Letters /\ movers[n].src \in Places /\ movers[n].dst \in Places
  BY DEF TypeInv, TypeOK
<1>2. m \in received
  BY <1>1 DEF TypeInv, Settled
<1> QED
  BY <1>1, <1>2 DEF TypeInv, TypeOK, Settled, Kept, Spoils

LEMMA InitType == ASSUME VaultAssumption PROVE Init => TypeInv
<1> SUFFICES ASSUME Init PROVE TypeInv
  OBVIOUS
<1>1. Cardinality(Places) \in Nat
  BY FS_AddElement, FS_CardinalityType DEF VaultAssumption, Places
<1>2. marker \in [Places -> 0 .. Cardinality(Places) + 1]
  BY <1>1 DEF Init
<1>3. root \in [place : Places, ok : BOOLEAN] /\ config \in Places /\ dirs \subseteq Places
  BY DEF Init, Places
<1>4. movers \in [1 .. MaxMoves -> Movers]
  BY DEF Init, Idle, Movers, Places
<1>5. tally \in [moves : 0 .. MaxMoves, mishaps : 0 .. MaxMishaps]
  BY DEF Init, VaultAssumption
<1>6. files \in [Places -> [Letters -> Kept]]
  BY DEF Init, Kept
<1>7. /\ arriving \subseteq Letters \X Places /\ stray \in BOOLEAN /\ plugged \subseteq Drives
      /\ excused \subseteq received /\ received \subseteq Letters
  BY DEF Init, VaultAssumption
<1>8. Settled
  BY DEF Init, Settled
<1> QED
  BY <1>2, <1>3, <1>4, <1>5, <1>6, <1>7, <1>8 DEF TypeInv, TypeOK, Movers, Kept

LEMMA NextType == ASSUME VaultAssumption, TypeInv, [Next]_vault PROVE TypeInv'
<1> DEFINE Nth == 1 .. MaxMoves
<1>m. /\ movers \in [Nth -> Movers]
      /\ \A n \in Nth : /\ movers[n].src \in Places /\ movers[n].dst \in Places
                        /\ movers[n].todo \subseteq Letters
  BY DEF TypeInv, TypeOK, Movers
<1>y. /\ tally \in [moves : 0 .. MaxMoves, mishaps : 0 .. MaxMishaps]
      /\ MaxMoves \in Nat /\ MaxMishaps \in Nat
  BY DEF TypeInv, TypeOK, VaultAssumption
<1>t. Mishap => tally' \in [moves : 0 .. MaxMoves, mishaps : 0 .. MaxMishaps]
  BY <1>y DEF Mishap
<1>i. Idle \in Movers
  BY DEF Idle, Movers, Places
<1>r. \A p \in Places : Resolved(p) \in [place : Places, ok : BOOLEAN]
  BY DEF Resolved
<1>c. 1 .. Cardinality(Places) + 1 \subseteq 0 .. Cardinality(Places) + 1
  BY FS_AddElement, FS_CardinalityType DEF VaultAssumption, Places
<1>1. ASSUME NEW p \in Places, MoveBegins(p) PROVE TypeInv'
  <2> DEFINE present == Reachable(root.place) /\ root.place \in dirs
             todo == IF present THEN There(root.place) ELSE {}
             mv == [pc |-> "copy", src |-> root.place, dst |-> p, present |-> present,
                    todo |-> todo]
  <2>1. movers' = [movers EXCEPT ![tally.moves + 1] = mv]
    BY <1>1 DEF MoveBegins
  <2>2. present \in BOOLEAN /\ todo \in SUBSET Letters /\ root.place \in Places
    BY DEF Reachable, There, TypeInv, TypeOK
  <2>3. dirs' = (IF present THEN dirs \cup {p} ELSE dirs)
    BY <1>1 DEF MoveBegins
  <2> HIDE DEF present, todo
  <2>4. mv \in Movers
    BY <2>2 DEF Movers
  <2> HIDE DEF mv
  <2>5. movers' \in [Nth -> Movers]
    BY <1>m, <2>1, <2>4
  <2>6. tally' \in [moves : 0 .. MaxMoves, mishaps : 0 .. MaxMishaps]
    <3>1. tally' = [tally EXCEPT !.moves = @ + 1] /\ tally.moves < MaxMoves
      BY <1>1 DEF MoveBegins
    <3> QED
      BY <1>y, <3>1
  <2>7. stray' \in BOOLEAN /\ excused' \subseteq received
    BY <1>1 DEF MoveBegins, TypeInv, TypeOK
  <2>8. Settled'
    BY <1>1, <2>3 DEF MoveBegins, TypeInv, Settled
  <2> QED
    BY <1>1, <2>3, <2>5, <2>6, <2>7, <2>8 DEF MoveBegins, TypeInv, TypeOK, Movers
<1>2. ASSUME NEW n \in Nth, NEW m \in Letters, Copies(n, m) PROVE TypeInv'
  <2>1. /\ movers' = [movers EXCEPT ![n].todo = @ \ {m}]
        /\ UNCHANGED <<dirs, received>> /\ excused' = excused \cup Spoils(movers[n], m)
        /\ m \in movers[n].todo /\ movers[n].dst \in dirs
    BY <1>2 DEF Copies
  <2>2. movers' \in [Nth -> Movers]
    BY <1>m, <2>1 DEF Movers
  <2>3. /\ files' \in [Places -> [Letters -> Kept]]
        /\ excused' \subseteq received' /\ Settled'
    <3>1. CASE files[movers[n].src][m] = "absent"
      <4>1. files' = files
        BY <1>2, <3>1 DEF Copies
      <4>2. Spoils(movers[n], m) = {}
        BY <3>1 DEF Spoils
      <4> QED
        BY <2>1, <4>1, <4>2 DEF TypeInv, TypeOK, Settled, Kept
    <3>2. CASE files[movers[n].src][m] # "absent"
      <4>1. files' = [files EXCEPT ![movers[n].dst][m] = files[movers[n].src][m]]
        BY <1>2, <3>2 DEF Copies
      <4>2. files[movers[n].src][m] \in Kept
        BY <1>m DEF TypeInv, TypeOK, Kept
      <4> QED
        BY <2>1, <3>2, <4>1, <4>2, WriteType
    <3> QED
      BY <3>1, <3>2
  <2> QED
    BY <1>2, <2>2, <2>3 DEF Copies, TypeInv, TypeOK, Movers, Kept
<1>3. ASSUME \/ UNCHANGED <<files, excused>>
             \/ \E n \in Nth : Tears(movers[n]),
             UNCHANGED <<dirs, received>>
      PROVE  /\ files' \in [Places -> [Letters -> Kept]]
             /\ excused' \subseteq received' /\ Settled'
  <2>1. CASE UNCHANGED <<files, excused>>
    BY <1>3, <2>1 DEF TypeInv, TypeOK, Settled, Kept
  <2>2. ASSUME NEW n \in Nth, Tears(movers[n])
        PROVE  /\ files' \in [Places -> [Letters -> Kept]]
               /\ excused' \subseteq received' /\ Settled'
    <3>1. PICK m \in movers[n].todo :
            /\ files[movers[n].src][m] \notin {"absent", files[movers[n].dst][m]}
            /\ files' = [files EXCEPT ![movers[n].dst][m] = "torn"]
            /\ excused' = excused \cup Spoils(movers[n], m)
      BY <2>2 DEF Tears
    <3>2. movers[n].dst \in dirs /\ "torn" \in Kept
      BY <2>2 DEF Tears, Kept
    <3> QED
      BY <1>3, <3>1, <3>2, WriteType
  <2> QED
    BY <1>3, <2>1, <2>2
<1>4. ASSUME NEW n \in Nth, CopyFails(n) PROVE TypeInv'
  <2>1. movers' \in [Nth -> Movers]
    BY <1>4, <1>m, <1>i DEF CopyFails
  <2>2. tally' \in [moves : 0 .. MaxMoves, mishaps : 0 .. MaxMishaps]
    BY <1>4, <1>t DEF CopyFails, TypeInv, TypeOK
  <2>3. /\ files' \in [Places -> [Letters -> Kept]]
        /\ excused' \subseteq received' /\ Settled'
    BY <1>4, <1>3 DEF CopyFails
  <2> QED
    BY <1>4, <2>1, <2>2, <2>3 DEF CopyFails, TypeInv, TypeOK, Movers, Kept
<1>5. ASSUME NEW n \in Nth, Verifies(n) PROVE TypeInv'
  <2> DEFINE mv == movers[n]
  <2>1. mv \in Movers
    BY <1>m
  <2>2. \A pc \in {"switch", "stamp"} : [mv EXCEPT !.pc = pc] \in Movers
    BY <2>1 DEF Movers
  <2>3. movers' \in [Nth -> Movers]
    BY <1>5, <1>m, <1>i, <2>2 DEF Verifies
  <2> QED
    BY <1>5, <2>3 DEF Verifies, TypeInv, TypeOK, Settled, Movers
<1>6. ASSUME NEW n \in Nth, Stamps(n) PROVE TypeInv'
  <2>1. movers' \in [Nth -> Movers]
    BY <1>6, <1>m, <1>i DEF Stamps, Movers
  <2>2. marker' \in [Places -> 0 .. Cardinality(Places) + 1]
    <3>1. \/ marker' = marker
          \/ marker' = [marker EXCEPT ![movers[n].dst] = IF @ = 0 THEN FreshId ELSE @]
      BY <1>6 DEF Stamps
    <3>2. FreshId \in 0 .. Cardinality(Places) + 1
      BY <1>c, FreshIdType DEF TypeInv
    <3> QED
      BY <1>m, <3>1, <3>2 DEF TypeInv, TypeOK
  <2> QED
    BY <1>6, <2>1, <2>2 DEF Stamps, TypeInv, TypeOK, Settled, Movers
<1>7. ASSUME NEW n \in Nth, Switches(n) PROVE TypeInv'
  <2>1. movers' \in [Nth -> Movers]
    BY <1>7, <1>m, <1>i DEF Switches, Movers
  <2>2. marker' \in [Places -> 0 .. Cardinality(Places) + 1]
    BY <1>7, <1>m DEF Switches, TypeInv, TypeOK
  <2>3. config' \in Places /\ root' \in [place : Places, ok : BOOLEAN]
    BY <1>7, <1>m, <1>r DEF Switches, AfterSaving, TypeInv, TypeOK, Places
  <2>4. stray' \in BOOLEAN
    BY <1>7 DEF Switches, TypeInv, TypeOK
  <2> QED
    BY <1>7, <2>1, <2>2, <2>3, <2>4 DEF Switches, TypeInv, TypeOK, Settled, Movers
<1>8. ASSUME NEW n \in Nth, Cleans(n) PROVE TypeInv'
  <2>1. PICK m \in Letters : files' = [files EXCEPT ![movers[n].src][m] = "absent"]
    BY <1>8 DEF Cleans, There
  <2>2. files' \in [Places -> [Letters -> Kept]]
    BY <1>m, <2>1 DEF TypeInv, TypeOK, Kept
  <2>3. Settled'
    BY <1>8, <1>m, <2>1 DEF Cleans, TypeInv, TypeOK, Settled
  <2> QED
    BY <1>8, <2>2, <2>3 DEF Cleans, TypeInv, TypeOK, Kept
<1>9. ASSUME NEW n \in Nth, MoveEnds(n) PROVE TypeInv'
  <2>1. movers' \in [Nth -> Movers] /\ dirs' \subseteq dirs
    BY <1>9, <1>m, <1>i DEF MoveEnds
  <2>2. \A p \in dirs \ dirs' : There(p) = {}
    BY <1>9 DEF MoveEnds
  <2>3. Settled'
    BY <1>9, <2>2 DEF MoveEnds, TypeInv, Settled, There
  <2> QED
    BY <1>9, <2>1, <2>3 DEF MoveEnds, TypeInv, TypeOK, Movers
<1>10. ASSUME NEW n \in Nth, CleanFails(n) PROVE TypeInv'
  <2>1. movers' \in [Nth -> Movers]
    BY <1>10, <1>m, <1>i DEF CleanFails
  <2>2. tally' \in [moves : 0 .. MaxMoves, mishaps : 0 .. MaxMishaps]
    BY <1>10, <1>t DEF CleanFails, TypeInv, TypeOK
  <2> QED
    BY <1>10, <2>1, <2>2 DEF CleanFails, TypeInv, TypeOK, Settled, Movers
<1>11. ASSUME NEW p \in Drives, Adopt(p) PROVE TypeInv'
  <2> DEFINE id == IF marker[p] = 0 THEN FreshId ELSE marker[p]
  <2>1. marker' = [marker EXCEPT ![p] = id, ![Home] = id]
    BY <1>11 DEF Adopt
  <2>2. id \in 0 .. Cardinality(Places) + 1
    BY <1>c, FreshIdType DEF TypeInv, TypeOK, Places
  <2> HIDE DEF id
  <2>3. marker' \in [Places -> 0 .. Cardinality(Places) + 1]
    BY <2>1, <2>2 DEF TypeInv, TypeOK
  <2>4. PICK place \in Places : /\ config' = place /\ root' = Resolved(place)'
                               /\ stray' = (Moving # {} \/ ~HoldsAll(place))
    BY <1>11 DEF Adopt, AfterSaving, TypeInv, TypeOK, Places
  <2>5. root' \in [place : Places, ok : BOOLEAN]
    BY <2>4 DEF Resolved
  <2>6. stray' \in BOOLEAN
    BY <2>4 DEF HoldsAll
  <2> QED
    BY <1>11, <2>3, <2>4, <2>5, <2>6 DEF Adopt, TypeInv, TypeOK, Settled
<1>12. CASE Reset
  <2>1. stray' \in BOOLEAN /\ config' \in Places /\ root' \in [place : Places, ok : BOOLEAN]
    BY <1>12, <1>r DEF Reset, HoldsAll, Places
  <2> QED
    BY <1>12, <2>1 DEF Reset, TypeInv, TypeOK, Settled
<1>13. ASSUME NEW m \in Letters, Asks(m) PROVE TypeInv'
  BY <1>13 DEF Asks, TypeInv, TypeOK, Settled
<1>14. ASSUME NEW m \in Letters, NEW p \in Places, Lands(m, p) PROVE TypeInv'
  <2>1. CASE ~Reachable(p)
    BY <1>14, <2>1 DEF Lands, TypeInv, TypeOK, Settled
  <2>2. CASE Reachable(p)
    <3>1. /\ files' = [files EXCEPT ![p][m] = "whole"] /\ dirs' = dirs \cup {p}
          /\ received' = received \cup {m} /\ excused' \in {excused, excused \cup {m}}
      BY <1>14, <2>2 DEF Lands
    <3>2. PICK listed \in SUBSET Listing(p) :
             movers' = [n \in Nth |->
               IF n \in listed THEN [movers[n] EXCEPT !.todo = @ \cup {m}] ELSE movers[n]]
      BY <1>14, <2>2 DEF Lands
    <3>3. movers' \in [Nth -> Movers]
      <4>1. \A n \in Nth : [movers[n] EXCEPT !.todo = @ \cup {m}] \in Movers
        BY <1>m DEF Movers
      <4> QED
        BY <1>m, <3>2, <4>1
    <3>4. files' \in [Places -> [Letters -> Kept]]
      BY <3>1 DEF TypeInv, TypeOK, Kept
    <3>5. Settled'
      BY <3>1 DEF TypeInv, TypeOK, Settled
    <3> QED
      BY <1>14, <3>1, <3>3, <3>4, <3>5 DEF Lands, TypeInv, TypeOK, Movers, Kept
  <2> QED
    BY <2>1, <2>2
<1>15. ASSUME NEW p \in Drives, Unplug(p) \/ Plug(p) PROVE TypeInv'
  BY <1>15, <1>t DEF Unplug, Plug, TypeInv, TypeOK, Settled
<1>16. CASE CrashAndLaunch
  <2>1. movers' \in [Nth -> Movers]
    BY <1>16, <1>i DEF CrashAndLaunch
  <2>2. tally' \in [moves : 0 .. MaxMoves, mishaps : 0 .. MaxMishaps]
    BY <1>16, <1>t DEF CrashAndLaunch
  <2>3. root' \in [place : Places, ok : BOOLEAN]
    BY <1>16, <1>r DEF CrashAndLaunch, TypeInv, TypeOK
  <2>4. /\ files' \in [Places -> [Letters -> Kept]]
        /\ excused' \subseteq received' /\ Settled'
    BY <1>16, <1>3 DEF CrashAndLaunch, Moving
  <2> QED
    BY <1>16, <2>1, <2>2, <2>3, <2>4 DEF CrashAndLaunch, TypeInv, TypeOK, Movers, Kept
<1>17. CASE UNCHANGED vault
  BY <1>17 DEF vault, TypeInv, TypeOK, Settled
<1> QED
  BY <1>1, <1>2, <1>4, <1>5, <1>6, <1>7, <1>8, <1>9, <1>10, <1>11, <1>12,
     <1>13, <1>14, <1>15, <1>16, <1>17 DEF Next

(* Every reachable state is well typed: a new vault id is always to be     *)
(* found, and nothing is written for a message no archive reported.        *)
(* (vault.rs, external_location.rs)                                        *)
THEOREM Typing == ASSUME VaultAssumption PROVE Spec => []TypeOK
<1>1. Init => TypeInv
  BY InitType
<1>2. TypeInv /\ [Next]_vault => TypeInv'
  BY NextType
<1>3. TypeInv => TypeOK
  BY DEF TypeInv
<1> QED
  BY <1>1, <1>2, <1>3, PTL DEF Spec

-----------------------------------------------------------------------------
(* No mail is lost, and the root has it all.                               *)

(* From the verification on, what the source has whole the destination has *)
(* whole, but for what came later.                                         *)
Copied(n) ==
    movers[n].pc \in {"stamp", "switch", "clean"} /\ movers[n].present =>
       \A m \in received \ excused :
          files[movers[n].src][m] = "whole" => files[movers[n].dst][m] = "whole"

(* A move leaves the root, unless the root was changed beside it.  A root  *)
(* without mail directories, if it is the right one, has nothing to move.  *)
FromRoot(n) ==
    /\ movers[n].pc # "idle" => movers[n].src # movers[n].dst
    /\ movers[n].pc \in {"copy", "stamp", "switch"} =>
          \/ stray
          \/ /\ movers[n].src = root.place
             /\ movers[n].present \/ received \subseteq excused
    /\ movers[n].pc = "clean" => root.place = movers[n].dst \/ stray

MailInv ==
    /\ \A n \in 1 .. MaxMoves : Copied(n) /\ FromRoot(n)
    /\ config = root.place
    /\ Crossed => stray /\ received \subseteq excused
    /\ NoMailLost /\ (HoldsAll(root.place) \/ stray)

LEMMA MailInit == ASSUME VaultAssumption PROVE Init => MailInv
<1> SUFFICES ASSUME Init PROVE MailInv
  OBVIOUS
<1>1. \A m \in received : files[Home][m] = "whole"
  BY DEF Init, Places, VaultAssumption
<1>2. \A n \in 1 .. MaxMoves : movers[n].pc = "idle"
  BY DEF Init, Idle
<1>3. NoMailLost
  BY <1>1 DEF NoMailLost, Places
<1> QED
  BY <1>1, <1>2, <1>3 DEF Init, MailInv, Copied, FromRoot, HoldsAll, Crossed, Moving

(* Two moves at once have everything received excused.                     *)
LEMMA Beside ==
    ASSUME stray', received' \subseteq excused', config' = root'.place,
           \A n \in 1 .. MaxMoves : movers'[n].pc # "idle" => movers'[n].src # movers'[n].dst
    PROVE  MailInv'
  BY DEF MailInv, Copied, FromRoot, NoMailLost, HoldsAll

(* What a step of the only move under way has to keep.                     *)
LEMMA Alone ==
    ASSUME NEW n \in 1 .. MaxMoves, \A k \in 1 .. MaxMoves : k # n => movers'[k].pc = "idle",
           Copied(n)', FromRoot(n)', config' = root'.place,
           NoMailLost', HoldsAll(root.place)' \/ stray'
    PROVE  MailInv'
<1>1. ~Crossed'
  BY DEF Crossed, Moving
<1>2. ASSUME NEW k \in 1 .. MaxMoves PROVE (Copied(k) /\ FromRoot(k))'
  BY <1>2 DEF Copied, FromRoot
<1> QED
  BY <1>1, <1>2 DEF MailInv

(* A step that writes no file and whose moves go no further.               *)
LEMMA Still ==
    ASSUME MailInv, UNCHANGED <<files, received, excused, config>>,
           \A n \in 1 .. MaxMoves : movers'[n] = movers[n] \/ movers'[n] = Idle,
           stray' = stray, root'.place = root.place
    PROVE  MailInv'
<1>1. ASSUME NEW n \in 1 .. MaxMoves PROVE (Copied(n) /\ FromRoot(n))'
  BY <1>1 DEF MailInv, Copied, FromRoot, Idle
<1>2. Crossed' => Crossed
  BY DEF Crossed, Moving, Idle
<1> QED
  BY <1>1, <1>2 DEF MailInv, NoMailLost, HoldsAll

(* A file written by a copy takes no whole copy away from a message but    *)
(* those it excuses.                                                       *)
LEMMA WriteKeeps ==
    ASSUME TypeInv, NEW n \in 1 .. MaxMoves, NEW m \in movers[n].todo, NEW new,
           files[movers[n].src][m] # "absent",
           files' = [files EXCEPT ![movers[n].dst][m] = new],
           new = "whole" \/ files[movers[n].src][m] = "torn"
                         \/ files[movers[n].dst][m] # "whole",
           excused' = excused \cup Spoils(movers[n], m), received' = received
    PROVE  /\ \A p \in Places, k \in received \ excused' :
                files[p][k] = "whole" => files'[p][k] = "whole"
           /\ NoMailLost => NoMailLost'
           /\ \A p \in Places : HoldsAll(p) => HoldsAll(p)'
<1>1. movers[n].src \in Places /\ movers[n].dst \in Places /\ m \in Letters
  BY DEF TypeInv, TypeOK
<1>2. \A p \in Places, k \in Letters :
        files'[p][k] = IF p = movers[n].dst /\ k = m THEN new ELSE files[p][k]
  BY <1>1 DEF TypeInv, TypeOK
<1>3. \A k \in received \ excused' : k \in Letters /\ k \in received \ excused
  BY DEF TypeInv, TypeOK
<1>4. m \notin excused' => files[movers[n].dst][m] # "whole" \/ new = "whole"
  BY DEF Spoils
<1>5. \A p \in Places, k \in received \ excused' :
        files[p][k] = "whole" => files'[p][k] = "whole"
  BY <1>1, <1>2, <1>3, <1>4
<1> QED
  BY <1>3, <1>5 DEF NoMailLost, HoldsAll

LEMMA TearKeeps ==
    ASSUME TypeInv, NEW n \in 1 .. MaxMoves, Tears(movers[n]), received' = received
    PROVE  /\ NoMailLost => NoMailLost'
           /\ \A p \in Places : HoldsAll(p) => HoldsAll(p)'
           /\ excused \subseteq excused'
<1>1. PICK m \in movers[n].todo :
        /\ files[movers[n].src][m] \notin {"absent", files[movers[n].dst][m]}
        /\ files' = [files EXCEPT ![movers[n].dst][m] = "torn"]
        /\ excused' = excused \cup Spoils(movers[n], m)
  BY DEF Tears
<1>2. movers[n].src \in Places /\ m \in Letters
  BY DEF TypeInv, TypeOK
<1>3. files[movers[n].src][m] = "torn" \/ files[movers[n].dst][m] # "whole"
  BY <1>1, <1>2 DEF TypeInv, TypeOK
<1> QED
  BY <1>1, <1>3, WriteKeeps

LEMMA MailNext == ASSUME VaultAssumption, TypeInv, MailInv, [Next]_vault PROVE MailInv'
<1> DEFINE Nth == 1 .. MaxMoves
<1>m. /\ movers \in [Nth -> Movers]
      /\ \A n \in Nth : movers[n].src \in Places /\ movers[n].dst \in Places
  BY DEF TypeInv, TypeOK, Movers
<1>p. root.place \in Places /\ config = root.place /\ \A p : Resolved(p).place = p
  BY DEF TypeInv, TypeOK, Resolved, MailInv
<1>x. ASSUME NEW n \in Nth, n \in Moving, NEW k \in Nth, k # n, movers[k].pc # "idle"
      PROVE  stray /\ received \subseteq excused
  BY <1>x DEF MailInv, Crossed, Moving
<1>d. ASSUME NEW n \in Nth, n \in Moving PROVE movers[n].src # movers[n].dst
  BY <1>d DEF MailInv, FromRoot, Moving
(* A step of one move, beside another one.                                 *)
<1>b. ASSUME NEW n \in Nth, n \in Moving, NEW k \in Nth, k # n, movers[k].pc # "idle",
             stray', received' = received, excused \subseteq excused',
             config' = root'.place,
             \A j \in Nth : j # n => movers'[j] = movers[j],
             movers'[n].pc # "idle" => /\ movers'[n].src = movers[n].src
                                       /\ movers'[n].dst = movers[n].dst
      PROVE  MailInv'
  <2>1. received' \subseteq excused'
    BY <1>b, <1>x
  <2>2. ASSUME NEW j \in Nth, movers'[j].pc # "idle" PROVE movers'[j].src # movers'[j].dst
    <3>1. CASE j = n
      BY <1>b, <1>d, <2>2, <3>1
    <3>2. CASE j # n
      BY <1>b, <2>2, <3>2 DEF MailInv, FromRoot
    <3> QED
      BY <3>1, <3>2
  <2> QED
    BY <1>b, <2>1, <2>2, Beside
<1>1. ASSUME NEW p \in Places, MoveBegins(p) PROVE MailInv'
  <2>1. PICK n \in Nth : n = tally.moves + 1
    <3>1. tally.moves \in 0 .. MaxMoves /\ MaxMoves \in Nat
      BY DEF TypeInv, TypeOK, VaultAssumption
    <3>2. tally.moves < MaxMoves
      BY <1>1 DEF MoveBegins
    <3> QED
      BY <3>1, <3>2
  <2> DEFINE present == Reachable(root.place) /\ root.place \in dirs
             mv == [pc |-> "copy", src |-> root.place, dst |-> p, present |-> present,
                    todo |-> IF present THEN There(root.place) ELSE {}]
  <2>2. /\ movers' = [movers EXCEPT ![n] = mv] /\ p # root.place
        /\ UNCHANGED <<files, config, root, received>>
        /\ stray' = (stray \/ Moving # {} \/ ~Reachable(root.place))
        /\ excused' = IF Moving = {} THEN excused ELSE received
    BY <1>1, <2>1 DEF MoveBegins
  <2>3. /\ movers'[n].pc = "copy" /\ movers'[n].src = root.place /\ movers'[n].dst = p
        /\ movers'[n].present = present
        /\ \A k \in Nth : k # n => movers'[k] = movers[k]
    BY <1>m, <2>2
  <2>4. present \/ stray' \/ root.place \notin dirs
    BY <2>2
  <2>5. root.place \notin dirs /\ HoldsAll(root.place) => received \subseteq excused
    BY <1>p DEF TypeInv, TypeOK, Settled, HoldsAll
  <2> HIDE DEF mv, present
  <2>6. CASE Moving # {}
    <3>1. \A k \in Nth : movers'[k].pc # "idle" => movers'[k].src # movers'[k].dst
      BY <2>2, <2>3 DEF MailInv, FromRoot
    <3> QED
      BY <1>p, <2>2, <2>6, <3>1, Beside
  <2>7. CASE Moving = {}
    <3>1. \A k \in Nth : k # n => movers'[k].pc = "idle"
      BY <2>3, <2>7 DEF Moving
    <3>2. excused' = excused
      BY <2>2, <2>7
    <3>3. Copied(n)'
      BY <2>3 DEF Copied
    <3>4. FromRoot(n)'
      BY <2>2, <2>3, <2>4, <2>5, <3>2 DEF FromRoot, MailInv
    <3>5. NoMailLost' /\ (HoldsAll(root.place)' \/ stray')
      BY <2>2, <3>2 DEF MailInv, NoMailLost, HoldsAll
    <3> QED
      BY <1>p, <2>2, <3>1, <3>3, <3>4, <3>5, Alone
  <2> QED
    BY <2>6, <2>7
<1>2. ASSUME NEW n \in Nth, NEW m \in Letters, Copies(n, m) PROVE MailInv'
  <2>1. /\ movers' = [movers EXCEPT ![n].todo = @ \ {m}] /\ movers[n].pc = "copy"
        /\ m \in movers[n].todo
        /\ UNCHANGED <<config, root, received, stray>>
        /\ excused' = excused \cup Spoils(movers[n], m)
    BY <1>2 DEF Copies
  <2>2. /\ movers'[n].pc = "copy" /\ movers'[n].src = movers[n].src
        /\ movers'[n].dst = movers[n].dst /\ movers'[n].present = movers[n].present
        /\ \A k \in Nth : k # n => movers'[k] = movers[k]
    BY <1>m, <2>1 DEF Movers
  <2>3. n \in Moving
    BY <2>1 DEF Moving
  <2>4. CASE \E k \in Nth : k # n /\ movers[k].pc # "idle"
    BY <1>b, <1>p, <1>x, <2>1, <2>2, <2>3, <2>4
  <2>5. CASE \A k \in Nth : k # n => movers[k].pc = "idle"
    <3>1. /\ NoMailLost => NoMailLost'
          /\ HoldsAll(root.place) => HoldsAll(root.place)'
      <4>1. CASE files[movers[n].src][m] = "absent"
        <5>1. files' = files /\ excused' = excused
          BY <1>2, <2>1, <4>1 DEF Copies, Spoils
        <5> QED
          BY <2>1, <5>1 DEF NoMailLost, HoldsAll
      <4>2. CASE files[movers[n].src][m] # "absent"
        <5>1. files' = [files EXCEPT ![movers[n].dst][m] = files[movers[n].src][m]]
          BY <1>2, <4>2 DEF Copies
        <5>2. files[movers[n].src][m] \in {"torn", "whole"}
          BY <1>m, <4>2 DEF TypeInv, TypeOK
        <5>3. \A p \in Places : HoldsAll(p) => HoldsAll(p)'
          BY <2>1, <4>2, <5>1, <5>2, WriteKeeps
        <5>4. HoldsAll(root.place) => HoldsAll(root.place)'
          BY <1>p, <2>1, <5>3 DEF HoldsAll
        <5> QED
          BY <2>1, <4>2, <5>1, <5>2, <5>4, WriteKeeps
      <4> QED
        BY <4>1, <4>2
    <3>2. Copied(n)' /\ FromRoot(n)'
      BY <2>1, <2>2 DEF MailInv, Copied, FromRoot
    <3>3. \A k \in Nth : k # n => movers'[k].pc = "idle"
      BY <2>2, <2>5
    <3> QED
      BY <1>p, <2>1, <3>1, <3>2, <3>3, Alone DEF MailInv
  <2> QED
    BY <2>4, <2>5
<1>3. ASSUME NEW n \in Nth, CopyFails(n) PROVE MailInv'
  <2>1. /\ movers' = [movers EXCEPT ![n] = Idle] /\ movers[n].pc = "copy"
        /\ UNCHANGED <<config, root, received, stray>>
        /\ Tears(movers[n]) \/ UNCHANGED <<files, excused>>
    BY <1>3 DEF CopyFails
  <2>2. \A k \in Nth : movers'[k] = IF k = n THEN Idle ELSE movers[k]
    BY <1>m, <2>1
  <2>3. CASE UNCHANGED <<files, excused>>
    BY <2>1, <2>2, <2>3, Still
  <2>4. CASE Tears(movers[n])
    <3>1. /\ NoMailLost => NoMailLost'
          /\ excused \subseteq excused'
          /\ HoldsAll(root.place) => HoldsAll(root.place)'
      <4>1. \A p \in Places : HoldsAll(p) => HoldsAll(p)'
        BY <2>1, <2>4, TearKeeps
      <4>2. HoldsAll(root.place) => HoldsAll(root.place)'
        BY <1>p, <2>1, <4>1 DEF HoldsAll
      <4> QED
        BY <2>1, <2>4, <4>2, TearKeeps
    <3>2. CASE \E k \in Nth : k # n /\ movers[k].pc # "idle"
      <4>1. n \in Moving /\ movers'[n].pc = "idle"
        BY <2>1, <2>2 DEF Moving, Idle
      <4>2. \A j \in Nth : j # n => movers'[j] = movers[j]
        BY <2>2
      <4>3. stray' /\ config' = root'.place
        BY <1>p, <1>x, <2>1, <3>2, <4>1
      <4>4. PICK k \in Nth : k # n /\ movers[k].pc # "idle"
        BY <3>2
      <4>5. received' = received /\ excused \subseteq excused'
        BY <2>1, <3>1
      <4> QED
        BY <1>b, <4>1, <4>2, <4>3, <4>4, <4>5
    <3>3. CASE \A k \in Nth : k # n => movers[k].pc = "idle"
      <4>1. Copied(n)' /\ FromRoot(n)'
        BY <2>2 DEF Copied, FromRoot, Idle
      <4> QED
        BY <1>p, <2>1, <2>2, <3>1, <3>3, <4>1, Alone DEF MailInv
    <3> QED
      BY <3>2, <3>3
  <2> QED
    BY <2>1, <2>3, <2>4
<1>4. ASSUME NEW n \in Nth, Verifies(n) PROVE MailInv'
  <2>1. UNCHANGED <<files, dirs, config, root, received, excused, stray>> /\ movers[n].pc = "copy"
    BY <1>4 DEF Verifies
  <2>2. \A k \in Nth : k # n => movers'[k] = movers[k]
    BY <1>4 DEF Verifies
  <2>3. CASE movers'[n] = Idle
    BY <2>1, <2>2, <2>3, Still
  <2>4. CASE movers'[n] # Idle
    <3>1. /\ movers'[n].pc \in {"stamp", "switch"} /\ movers'[n].src = movers[n].src
          /\ movers'[n].dst = movers[n].dst /\ movers'[n].present = movers[n].present
          /\ ~movers[n].present \/ Verified(movers[n])
      BY <1>4, <1>m, <2>4 DEF Verifies, Movers
    <3>2. CASE \E k \in Nth : k # n /\ movers[k].pc # "idle"
      BY <1>b, <1>p, <1>x, <2>1, <2>2, <3>1, <3>2 DEF Moving
    <3>3. CASE \A k \in Nth : k # n => movers[k].pc = "idle"
      <4>1. Copied(n)'
        BY <2>1, <3>1, <1>m DEF Copied, Verified, There, TypeInv, TypeOK
      <4>2. FromRoot(n)'
        BY <2>1, <3>1 DEF MailInv, FromRoot
      <4>3. NoMailLost' /\ (HoldsAll(root.place)' \/ stray')
        BY <2>1 DEF MailInv, NoMailLost, HoldsAll
      <4> QED
        BY <1>p, <2>1, <2>2, <3>3, <4>1, <4>2, <4>3, Alone
    <3> QED
      BY <3>2, <3>3
  <2> QED
    BY <2>3, <2>4
<1>5. ASSUME NEW n \in Nth, Stamps(n) PROVE MailInv'
  <2>1. UNCHANGED <<files, config, root, received, excused, stray>> /\ movers[n].pc = "stamp"
    BY <1>5 DEF Stamps
  <2>2. \A k \in Nth : k # n => movers'[k] = movers[k]
    BY <1>5, <1>m DEF Stamps
  <2>3. CASE movers'[n] = Idle
    BY <2>1, <2>2, <2>3, Still
  <2>4. CASE movers'[n] # Idle
    <3>1. movers' = [movers EXCEPT ![n].pc = "switch"]
      BY <1>5, <1>m, <2>4 DEF Stamps
    <3>2. /\ movers'[n].pc = "switch" /\ movers'[n].src = movers[n].src
          /\ movers'[n].dst = movers[n].dst /\ movers'[n].present = movers[n].present
      BY <1>m, <3>1 DEF Movers
    <3>3. ASSUME NEW k \in Nth PROVE (Copied(k) /\ FromRoot(k))'
      BY <2>1, <2>2, <3>2 DEF MailInv, Copied, FromRoot
    <3>4. Crossed' => Crossed
      BY <2>1, <2>2 DEF Crossed, Moving
    <3> QED
      BY <2>1, <3>3, <3>4 DEF MailInv, NoMailLost, HoldsAll
  <2> QED
    BY <2>3, <2>4
<1>6. ASSUME NEW n \in Nth, Switches(n) PROVE MailInv'
  <2>1. movers[n].pc = "switch" /\ UNCHANGED <<files, received, excused>> /\ n \in Moving
    BY <1>6 DEF Switches, Moving
  <2>2. movers[n].src # movers[n].dst /\ (movers[n].src = root.place \/ stray)
    BY <1>d, <2>1 DEF MailInv, FromRoot
  <2>3. HoldsAll(root.place) => HoldsAll(movers[n].dst) \/ stray
    BY <2>1, <2>2 DEF MailInv, Copied, FromRoot, HoldsAll
  <2>4. ASSUME NEW place \in Places,
               config' = place /\ root' = Resolved(place),
               movers' = [movers EXCEPT ![n].pc = "clean"],
               stray' = (stray \/ place # movers[n].dst)
        PROVE  MailInv'
    <3>1. /\ movers'[n].pc = "clean" /\ movers'[n].src = movers[n].src
          /\ movers'[n].dst = movers[n].dst /\ movers'[n].present = movers[n].present
          /\ \A k \in Nth : k # n => movers'[k] = movers[k]
      BY <1>m, <2>4 DEF Movers
    <3>2. root'.place = place
      BY <1>p, <2>4
    <3>3. HoldsAll(place)' \/ stray'
      BY <2>1, <2>3, <2>4 DEF MailInv, HoldsAll
    <3>4. CASE \E k \in Nth : k # n /\ movers[k].pc # "idle"
      BY <1>b, <1>x, <2>1, <2>4, <3>1, <3>2, <3>4
    <3>5. CASE \A k \in Nth : k # n => movers[k].pc = "idle"
      <4>1. Copied(n)'
        <5>1. Copied(n)
          BY DEF MailInv
        <5> QED
          BY <2>1, <3>1, <5>1 DEF Copied
      <4>2. FromRoot(n)'
        BY <2>2, <2>4, <3>1, <3>2 DEF FromRoot
      <4>3. NoMailLost' /\ (HoldsAll(root.place)' \/ stray')
        BY <2>1, <3>2, <3>3 DEF MailInv, NoMailLost, HoldsAll
      <4> QED
        BY <2>4, <3>1, <3>2, <3>5, <4>1, <4>2, <4>3, Alone
    <3> QED
      BY <3>4, <3>5
  <2>5. ASSUME config' = Home /\ root' = Resolved(Home), movers' = [movers EXCEPT ![n] = Idle],
               stray' = (stray \/ movers[n].src # Home)
        PROVE  MailInv'
    <3>1. root'.place = Home /\ \A k \in Nth : movers'[k] = IF k = n THEN Idle ELSE movers[k]
      BY <1>m, <1>p, <2>5
    <3>2. CASE \E k \in Nth : k # n /\ movers[k].pc # "idle"
      <4>1. /\ movers'[n].pc = "idle" /\ config' = root'.place
            /\ \A j \in Nth : j # n => movers'[j] = movers[j]
        BY <2>5, <3>1 DEF Idle
      <4>2. stray'
        BY <1>x, <2>1, <2>5, <3>2
      <4> QED
        BY <1>b, <2>1, <3>2, <4>1, <4>2
    <3>3. CASE \A k \in Nth : k # n => movers[k].pc = "idle"
      <4>1. Copied(n)' /\ FromRoot(n)'
        BY <3>1 DEF Copied, FromRoot, Idle
      <4>2. NoMailLost' /\ (HoldsAll(root.place)' \/ stray')
        BY <2>1, <2>2, <2>5, <3>1 DEF MailInv, NoMailLost, HoldsAll
      <4> QED
        BY <2>5, <3>1, <3>3, <4>1, <4>2, Alone DEF Idle
    <3> QED
      BY <3>2, <3>3
  <2>6. AfterSaving(movers[n].dst) \subseteq Places
    BY <1>m DEF AfterSaving, TypeInv, TypeOK, Places
  <2> QED
    BY <1>6, <2>4, <2>5, <2>6 DEF Switches
<1>7. ASSUME NEW n \in Nth, Cleans(n) PROVE MailInv'
  <2>1. /\ movers[n].pc = "clean" /\ movers[n].present /\ n \in Moving
        /\ UNCHANGED <<movers, config, root, received, excused, stray>>
    BY <1>7 DEF Cleans, Moving
  <2>2. PICK m \in Letters : files' = [files EXCEPT ![movers[n].src][m] = "absent"]
    BY <1>7 DEF Cleans, There
  <2>3. \A p \in Places, k \in Letters :
          ~(p = movers[n].src /\ k = m) => files'[p][k] = files[p][k]
    BY <1>m, <2>2 DEF TypeInv, TypeOK
  <2>4. \A k \in received \ excused : k \in Letters
    BY DEF TypeInv, TypeOK
  <2>5. movers[n].src # movers[n].dst /\ (root.place = movers[n].dst \/ stray)
    BY <2>1 DEF MailInv, FromRoot
  <2>6. files'[movers[n].src][m] # "whole"
    BY <1>m, <2>2 DEF TypeInv, TypeOK
  <2>7. \A k \in received \ excused :
          files[movers[n].src][k] = "whole" => files'[movers[n].dst][k] = "whole"
    BY <1>m, <2>1, <2>3, <2>4, <2>5 DEF MailInv, Copied
  <2>8. NoMailLost'
    <3> SUFFICES ASSUME NEW k \in received \ excused
                 PROVE  \E p \in Places : files'[p][k] = "whole"
      BY <2>1 DEF NoMailLost
    <3>1. PICK p \in Places : files[p][k] = "whole"
      BY DEF MailInv, NoMailLost
    <3> QED
      BY <1>m, <2>3, <2>4, <2>7, <3>1
  <2>9. CASE \E k \in Nth : k # n /\ movers[k].pc # "idle"
    BY <1>b, <1>p, <1>x, <2>1, <2>9
  <2>10. CASE \A k \in Nth : k # n => movers[k].pc = "idle"
    <3>1. Copied(n)'
      BY <1>m, <2>1, <2>3, <2>4, <2>6, <2>7 DEF Copied
    <3>2. FromRoot(n)'
      BY <2>1 DEF MailInv, FromRoot
    <3>3. HoldsAll(root.place)' \/ stray'
      BY <1>m, <2>1, <2>3, <2>4, <2>5 DEF MailInv, HoldsAll
    <3> QED
      BY <1>p, <2>1, <2>8, <2>10, <3>1, <3>2, <3>3, Alone
  <2> QED
    BY <2>9, <2>10
<1>8. ASSUME NEW n \in Nth, MoveEnds(n) \/ CleanFails(n) PROVE MailInv'
  <2>1. /\ movers' = [movers EXCEPT ![n] = Idle]
        /\ UNCHANGED <<files, received, excused, config, root, stray>>
    BY <1>8 DEF MoveEnds, CleanFails
  <2>2. \A k \in Nth : movers'[k] = movers[k] \/ movers'[k] = Idle
    BY <1>m, <2>1
  <2> QED
    BY <2>1, <2>2, Still
(* The root changed without a move, or beside one.                         *)
<1>9. ASSUME NEW place \in Places, UNCHANGED <<files, movers, received, excused>>,
             config' = place, root'.place = place,
             stray' = (Moving # {} \/ ~HoldsAll(place))
      PROVE  MailInv'
  <2>1. ASSUME NEW n \in Nth PROVE (Copied(n) /\ FromRoot(n))'
    <3>1. movers[n].pc # "idle" => stray'
      BY <1>9 DEF Moving
    <3> QED
      BY <1>9, <3>1 DEF MailInv, Copied, FromRoot
  <2>2. Crossed' => Crossed /\ stray'
    BY <1>9 DEF Crossed, Moving
  <2>3. NoMailLost' /\ (HoldsAll(root.place)' \/ stray')
    BY <1>9 DEF MailInv, NoMailLost, HoldsAll
  <2> QED
    BY <1>9, <2>1, <2>2, <2>3 DEF MailInv
<1>10. ASSUME NEW p \in Drives, Adopt(p) PROVE MailInv'
  <2>1. PICK place \in Places : /\ config' = place /\ root' = Resolved(place)'
                               /\ stray' = (Moving # {} \/ ~HoldsAll(place))
    BY <1>10 DEF Adopt, AfterSaving, TypeInv, TypeOK, Places
  <2>2. root'.place = place
    BY <2>1 DEF Resolved
  <2> QED
    BY <1>9, <1>10, <2>1, <2>2 DEF Adopt
<1>11. CASE Reset
  BY <1>9, <1>11 DEF Reset, Resolved, Places
<1>12. ASSUME NEW m \in Letters, NEW p \in Places, Lands(m, p) PROVE MailInv'
  <2>1. UNCHANGED <<config, root, stray>>
    BY <1>12 DEF Lands
  <2>2. CASE ~Reachable(p)
    BY <1>12, <2>1, <2>2, Still DEF Lands
  <2>3. CASE Reachable(p)
    <3>1. /\ files' = [files EXCEPT ![p][m] = "whole"]
          /\ received' = received \cup {m}
          /\ excused' = IF Missed(p) THEN excused \cup {m} ELSE excused
      BY <1>12, <2>3 DEF Lands
    <3>2. PICK listed \in SUBSET Listing(p) :
             movers' = [n \in Nth |->
               IF n \in listed THEN [movers[n] EXCEPT !.todo = @ \cup {m}] ELSE movers[n]]
      BY <1>12, <2>3 DEF Lands
    <3>3. \A n \in Nth : /\ movers'[n].pc = movers[n].pc /\ movers'[n].src = movers[n].src
                         /\ movers'[n].dst = movers[n].dst
                         /\ movers'[n].present = movers[n].present
      BY <1>m, <3>2 DEF Movers
    <3>4. \A q \in Places, k \in Letters :
            files'[q][k] = IF q = p /\ k = m THEN "whole" ELSE files[q][k]
      BY <3>1 DEF TypeInv, TypeOK
    <3>5. \A k \in received' \ excused' :
            /\ k \in Letters
            /\ k # m => k \in received \ excused
            /\ k = m => ~Missed(p) \/ k \in received \ excused
      BY <3>1 DEF TypeInv, TypeOK
    <3>6. NoMailLost'
      BY <3>4, <3>5 DEF MailInv, NoMailLost
    <3>7. ASSUME NEW n \in Nth PROVE Copied(n)'
      <4> SUFFICES ASSUME movers[n].pc \in {"stamp", "switch", "clean"}, movers[n].present,
                          NEW k \in received' \ excused',
                          files'[movers[n].src][k] = "whole"
                   PROVE  files'[movers[n].dst][k] = "whole"
        BY <3>3 DEF Copied
      <4>1. CASE files[movers[n].src][k] = "whole"
        <5>1. k \in received \ excused
          BY <1>m, <3>1, <3>5, <4>1 DEF TypeInv, Settled
        <5> QED
          BY <1>m, <3>4, <3>5, <4>1, <5>1 DEF MailInv, Copied
      <4>2. CASE files[movers[n].src][k] # "whole"
        <5>1. movers[n].src = p /\ k = m /\ Missed(p)
          BY <1>m, <3>4, <3>5, <4>2 DEF Missed, Moving
        <5>2. k \in excused'
          BY <3>1, <5>1
        <5> QED
          BY <5>2
      <4> QED
        BY <4>1, <4>2
    <3>8. HoldsAll(root.place) => HoldsAll(root.place)'
      <4>1. p # root.place => Missed(p)
        BY DEF Missed
      <4>2. \A k \in received' \ excused' :
              k \in received \ excused \/ (k = m /\ p = root.place)
        BY <3>1, <4>1
      <4> QED
        BY <2>1, <3>4, <3>5, <4>2 DEF HoldsAll, TypeInv, TypeOK
    <3>9. ASSUME NEW n \in Nth PROVE FromRoot(n)'
      <4>1. movers[n].pc \in {"copy", "stamp", "switch"} /\ movers[n].src = root.place
              /\ ~movers[n].present /\ received \subseteq excused => received' \subseteq excused'
        BY <3>1 DEF Missed, Moving
      <4> QED
        BY <2>1, <3>3, <4>1 DEF MailInv, FromRoot
    <3>10. Crossed' => stray' /\ received' \subseteq excused'
      <4>1. Crossed' => Crossed /\ Missed(p)
        BY <3>3 DEF Crossed, Moving, Missed
      <4> QED
        BY <2>1, <3>1, <4>1 DEF MailInv
    <3> QED
      BY <1>p, <2>1, <3>6, <3>7, <3>8, <3>9, <3>10 DEF MailInv
  <2> QED
    BY <2>2, <2>3
<1>13. CASE CrashAndLaunch
  <2>1. /\ \A n \in Nth : movers'[n].pc = "idle" /\ movers'[n] = Idle
        /\ UNCHANGED <<received, config, stray>> /\ root'.place = root.place
    BY <1>13, <1>p DEF CrashAndLaunch, Idle
  <2>2. CASE UNCHANGED <<files, excused>>
    BY <2>1, <2>2, Still
  <2>3. ASSUME NEW n \in Nth, Tears(movers[n]) PROVE MailInv'
    <3>1. \A p \in Places : HoldsAll(p) => HoldsAll(p)'
      BY <2>1, <2>3, TearKeeps
    <3>2. HoldsAll(root.place) => HoldsAll(root.place)'
      BY <1>p, <2>1, <3>1 DEF HoldsAll
    <3>3. NoMailLost'
      BY <2>1, <2>3, TearKeeps DEF MailInv
    <3>4. Copied(n)' /\ FromRoot(n)'
      BY <2>1 DEF Copied, FromRoot
    <3> QED
      BY <1>p, <2>1, <3>2, <3>3, <3>4, Alone DEF MailInv
  <2> QED
    BY <1>13, <2>2, <2>3 DEF CrashAndLaunch, Moving
<1>14. ASSUME \/ \E m \in Letters : Asks(m)
              \/ \E p \in Drives : Unplug(p) \/ Plug(p)
              \/ UNCHANGED vault
       PROVE  MailInv'
  BY <1>14, Still DEF Asks, Unplug, Plug, vault
<1> QED
  BY <1>1, <1>2, <1>3, <1>4, <1>5, <1>6, <1>7, <1>8, <1>10, <1>11, <1>12, <1>13, <1>14
     DEF Next

(* Moves, crashes, drives that come and go, torn copies, archives under    *)
(* way and folders adopted or left beside a move lose no message, for any  *)
(* number of them, but for what two moves at once had in hand; and the     *)
(* place that reads and writes use holds them all, unless it was changed   *)
(* without the mail or beside a move.  (vault.rs:167, 426-428)             *)
THEOREM MailIsKept == ASSUME VaultAssumption PROVE Spec => []VaultKeepsMail
<1>1. MailInv => VaultKeepsMail
  BY DEF MailInv, VaultKeepsMail, RootHasAll
<1>2. Init => TypeInv /\ MailInv
  BY InitType, MailInit
<1>3. TypeInv /\ MailInv /\ [Next]_vault => (TypeInv /\ MailInv)'
  BY NextType, MailNext
<1> QED
  BY <1>1, <1>2, <1>3, PTL DEF Spec
=============================================================================
