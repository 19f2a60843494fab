----------------------------- MODULE VaultMove -----------------------------
(***************************************************************************)
(* Where the mail is stored, and moving it: src-tauri/src/vault.rs behind  *)
(* MailStorageLocation.jsx, the location saved by external_location.rs,    *)
(* and an archive (archive.rs) that writes meanwhile.                      *)
(*                                                                         *)
(* A move is a blocking thread: a step per file, then the verification,    *)
(* the marker, the switch, and a step per file removed.  No lock keeps a   *)
(* second one, or another choice of the page, from running beside it: the  *)
(* page that awaits a move disables its buttons, but closed and opened     *)
(* again it knows of no move.  A file is whole, torn (shorter than it      *)
(* should be) or absent; the five mail directories are one.                *)
(***************************************************************************)
EXTENDS Integers, FiniteSets

CONSTANTS
    Home,        \* the app data directory
    Drives,      \* folders on drives that can be unplugged
    Letters,     \* messages
    Initially,   \* those stored at first
    MaxMoves,    \* moves of the vault
    MaxMishaps   \* crashes, drives unplugged, failed file operations

Places == Drives \cup {Home}

VaultAssumption ==
    /\ Home \notin Drives /\ IsFiniteSet(Drives) /\ Initially \subseteq Letters
    /\ MaxMoves \in Nat /\ MaxMishaps \in Nat

VARIABLES
    files,      \* files[p][m]
    dirs,       \* the places with mail directories
    marker,     \* marker[p]: the vault's id, 0 without a marker
    config,     \* the saved location
    root,       \* VaultState: what every read and write uses
    plugged,    \* the drives that can be reached
    movers,     \* movers[n]: the n-th move, idle before it begins and when it is over
    arriving,   \* <<m, p>>: an archive has its path and writes m to p next
    received,   \* history: messages an archive has reported stored
    excused,    \* history: stored where a move no longer looked, overwritten
                \* with a torn copy, or stored when two moves ran at once
    stray,      \* history: the root was changed without the mail, or beside a move
    tally       \* what has been used of each bound

vault == <<files, dirs, marker, config, root, plugged, movers, arriving,
           received, excused, stray, tally>>

Reachable(p) == p = Home \/ p \in plugged
HoldsAll(p) == \A m \in received \ excused : files[p][m] = "whole"
There(p) == {m \in Letters : files[p][m] # "absent"}

Idle == [pc |-> "idle", src |-> Home, dst |-> Home, todo |-> {}, present |-> FALSE]

Moving == {n \in 1 .. MaxMoves : movers[n].pc # "idle"}
Crossed == \E n, k \in Moving : n # k

Init ==
    /\ files = [p \in Places |-> [m \in Letters |->
                  IF p = Home /\ m \in Initially THEN "whole" ELSE "absent"]]
    /\ dirs = {Home}
    /\ marker = [p \in Places |-> 0]
    /\ config = Home
    /\ root = [place |-> Home, ok |-> TRUE]
    /\ plugged = Drives
    /\ movers = [n \in 1 .. MaxMoves |-> Idle]
    /\ arriving = {} /\ received = Initially /\ excused = {}
    /\ stray = FALSE
    /\ tally = [moves |-> 0, mishaps |-> 0]

Mishap == tally.mishaps < MaxMishaps /\ tally' = [tally EXCEPT !.mishaps = @ + 1]

\* resolve: "A resolvable path is not proof the drive is mounted with our data
\* on it."
Resolved(p) ==
    [place |-> p, ok |-> p = Home \/ (p \in plugged /\ (marker[p] # 0 \/ p \in dirs))]

-----------------------------------------------------------------------------
(***************************************************************************)
(* move_to and move_to_default.                                            *)
(***************************************************************************)
\* The folder is empty, holds other things, or is this vault's (the code's
\* inspect_folder and the page's own refusal of unmarked mail).
Usable(p) ==
    /\ p \in plugged
    /\ IF marker[p] = 0 THEN p \notin dirs ELSE marker[p] = marker[Home]

\* Nothing asks whether a move is under way.
MoveBegins(p) ==
    /\ root.ok /\ p # root.place /\ tally.moves < MaxMoves
    /\ p = Home \/ Usable(p)
    /\ LET src == root.place
           present == Reachable(src) /\ src \in dirs
       IN  /\ movers' = [movers EXCEPT ![tally.moves + 1] =
                           [pc |-> "copy", src |-> src, dst |-> p, present |-> present,
                            todo |-> IF present THEN There(src) ELSE {}]]
           /\ dirs' = IF present THEN dirs \cup {p} ELSE dirs
           /\ stray' = (stray \/ Moving # {} \/ ~Reachable(src))
    /\ excused' = IF Moving = {} THEN excused ELSE received
    /\ tally' = [tally EXCEPT !.moves = @ + 1]
    /\ UNCHANGED <<files, marker, config, root, plugged, arriving, received>>

\* A torn copy that replaces a whole one.
Spoils(mv, m) ==
    IF files[mv.dst][m] = "whole" /\ files[mv.src][m] = "torn" THEN {m} ELSE {}

\* A file of the same size is left as it is; one of another size is replaced, be
\* it the better one; one another move has removed is no longer listed.
Copies(n, m) ==
    LET mv == movers[n] IN
    /\ mv.pc = "copy" /\ m \in mv.todo
    /\ Reachable(mv.src) /\ Reachable(mv.dst) /\ mv.dst \in dirs
    /\ files' = IF files[mv.src][m] = "absent" THEN files
                ELSE [files EXCEPT ![mv.dst][m] = files[mv.src][m]]
    /\ movers' = [movers EXCEPT ![n].todo = @ \ {m}]
    /\ excused' = excused \cup Spoils(mv, m)
    /\ UNCHANGED <<dirs, marker, config, root, plugged, arriving, received, stray,
                   tally>>

\* What an interrupted copy leaves of the file in hand.
Tears(mv) ==
    /\ mv.pc = "copy" /\ Reachable(mv.dst) /\ mv.dst \in dirs
    /\ \E m \in mv.todo :
         /\ files[mv.src][m] \notin {"absent", files[mv.dst][m]}
         /\ files' = [files EXCEPT ![mv.dst][m] = "torn"]
         /\ excused' = excused \cup Spoils(mv, m)

\* A mishap; a drive that is gone; a file or a directory another move removed.
CopyFails(n) ==
    LET mv == movers[n] IN
    /\ mv.pc = "copy" /\ mv.todo # {}
    /\ \/ Mishap
       \/ /\ \/ ~(Reachable(mv.src) /\ Reachable(mv.dst) /\ mv.dst \in dirs)
             \/ ~(mv.todo \subseteq There(mv.src))
          /\ tally' = tally
    /\ Tears(mv) \/ UNCHANGED <<files, excused>>
    /\ movers' = [movers EXCEPT ![n] = Idle]
    /\ UNCHANGED <<dirs, marker, config, root, plugged, arriving, received, stray>>

\* new_vault_id.
FreshId == CHOOSE id \in 1 .. Cardinality(Places) + 1 : \A p \in Places : marker[p] # id

VerifiedUnread(mv) == TRUE                                           \* slip

\* verify_tree: sizes, of what the source holds now.
Verified(mv) ==
    /\ Reachable(mv.src) /\ Reachable(mv.dst) /\ mv.src \in dirs
    /\ \A m \in There(mv.src) : files[mv.dst][m] = files[mv.src][m]

Verifies(n) ==
    LET mv == movers[n] IN
    /\ mv.pc = "copy" /\ mv.todo = {}
    /\ movers' = [movers EXCEPT ![n] =
         IF ~mv.present \/ Verified(mv)
         THEN [mv EXCEPT !.pc = IF mv.dst = Home THEN "switch" ELSE "stamp"]
         ELSE Idle]
    /\ UNCHANGED <<files, dirs, marker, config, root, plugged, arriving, received,
                   excused, stray, tally>>

Stamps(n) ==
    LET dst == movers[n].dst IN
    /\ movers[n].pc = "stamp"
    /\ IF Reachable(dst)
       THEN /\ marker' = [marker EXCEPT ![dst] = IF @ = 0 THEN FreshId ELSE @]
            /\ movers' = [movers EXCEPT ![n].pc = "switch"]
       ELSE marker' = marker /\ movers' = [movers EXCEPT ![n] = Idle]
    /\ UNCHANGED <<files, dirs, config, root, plugged, arriving, received, excused,
                   stray, tally>>

\* A bookmark macOS refuses leaves the old location.
AfterSaving(p) == IF p = Home THEN {Home} ELSE {p, config}

\* Save the location and resolve it.  One that does not open is cleared, which
\* is not where a move between two drives began.
Switches(n) ==
    LET mv == movers[n] IN
    /\ mv.pc = "switch"
    /\ \E place \in AfterSaving(mv.dst) :
         IF Resolved(place).ok /\ (place = Home => mv.dst = Home)
         THEN /\ config' = place /\ root' = Resolved(place)
              /\ movers' = [movers EXCEPT ![n].pc = "clean"]
              /\ stray' = (stray \/ place # mv.dst)
         ELSE /\ config' = Home /\ root' = Resolved(Home)
              /\ movers' = [movers EXCEPT ![n] = Idle]
              /\ stray' = (stray \/ mv.src # Home)
    /\ marker' = IF mv.dst = Home THEN marker
                 ELSE [marker EXCEPT ![Home] = marker[mv.dst]]
    /\ UNCHANGED <<files, dirs, plugged, arriving, received, excused, tally>>

\* remove_sources, a file at a time.
Cleans(n) ==
    LET src == movers[n].src IN
    /\ movers[n].pc = "clean" /\ movers[n].present /\ Reachable(src)
    /\ \E m \in There(src) : files' = [files EXCEPT ![src][m] = "absent"]
    /\ UNCHANGED <<dirs, marker, config, root, plugged, movers, arriving, received,
                   excused, stray, tally>>

MoveEnds(n) ==
    LET mv == movers[n]
        cleaned == mv.present /\ Reachable(mv.src)
    IN
    /\ mv.pc = "clean" /\ (cleaned => There(mv.src) = {})
    /\ dirs' = IF cleaned THEN dirs \ {mv.src} ELSE dirs
    /\ movers' = [movers EXCEPT ![n] = Idle]
    /\ UNCHANGED <<files, marker, config, root, plugged, arriving, received, excused,
                   stray, tally>>

\* A file that cannot be removed, or a directory another move fills: the rest of
\* the source stays.
CleanFails(n) ==
    /\ movers[n].pc = "clean"
    /\ Mishap \/ (Crossed /\ tally' = tally)
    /\ movers' = [movers EXCEPT ![n] = Idle]
    /\ UNCHANGED <<files, dirs, marker, config, root, plugged, arriving, received,
                   excused, stray>>

-----------------------------------------------------------------------------
(***************************************************************************)
(* The page's other two choices, a move under way or not.                  *)
(***************************************************************************)
\* "Use existing folder", to reconnect a drive or to switch to it.
Adopt(p) ==
    /\ p \in plugged /\ (p \in dirs \/ marker[p] # 0)
    /\ LET id == IF marker[p] = 0 THEN FreshId ELSE marker[p] IN
       marker' = [marker EXCEPT ![p] = id, ![Home] = id]
    /\ UNCHANGED <<files, dirs, plugged, movers, arriving, received, excused, tally>>
    /\ \E place \in AfterSaving(p) :
         /\ config' = place /\ root' = Resolved(place)'
         /\ stray' = (Moving # {} \/ ~HoldsAll(place))

\* "Leaves the mail where it is."
Reset ==
    /\ config # Home
    /\ config' = Home /\ root' = Resolved(Home)
    /\ stray' = (Moving # {} \/ ~HoldsAll(Home))
    /\ UNCHANGED <<files, dirs, marker, plugged, movers, arriving, received, excused,
                   tally>>

-----------------------------------------------------------------------------
(***************************************************************************)
(* An archive: the path first, the file later.                             *)
(***************************************************************************)
Asks(m) ==
    /\ root.ok /\ m \notin received
    /\ \A p \in Places : <<m, p>> \notin arriving
    /\ arriving' = arriving \cup {<<m, root.place>>}
    /\ UNCHANGED <<files, dirs, marker, config, root, plugged, movers, received, excused,
                   stray, tally>>

\* A move has looked at p for the last time, or two are under way.
Missed(p) ==
    \/ p # root.place \/ Crossed
    \/ \E n \in Moving : /\ movers[n].src = p
                         /\ movers[n].pc = "copy" => ~movers[n].present

\* The moves that list p.
Listing(p) ==
    {n \in Moving : movers[n].src = p /\ movers[n].pc = "copy" /\ movers[n].present}

\* A copy under way lists the new file or has passed it.
Lands(m, p) ==
    /\ <<m, p>> \in arriving
    /\ arriving' = arriving \ {<<m, p>>}
    /\ IF Reachable(p)
       THEN /\ files' = [files EXCEPT ![p][m] = "whole"]
            /\ dirs' = dirs \cup {p}
            /\ received' = received \cup {m}
            /\ excused' = IF Missed(p) THEN excused \cup {m} ELSE excused
            /\ \E listed \in SUBSET Listing(p) :
                 movers' = [n \in 1 .. MaxMoves |->
                   IF n \in listed THEN [movers[n] EXCEPT !.todo = @ \cup {m}]
                   ELSE movers[n]]
       ELSE UNCHANGED <<files, dirs, received, excused, movers>>
    /\ UNCHANGED <<marker, config, root, plugged, stray, tally>>

-----------------------------------------------------------------------------
(***************************************************************************)
(* Drives come and go; the root is resolved at launch and at switches.     *)
(***************************************************************************)
Unplug(p) ==
    /\ p \in plugged /\ Mishap
    /\ plugged' = plugged \ {p}
    /\ UNCHANGED <<files, dirs, marker, config, root, movers, arriving, received,
                   excused, stray>>

Plug(p) ==
    /\ p \in Drives \ plugged
    /\ plugged' = plugged \cup {p}
    /\ UNCHANGED <<files, dirs, marker, config, root, movers, arriving, received,
                   excused, stray, tally>>

CrashAndLaunch ==
    /\ Mishap
    /\ UNCHANGED <<files, excused>> \/ \E n \in Moving : Tears(movers[n])
    /\ root' = Resolved(config)
    /\ movers' = [n \in 1 .. MaxMoves |-> Idle] /\ arriving' = {}
    /\ UNCHANGED <<dirs, marker, config, plugged, received, stray>>

Next ==
    \/ \E p \in Places : MoveBegins(p)
    \/ \E n \in 1 .. MaxMoves :
         \/ \E m \in Letters : Copies(n, m)
         \/ CopyFails(n) \/ Verifies(n) \/ Stamps(n) \/ Switches(n)
         \/ Cleans(n) \/ MoveEnds(n) \/ CleanFails(n)
    \/ \E p \in Drives : Adopt(p) \/ Unplug(p) \/ Plug(p)
    \/ Reset
    \/ \E m \in Letters : Asks(m) \/ \E p \in Places : Lands(m, p)
    \/ CrashAndLaunch

Spec == Init /\ [][Next]_vault

-----------------------------------------------------------------------------
TypeOK ==
    /\ files \in [Places -> [Letters -> {"absent", "torn", "whole"}]]
    /\ dirs \subseteq Places /\ plugged \subseteq Drives
    /\ marker \in [Places -> 0 .. Cardinality(Places) + 1]
    /\ config \in Places
    /\ root \in [place : Places, ok : BOOLEAN]
    /\ movers \in [1 .. MaxMoves ->
                    [pc : {"idle", "copy", "stamp", "switch", "clean"},
                     src : Places, dst : Places, todo : SUBSET Letters,
                     present : BOOLEAN]]
    /\ arriving \subseteq Letters \X Places
    /\ excused \subseteq received /\ received \subseteq Letters
    /\ stray \in BOOLEAN
    /\ tally \in [moves : 0 .. MaxMoves, mishaps : 0 .. MaxMishaps]

\* Every message is whole somewhere, but for those an archive wrote to the old
\* place once the move had verified it, a torn copy replaced, or two moves at once
\* had in hand.
NoMailLost == \A m \in received \ excused : \E p \in Places : files[p][m] = "whole"

\* The place that reads and writes use holds every message, unless the user changed
\* it without the mail or beside a move, or one of the switches marked stray did.
RootHasAll == root.ok /\ ~stray => HoldsAll(root.place)

(***************************************************************************)
(* "copy everything, verify it byte-count for byte-count, only then delete *)
(* the originals" (vault.rs:426), "A failure at any point before the       *)
(* switch leaves the current store intact" (428) and "callers must not     *)
(* silently fall back to the app data dir and start a second, divergent    *)
(* copy" (167): through crashes, failures, drives that come and go and     *)
(* folders adopted or left while a move runs no message is lost, and the   *)
(* place in use has them all.  What two moves at once had in hand is       *)
(* excepted: a move back begun while the first one cleans finds the        *)
(* originals still there, and each removes what the other relied on.       *)
(***************************************************************************)
VaultKeepsMail == NoMailLost /\ RootHasAll
=============================================================================
