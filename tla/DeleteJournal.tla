---------------------------- MODULE DeleteJournal ----------------------------
(***************************************************************************)
(* What the journal of server deletes promises, without calls, launches,   *)
(* mailboxes or lists (pending_delete.rs, messageMutations.js:539-680,     *)
(* replayPendingDeletes.js): a message is entered before it is hidden,     *)
(* deleted only while it is entered, and struck out only after the server  *)
(* has answered for it.  A quit forgets which answers have come, and not   *)
(* what was promised.  ServerDelete implements this.                       *)
(***************************************************************************)
CONSTANTS Messages, Stored

VARIABLES
    server,     \* the messages the server holds
    journal,    \* the messages entered
    hidden,     \* shown as deleted, and the server has not answered yet
    tried       \* answered in this session, not struck out yet

state == <<server, journal, hidden, tried>>

Init == server = Stored /\ journal = {} /\ hidden = {} /\ tried = {}

Enter(S) ==
    /\ S \cap tried = {}
    /\ journal' = journal \cup S
    /\ UNCHANGED <<server, hidden, tried>>

Hide(S) ==
    /\ S \subseteq journal \ tried
    /\ hidden' = hidden \cup S
    /\ UNCHANGED <<server, journal, tried>>

\* Deleted, or refused, or deleted and answered with an error.
Attempt(m) ==
    /\ m \in journal \ tried
    /\ server' \in {server, server \ {m}}
    /\ hidden' = hidden \ {m}
    /\ tried' = tried \cup {m}
    /\ UNCHANGED journal

Strike(S) ==
    /\ S \subseteq tried
    /\ journal' = journal \ S
    /\ tried' = tried \ S
    /\ UNCHANGED <<server, hidden>>

Quit == tried' = {} /\ UNCHANGED <<server, journal, hidden>>

Next ==
    \/ \E S \in SUBSET Messages : Enter(S) \/ Hide(S) \/ Strike(S)
    \/ \E m \in Messages : Attempt(m)
    \/ Quit

Spec == Init /\ [][Next]_state

-----------------------------------------------------------------------------
(* What is hidden is entered and unanswered: the next launch finds it.     *)
(* (messageMutations.js:559, 577-590, 677)                                 *)
Kept == hidden \subseteq journal \ tried

(* A message leaves the server through the journal only.  (messageMuta-    *)
(* tions.js:577 before 653)                                                *)
WriteAhead == [][\A m \in Messages : m \in server \ server' => m \in journal]_state
=============================================================================
