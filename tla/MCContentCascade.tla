------------------------- MODULE MCContentCascade -------------------------
(***************************************************************************)
(* Instances of ContentCascade: a Graph account on screen and an IMAP one; *)
(* UID 1 is in both mailboxes, 2 only in Sent.                             *)
(***************************************************************************)
EXTENDS ContentCascade

CONSTANTS acc1, acc2

const_Accounts == {acc1, acc2}
const_Graph == {acc1}
const_Mail == [b \in {"INBOX", "Sent"} |-> IF b = "INBOX" THEN {1} ELSE {1, 2}]
const_Cached == {{}}
=============================================================================
