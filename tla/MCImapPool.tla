------------------------------ MODULE MCImapPool ------------------------------
(* Finite instances of ImapPool; each cfg gives the constants.             *)
EXTENDS ImapPool
Both == <<"background", "priority">>
Background == <<"background">>
=============================================================================
