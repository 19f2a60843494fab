---------------------------- MODULE MCServerDelete ----------------------------
(* Finite instances of ServerDelete; each cfg gives the constants.         *)
EXTENDS ServerDelete
CONSTANTS inbox, work, u1, u2

(* u1 names a message in either mailbox; u2 has a copy in the vault.       *)
TwoBoxes == {<<inbox, u1>>, <<inbox, u2>>, <<work, u1>>}
InVault == {<<inbox, u2>>}
InWorkVault == {<<work, u1>>}
=============================================================================
