------------------------ MODULE MCBackupCoordinator ------------------------
(***************************************************************************)
(* Instances of BackupCoordinator: one account of two folders and one of   *)
(* a single folder.                                                        *)
(***************************************************************************)
EXTENDS BackupCoordinator

CONSTANTS acc1, acc2

const_Order == <<acc1, acc2>>
const_Folders == [a \in {acc1, acc2} |-> IF a = acc1 THEN 2 ELSE 1]
=============================================================================
