--------------------------- MODULE MCBackupRestore ---------------------------
(* TLC instances of BackupRestore: ports are numbers as in the code.       *)
EXTENDS BackupRestore
=============================================================================
