--------------------------- MODULE MCBackupRestore ---------------------------
(***************************************************************************)
(* The constants of MCKnowledgeService under backups and restores.         *)
(***************************************************************************)
EXTENDS BackupRestore, MCKnowledgeService
=============================================================================
