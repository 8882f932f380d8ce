--------------------------- MODULE MCBackupSession ---------------------------
(***************************************************************************)
(* Values for the constants of BackupSession that TLC checks.              *)
(***************************************************************************)
EXTENDS BackupSession

AllCommands  == {"inc", "full", "incremental"}
UserCommands == {"inc"}

\* Where a run may die: at every step; at the steps from which the code is
\* known to recover; at one step.
AllSteps  == Steps
SafeSteps == Steps \ {"delete", "manpart", "sigmoving", "sigdelete", "sigfinal",
                      "sigwriting", "sigunlink", "mancopy", "mancopying",
                      "manmove", "manmoving", "mandelete", "manfinal"}
BeforeManifestIsSent == {"mancopy"}
=============================================================================
