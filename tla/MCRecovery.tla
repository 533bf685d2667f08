----------------------------- MODULE MCRecovery -----------------------------
(***************************************************************************)
(* TLC instances of Recovery.                                              *)
(***************************************************************************)
EXTENDS Recovery

Setting(reuse, fresh, machine, fails) ==
    [reuse_logs |-> reuse, fresh |-> fresh, machine_crashes |-> machine, log_fails |-> fails]

\* From an empty directory, processes die and appends fail; an existing
\* database on a machine that crashes; reused logs and processes that die.
Crashes == {Setting(FALSE, TRUE, FALSE, TRUE), Setting(FALSE, FALSE, TRUE, FALSE),
            Setting(TRUE, TRUE, FALSE, FALSE)}

\* Writes go on after a failed append.
FailedAppend == {Setting(FALSE, FALSE, FALSE, TRUE)}
=============================================================================
