------------------------------ MODULE MCLoadRun -------------------------------
(* The instance of LoadRun that TLC checks.                                *)
EXTENDS LoadRun

AllRequests == Load \union {SELF_CHECK}
=============================================================================
