-------------------------- MODULE MCPaperLifecycle --------------------------
(* A small instance of PaperLifecycle and StartupRecovery for TLC.  A         *)
(* behaviour is either one of the running worker or one of a recovery over    *)
(* damaged rows: recovery runs before the worker's first poll, so the two     *)
(* never interleave.                                                          *)
EXTENDS StartupRecovery

VARIABLE side

MCExitDeltas == {-2, 1}
MCRestored == {i \in Intents : i[1] = "BTC"}

NoRecovery ==
    /\ rows = RowsOf(db) /\ step = "worker" /\ verdict = "none" /\ damage = 0

MCInit ==
    /\ Init
    /\ \/ side = "worker" /\ NoRecovery
       \/ side = "recovery" /\ RecoveryInit
MCNext ==
    \/ side = "worker" /\ Next /\ UNCHANGED <<recVars, side>>
    \/ side = "recovery" /\ RecoveryNext /\ UNCHANGED <<vars, side>>
MCSpec == MCInit /\ [][MCNext]_<<vars, recVars, side>>
=============================================================================
