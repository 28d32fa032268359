---------------------------- MODULE EngineLocksMC ----------------------------
(***************************************************************************)
(* Two callers of the engine and one goroutine of the index.  Close, which *)
(* the first caller makes, is a Save with one more step.                   *)
(***************************************************************************)
EXTENDS EngineLocks, EngineCalls, TLC

CONSTANTS p1, p2, g

Background == {"FlushTimer", "Merge"}

MCLocks == DOMAIN LockRank
MCData == DOMAIN DataGuard
MCCalls == DOMAIN EngineScript

MCMay ==
    (p1 :> DOMAIN EngineScript \ (Background \cup {"Save"}))
        @@ (p2 :> {"Index", "Save", "HybridSearch"})
        @@ (g :> Background)
=============================================================================
