------------------------------ MODULE MCStores ------------------------------
(***************************************************************************)
(* What may outlive the code that made it, files and processes, for one    *)
(* run of TLC: model directories, scripts with their manifest and          *)
(* configuration, adapters and clients, and the children of ProcessSession *)
(* and of a batch command.                                                 *)
(* A behaviour picks one part and runs it while the others rest in an      *)
(* initial state.  What is shown of one is what its own module says.       *)
(***************************************************************************)
EXTENDS ModelInstall, ScriptInstall, ProcessManager, ProcessSession, CommandBatch

(* Scripts whose registry entry has both fields, then only a sha256; and   *)
(* neither, then only a version.                                           *)
MCVersioned == {<<"A", 1>>, <<"B", 2>>}
MCHashed == {<<"A", 1>>, <<"A", 2>>}

ASSUME EntriesArePublished == Versioned \cup Hashed \subseteq Ids \X (1 .. MaxVersion)
ASSUME PidsArePositive == Pids \subseteq Nat \ {0}

VARIABLE part   \* the one that runs

vars == <<part, modelVars, scriptVars, managerVars, sessionVars, batchVars>>

Init ==
    /\ part \in {"model", "script", "manager", "session", "batch"}
    /\ ModelInit /\ ScriptInit /\ ManagerInit /\ SessionInit /\ BatchInit
    /\ part # "model" => dest = NoDir
    /\ part # "manager" => pidfd
    /\ part # "session" => ~child.helper /\ ~child.stuck
    /\ part # "batch" => batch.timeout

Next == \/ /\ part = "model" /\ ModelNext
           /\ UNCHANGED <<part, scriptVars, managerVars, sessionVars, batchVars>>
        \/ /\ part = "script" /\ ScriptNext
           /\ UNCHANGED <<part, modelVars, managerVars, sessionVars, batchVars>>
        \/ /\ part = "manager" /\ ManagerNext
           /\ UNCHANGED <<part, modelVars, scriptVars, sessionVars, batchVars>>
        \/ /\ part = "session" /\ SessionNext
           /\ UNCHANGED <<part, modelVars, scriptVars, managerVars, batchVars>>
        \/ /\ part = "batch" /\ BatchNext
           /\ UNCHANGED <<part, modelVars, scriptVars, managerVars, sessionVars>>

Spec == Init /\ [][Next]_vars
=============================================================================
