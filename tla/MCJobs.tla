------------------------------- MODULE MCJobs -------------------------------
(***************************************************************************)
(* The background work of the process: backups with the start they are     *)
(* restored by, telemetry, usage reports and the push to web clients.  The *)
(* parts share no state that matters to two of them; each behaviour is one *)
(* of the part that is chosen at its beginning, and the other parts stay   *)
(* as they are.                                                            *)
(***************************************************************************)
EXTENDS MCRecovery, Telemetry, UsageReporting, Push

VARIABLE part

JobsInit ==
    /\ part \in {"recovery", "telemetry", "usage", "push"}
    /\ TelemetryInit /\ PushInit
    /\ Init /\ (part # "recovery" => ~tinydb)
    /\ UsageInit /\ (part # "usage" => installed = {})

JobsNext ==
    /\ UNCHANGED part
    /\ \/ part = "recovery" /\ Next /\ UNCHANGED <<telemetryVars, usageVars, pushVars>>
       \/ part = "telemetry" /\ TelemetryNext /\ UNCHANGED <<vars, usageVars, pushVars>>
       \/ part = "usage" /\ UsageNext /\ UNCHANGED <<vars, telemetryVars, pushVars>>
       \/ part = "push" /\ PushNext /\ UNCHANGED <<vars, telemetryVars, usageVars>>

JobsSpec == JobsInit /\ [][JobsNext]_<<part, vars, telemetryVars, usageVars, pushVars>>

Symmetry == JobSymmetry \cup Permutations(Writers)
=============================================================================
