----------------------------- MODULE MCStorage -----------------------------
(* Small instances of the data the processes keep or carry: the cache's storage *)
(* on disk, the cache server over memory and S3, the metadata of every call and *)
(* the telemetry of the consumerd's queue.  Which one a behaviour is of is      *)
(* chosen at the start.                                                         *)
EXTENDS LocalStorage, Storage, Metadata, Telemetry

VARIABLE part

otherVars == <<metaVars, telemetryVars>>
vars == <<part, localVars, storageVars, otherVars>>

Is(p) == part = p /\ UNCHANGED part

Init ==
    /\ part \in {"local", "chain", "metadata", "telemetry"}
    /\ LocalInit /\ StorageInit /\ MetadataInit /\ TelemetryInit

Next ==
    \/ (Is("local") /\ LocalNext /\ UNCHANGED <<storageVars, otherVars>>)
    \/ (Is("chain") /\ StorageNext /\ UNCHANGED <<localVars, otherVars>>)
    \/ (Is("metadata") /\ MetadataNext /\ UNCHANGED <<localVars, storageVars, telemetryVars>>)
    \/ (Is("telemetry") /\ TelemetryNext /\ UNCHANGED <<localVars, storageVars, metaVars>>)

Progress ==
    \/ (Is("local") /\ Running /\ LocalStep /\ UNCHANGED <<storageVars, otherVars>>)
    \/ (Is("chain") /\ StorageWork /\ UNCHANGED <<localVars, otherVars>>)

Spec == Init /\ [][Next]_vars /\ WF_vars(Progress)

\* The types of the two storages: in particular totalSize never goes below zero
\* (volatile.go:76) and no file is taken for an object that does not decode
\* (local.go:104).
StoresTypeOK == LocalTypeOK /\ StorageTypeOK

\* The storages come to rest: what has expired is deleted from the disk
\* (local.go:135-158), and over memory and S3 the bucket is set up and every call
\* returns, also when S3 fails (s3.go:80, chain.go:87).
StoresSettle ==
    <>[](/\ part = "local" => DiskSettled
         /\ part = "chain" => ChainSettled)
=============================================================================
