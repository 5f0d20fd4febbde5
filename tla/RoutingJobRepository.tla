-------------------------- MODULE RoutingJobRepository --------------------------
(***************************************************************************)
(* The tables beside the routing ledger (routing/job_repository.py and     *)
(* routing/candidate_store.py): the request of each job with the context   *)
(* that may look it up, the exported geometry of each candidate with the   *)
(* job and the context it was published for, and its redacted manifest.    *)
(*                                                                         *)
(* Each table has its own transactions, and every method first deletes     *)
(* what has expired.  put returns a row that is already there and never    *)
(* renews it; one that refuses is rolled back, its purge included.         *)
(* A method is written as the table it leaves.                             *)
(***************************************************************************)
EXTENDS RoutingJobWorker

CONSTANT Contexts  \* authorization digests

ASSUME RepositoryAssumption == None \notin Contexts

VARIABLES
    requests,   \* [Jobs -> the caller's context and the end of retention]
    exports,    \* [Candidates -> the job, the context, the end of retention]
    manifests,  \* [Candidates -> the job and the end of retention]
    lookup      \* [Workers \cup Callers -> a lookup between its two reads]

NoRequest == [context |-> None, expires_at |-> 0]
Request == [context : Contexts \cup {None}, expires_at : Nat]

NoArtifact == [job |-> None, context |-> None, expires_at |-> 0]
Artifact == [job : Jobs \cup {None}, context : Contexts \cup {None}, expires_at : Nat]

(* RoutingJobRequestStore                                                  *)
RequestsPurged(t) ==
    [j \in Jobs |-> IF requests[j].expires_at <= t THEN NoRequest ELSE requests[j]]
Requested(t) == {j \in Jobs : RequestsPurged(t)[j] # NoRequest}

MayPutRequest(j, a, t) ==
    IF j \in Requested(t) THEN requests[j].context = a
    ELSE Cardinality(Requested(t)) < MaxRecords

RequestPut(j, a, t) ==
    IF j \in Requested(t) THEN RequestsPurged(t)
    ELSE [RequestsPurged(t) EXCEPT ![j] = [context |-> a, expires_at |-> t + Ttl]]

RequestRemoved(j) == [requests EXCEPT ![j] = NoRequest]

(* RoutingCandidateExportStore and CandidateManifestStore                  *)
ArtifactsPurged(table, t) ==
    [c \in Candidates |-> IF table[c].expires_at <= t THEN NoArtifact ELSE table[c]]
Artifacts(table, t) == {c \in Candidates : ArtifactsPurged(table, t)[c] # NoArtifact}

MayPutArtifact(table, c, j, a, t) ==
    IF c \in Artifacts(table, t) THEN table[c].job = j /\ table[c].context = a
    ELSE Cardinality(Artifacts(table, t)) < MaxRecords

ArtifactPut(table, c, j, a, t) ==
    IF c \in Artifacts(table, t) THEN ArtifactsPurged(table, t)
    ELSE [ArtifactsPurged(table, t) EXCEPT
            ![c] = [job |-> j, context |-> a, expires_at |-> t + Ttl]]

(* RoutingJobRepository.get reads the request in one transaction and the   *)
(* record in another, at the time it started.  Both tables are purged, hit *)
(* or miss; found: the request was there, for the caller's context.        *)
NoLookup == [job |-> None, at |-> 0, found |-> FALSE]

(* Mutant of RequestFound: any context finds the request.                  *)
RequestFoundByAny(j, a) == RequestsPurged(now)[j] # NoRequest

RequestFound(j, a) == RequestsPurged(now)[j].context = a

ReadRequest(p, j, a) ==
    /\ lookup[p] = NoLookup
    /\ requests' = RequestsPurged(now)
    /\ lookup' = [lookup EXCEPT ![p] = [job |-> j, at |-> now, found |-> RequestFound(j, a)]]

ReadRecord(p) ==
    /\ lookup[p] # NoLookup
    /\ StoreGet(lookup[p].at)
    /\ lookup' = [lookup EXCEPT ![p] = NoLookup]

RecordShown(p) == lookup[p].found /\ lookup[p].job \in Stored(Purge(lookup[p].at))

RepositoryTypeOK ==
    /\ requests \in [Jobs -> Request]
    /\ exports \in [Candidates -> Artifact]
    /\ manifests \in [Candidates -> Artifact]
    /\ lookup \in [Workers \cup Callers -> [job : Jobs \cup {None}, at : 0..now, found : BOOLEAN]]

RepositoryInit ==
    /\ requests = [j \in Jobs |-> NoRequest]
    /\ exports = [c \in Candidates |-> NoArtifact]
    /\ manifests = [c \in Candidates |-> NoArtifact]
    /\ lookup = [p \in Workers \cup Callers |-> NoLookup]
===============================================================================
