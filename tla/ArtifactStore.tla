----------------------------- MODULE ArtifactStore -----------------------------
(***************************************************************************)
(* BoundedArtifactStore of artifact_store.py: the process-local store of   *)
(* rendered artifacts behind opaque capabilities.  One lock makes every    *)
(* call a single step, so an action is a whole call: it reads the clock,   *)
(* drops what has expired, and then stores or reads.                       *)
(***************************************************************************)
EXTENDS Integers, Sequences, FiniteSetsExt

CONSTANTS
    Tokens,          \* the capabilities the token factory may draw
    Sizes,           \* the sizes of artifacts
    MaxArtifacts, MaxTotalBytes, ArtifactTtl,
    MaxArtifactCalls \* bound on the calls of a behaviour, for TLC

ASSUME ArtifactAssumption ==
    /\ Sizes \subseteq Nat \ {0}
    /\ MaxArtifacts \in Nat \ {0} /\ MaxTotalBytes \in Nat \ {0}
    /\ ArtifactTtl \in Nat \ {0}
    /\ MaxArtifactCalls \in Nat

VARIABLES
    artifacts,     \* the entries, the least recently used first
    artifactBytes, \* what the store believes they weigh together
    artifactNow,   \* the monotonic clock
    lastUse,       \* history: [Tokens -> the call that last stored or served it]
    artifactCalls  \* history: the calls so far

artifactVars == <<artifacts, artifactBytes, artifactNow, lastUse, artifactCalls>>

Entry == [token : Tokens, size : Sizes, created : Nat, intact : BOOLEAN]

(* What the entries at the positions I weigh together, one unit a byte.    *)
BytesAt(s, I) == Cardinality(UNION {{i} \X (1..s[i].size) : i \in I})
BytesOf(s) == BytesAt(s, DOMAIN s)
TokensOf(s) == {s[i].token : i \in DOMAIN s}

(* The entries at the positions I, in the order they have in s.            *)
Picked(s, I) ==
    [n \in 1..Cardinality(I) |->
       s[CHOOSE i \in I : Cardinality({j \in I : j <= i}) = n]]

InTime == {i \in DOMAIN artifacts : artifactNow - artifacts[i].created < ArtifactTtl}

(* What the purge at the start of every call leaves, in entries and bytes. *)
Live == Picked(artifacts, InTime)

(* Mutant of LiveBytes: what expires keeps its bytes.                      *)
LiveBytesStale == artifactBytes

LiveBytes == artifactBytes - BytesAt(artifacts, DOMAIN artifacts \ InTime)

(* Entries the eviction loop takes from the cold end to make room.         *)
Evictions(size) ==
    Min({k \in 0..Len(Live) :
           \/ k = Len(Live)
           \/ /\ Len(Live) - k < MaxArtifacts
              /\ LiveBytes - BytesAt(Live, 1..k) + size <= MaxTotalBytes})

Called(t) ==
    /\ artifactCalls < MaxArtifactCalls
    /\ artifactCalls' = artifactCalls + 1
    /\ lastUse' = [lastUse EXCEPT ![t] = artifactCalls + 1]
    /\ UNCHANGED artifactNow

CalledInVain ==
    /\ artifactCalls < MaxArtifactCalls
    /\ artifactCalls' = artifactCalls + 1
    /\ UNCHANGED <<lastUse, artifactNow>>

(* Room is made before the capability is drawn: when no fresh one comes    *)
(* up, what was evicted stays evicted.                                     *)
Store(t, size) ==
    LET kept == Picked(Live, (Evictions(size) + 1)..Len(Live))
        bytes == LiveBytes - BytesAt(Live, 1..Evictions(size))
    IN  /\ size <= MaxTotalBytes
        /\ \/ /\ t \notin TokensOf(kept)
              /\ artifacts' = Append(kept, [token |-> t, size |-> size,
                                            created |-> artifactNow, intact |-> TRUE])
              /\ artifactBytes' = bytes + size
              /\ Called(t)
           \/ /\ artifacts' = kept /\ artifactBytes' = bytes
              /\ CalledInVain

Without(s, t) == Picked(s, {i \in DOMAIN s : s[i].token # t})

(* Mutant of Served: a read does not refresh the recency.                  *)
ServedInPlace(e) == Live

Served(e) == Append(Without(Live, e.token), e)

(* A read refreshes the recency of an entry but not its age, and drops an  *)
(* entry whose content no longer matches its digest.                       *)
Read(t) ==
    \/ \E i \in DOMAIN Live :
         /\ Live[i].token = t
         /\ \/ /\ Live[i].intact
               /\ artifacts' = Served(Live[i]) /\ artifactBytes' = LiveBytes
               /\ Called(t)
            \/ /\ ~Live[i].intact
               /\ artifacts' = Without(Live, t)
               /\ artifactBytes' = LiveBytes - Live[i].size
               /\ CalledInVain
    \/ /\ t \notin TokensOf(Live)
       /\ artifacts' = Live /\ artifactBytes' = LiveBytes
       /\ CalledInVain

(* Somebody who holds the retained object changes it.                      *)
Corrupt(t) ==
    /\ \E i \in DOMAIN artifacts :
         /\ artifacts[i].token = t /\ artifacts[i].intact
         /\ artifacts' = [artifacts EXCEPT ![i].intact = FALSE]
    /\ UNCHANGED <<artifactBytes, artifactNow, lastUse, artifactCalls>>

ArtifactTick ==
    /\ artifactNow < 2 * ArtifactTtl
    /\ artifactNow' = artifactNow + 1
    /\ UNCHANGED <<artifacts, artifactBytes, lastUse, artifactCalls>>

ArtifactInit ==
    /\ artifacts = <<>> /\ artifactBytes = 0 /\ artifactNow = 0
    /\ lastUse = [t \in Tokens |-> 0] /\ artifactCalls = 0

ArtifactNext ==
    \/ \E t \in Tokens : \/ \E size \in Sizes : Store(t, size)
                         \/ Read(t) \/ Corrupt(t)
    \/ ArtifactTick

ArtifactSpec == ArtifactInit /\ [][ArtifactNext]_artifactVars

(***************************************************************************)
(* Properties                                                              *)
(***************************************************************************)
ArtifactsTypeOK ==
    /\ artifacts \in Seq(Entry) /\ artifactBytes \in Nat
    /\ artifactNow \in Nat /\ artifactCalls \in Nat
    /\ lastUse \in [Tokens -> Nat]

(* Expiry, eviction, a read that finds corrupted content and a capability  *)
(* that could not be drawn all keep the byte count true to the entries, no *)
(* capability names two of them, and neither bound is ever exceeded.       *)
BytesAccounted ==
    /\ artifactBytes = BytesOf(artifacts)
    /\ artifactBytes <= MaxTotalBytes
    /\ Len(artifacts) <= MaxArtifacts
    /\ \A i, j \in DOMAIN artifacts :
         artifacts[i].token = artifacts[j].token => i = j

StaysOrWasLeastRecent(i) ==
    \/ artifacts[i].token \in TokensOf(artifacts')
    \/ \A t \in TokensOf(artifacts') : lastUse'[t] > lastUse[artifacts[i].token]

(* A live, intact artifact is dropped only to make room, and then whatever *)
(* stays was stored or served after it: the store never sacrifices what a  *)
(* caller has just used.                                                   *)
LeastRecentGoes ==
    [][\A i \in InTime : artifacts[i].intact => StaysOrWasLeastRecent(i)]_artifactVars
================================================================================
