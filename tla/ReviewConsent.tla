----------------------------- MODULE ReviewConsent -----------------------------
(***************************************************************************)
(* How a human decides about an optimized package: the export and approval *)
(* tools of optimization/mcp.py over the pending challenges of             *)
(* optimization/_host_consent.py.  A tool call reads the job's state and   *)
(* is given a challenge, the host shows it and the human answers in their  *)
(* own time, and the call then reads the state again, consumes the         *)
(* challenge and only then discloses the candidate or approves the job.    *)
(* The job is what OptimizationService makes of it: here it is under       *)
(* review at some revision, until it is approved or somebody closes it.    *)
(***************************************************************************)
EXTENDS Naturals, FiniteSets

CONSTANTS
    Reviews,      \* tool calls
    MaxPending,   \* capacity of the challenges
    ConsentTtl,
    ArtifactRoom, \* how many disclosed candidates are kept
    MaxConsentClock, MaxChallenges, MaxRevision  \* bounds, for TLC

ASSUME ConsentAssumption ==
    /\ MaxPending \in Nat \ {0} /\ ConsentTtl \in Nat \ {0}
    /\ ArtifactRoom \in Nat
    /\ MaxConsentClock \in Nat /\ MaxChallenges \in Nat /\ MaxRevision \in Nat

VARIABLES
    reviewed,     \* the job: its revision and whether it is under review
    pending,      \* [Purpose -> its challenge], the owner and job being fixed
    reviews,      \* [Reviews -> the tool call]
    disclosed,    \* the candidates handed out, with their expiry
    challenges,   \* how many challenges were drawn
    consentClock

consentVars == <<reviewed, pending, reviews, disclosed, challenges, consentClock>>

Purpose == {"geometry", "approval"}
NoChallenge == 0
NoPending == [revision |-> 0, challenge |-> NoChallenge, expires |-> 0]
Pending == [revision : Nat, challenge : Nat, expires : Nat]
NoReview ==
    [pc |-> "idle", purpose |-> "none", revision |-> 0,
     challenge |-> NoChallenge, decision |-> "none", outcome |-> "none"]
Review ==
    [pc : {"idle", "asked", "decided", "done"},
     purpose : Purpose \cup {"none"}, revision : Nat, challenge : Nat,
     decision : {"none", "approve", "decline"},
     outcome : {"none", "refused", "declined", "approved", "disclosed"}]

ConsentsPurged ==
    [p \in Purpose |-> IF pending[p].expires <= consentClock THEN NoPending ELSE pending[p]]
ArtifactsKept == {a \in disclosed : a.expires > consentClock}

(* The state both tools read before and after the human's decision: the    *)
(* candidate is still kept, also after its approval.                       *)
StateReadable(revision) ==
    reviewed.status # "closed" /\ reviewed.revision = revision

Conclude(r, outcome) ==
    reviews' = [reviews EXCEPT ![r].pc = "done", ![r].outcome = outcome]

(* A call that finds the job as its caller described it gets a challenge:  *)
(* the pending one of the same purpose if it was drawn for this revision,  *)
(* else a new one in its place, if there is room.                          *)
Issue(r, purpose, revision) ==
    LET p == ConsentsPurged
        same == p[purpose].challenge # NoChallenge /\ p[purpose].revision = revision
        full == Cardinality({q \in Purpose : p[q].challenge # NoChallenge}) >= MaxPending
        given == IF same THEN p[purpose]
                 ELSE [revision |-> revision, challenge |-> challenges + 1,
                       expires |-> consentClock + ConsentTtl]
        asked == [NoReview EXCEPT !.purpose = purpose, !.revision = revision]
    IN  \/ /\ same \/ p[purpose].challenge # NoChallenge \/ ~full
           /\ challenges < MaxChallenges
           /\ pending' = [p EXCEPT ![purpose] = given]
           /\ challenges' = IF same THEN challenges ELSE challenges + 1
           /\ reviews' = [reviews EXCEPT ![r] = [asked EXCEPT !.pc = "asked",
                                                   !.challenge = given.challenge]]
        \/ /\ p[purpose].challenge = NoChallenge /\ full
           /\ pending' = p
           /\ reviews' = [reviews EXCEPT ![r] = [asked EXCEPT !.pc = "done",
                                                   !.outcome = "refused"]]
           /\ UNCHANGED challenges

Ask(r) ==
    /\ reviews[r].pc = "idle"
    /\ \E purpose \in Purpose, revision \in 1..MaxRevision :
         \/ StateReadable(revision) /\ Issue(r, purpose, revision)
         \/ /\ ~StateReadable(revision)
            /\ reviews' = [reviews EXCEPT ![r] = [NoReview EXCEPT !.pc = "done",
                             !.purpose = purpose, !.revision = revision,
                             !.outcome = "refused"]]
            /\ UNCHANGED <<pending, challenges>>
    /\ UNCHANGED <<reviewed, disclosed, consentClock>>

Decide(r) ==
    /\ reviews[r].pc = "asked"
    /\ \E d \in {"approve", "decline"} :
         reviews' = [reviews EXCEPT ![r].pc = "decided", ![r].decision = d]
    /\ UNCHANGED <<reviewed, pending, disclosed, challenges, consentClock>>

(* The pending challenge is the one this call was given, for the revision  *)
(* it was given for.                                                       *)
Matches(r) ==
    LET p == ConsentsPurged[reviews[r].purpose]
    IN  /\ p.challenge = reviews[r].challenge
        /\ p.revision = reviews[r].revision

(* Mutant of Consumed: the challenge stays pending until it expires.       *)
ConsumedLater(r) == ConsentsPurged

Consumed(r) == [ConsentsPurged EXCEPT ![reviews[r].purpose] = NoPending]

(* approve_from_host under the service's lock: the job is approved at the  *)
(* revision the human saw, or what it was made from has changed on disk.   *)
ApproveReviewed(r) ==
    \/ /\ reviewed.status = "awaiting"
       /\ reviewed' = [status |-> "approved", revision |-> reviewed.revision + 1]
       /\ Conclude(r, "approved")
    \/ Conclude(r, "refused") /\ UNCHANGED reviewed

Disclose(r) ==
    \/ /\ Cardinality(ArtifactsKept) < ArtifactRoom
       /\ disclosed' = ArtifactsKept \cup {[by |-> r, expires |-> consentClock + 2 * ConsentTtl]}
       /\ Conclude(r, "disclosed")
    \/ /\ Cardinality(ArtifactsKept) >= ArtifactRoom
       /\ disclosed' = ArtifactsKept
       /\ Conclude(r, "refused")

(* The call resumes after the decision.                                    *)
Resume(r) ==
    /\ reviews[r].pc = "decided"
    /\ \/ /\ ~StateReadable(reviews[r].revision)
          /\ Conclude(r, "refused")
          /\ UNCHANGED <<reviewed, pending, disclosed>>
       \/ /\ StateReadable(reviews[r].revision) /\ ~Matches(r)
          /\ pending' = ConsentsPurged
          /\ Conclude(r, "refused")
          /\ UNCHANGED <<reviewed, disclosed>>
       \/ /\ StateReadable(reviews[r].revision) /\ Matches(r)
          /\ pending' = Consumed(r)
          /\ \/ /\ reviews[r].decision = "decline"
                /\ Conclude(r, "declined") /\ UNCHANGED <<reviewed, disclosed>>
             \/ /\ reviews[r].decision = "approve" /\ reviews[r].purpose = "approval"
                /\ ApproveReviewed(r) /\ UNCHANGED disclosed
             \/ /\ reviews[r].decision = "approve" /\ reviews[r].purpose = "geometry"
                /\ Disclose(r) /\ UNCHANGED reviewed
    /\ UNCHANGED <<challenges, consentClock>>

(* A read of a disclosed candidate revokes it once the job is closed.      *)
ReadArtifact ==
    /\ \E a \in ArtifactsKept :
         disclosed' = IF reviewed.status = "closed" THEN ArtifactsKept \ {a}
                      ELSE ArtifactsKept
    /\ UNCHANGED <<reviewed, pending, reviews, challenges, consentClock>>

(* A cancellation, the purge or maintenance closes the job.                *)
JobCloses ==
    /\ reviewed.status # "closed"
    /\ reviewed' = [status |-> "closed", revision |-> reviewed.revision + 1]
    /\ UNCHANGED <<pending, reviews, disclosed, challenges, consentClock>>

ConsentTick ==
    /\ consentClock < MaxConsentClock
    /\ consentClock' = consentClock + 1
    /\ UNCHANGED <<reviewed, pending, reviews, disclosed, challenges>>

ConsentInit ==
    /\ reviewed = [status |-> "awaiting", revision |-> 1]
    /\ pending = [p \in Purpose |-> NoPending]
    /\ reviews = [r \in Reviews |-> NoReview]
    /\ disclosed = {} /\ challenges = 0 /\ consentClock = 0

ConsentNext ==
    \/ \E r \in Reviews : Ask(r) \/ Decide(r) \/ Resume(r)
    \/ ReadArtifact \/ JobCloses \/ ConsentTick

ConsentSpec == ConsentInit /\ [][ConsentNext]_consentVars

(***************************************************************************)
(* Properties                                                              *)
(***************************************************************************)
ConsentTypeOK ==
    /\ reviewed \in [status : {"awaiting", "approved", "closed"}, revision : Nat]
    /\ pending \in [Purpose -> Pending]
    /\ Cardinality({q \in Purpose : pending[q].challenge # NoChallenge}) <= MaxPending
    /\ reviews \in [Reviews -> Review]
    /\ disclosed \subseteq [by : Reviews, expires : Nat]
    /\ Cardinality(disclosed) <= ArtifactRoom
    /\ challenges \in Nat /\ consentClock \in Nat

(* A challenge that two calls were shown, because the second asked the     *)
(* same question while the first was pending, carries one decision: after  *)
(* a refusal, an approval or a disclosure that used it, the other call has *)
(* no effect whatever its human answered.                                  *)
OneDecisionPerChallenge ==
    \A r, s \in Reviews :
      (/\ r # s /\ reviews[r].challenge = reviews[s].challenge
       /\ reviews[r].outcome \in {"declined", "approved", "disclosed"})
      => reviews[s].outcome \notin {"declined", "approved", "disclosed"}
================================================================================
