------------------------------ MODULE ApplyTokens ------------------------------
(***************************************************************************)
(* The tokens that authorize one apply                                     *)
(* (src/copper_mcp/apply/tokens.py, ApplyTokenAuthority).                  *)
(*                                                                         *)
(* A token names its binding (candidate, base revision, path) and carries  *)
(* its own expiry and a MAC; a token of another binding or another         *)
(* process never verifies, so only tokens presented with their own binding *)
(* to their own issuer are modelled.  The authority itself remembers       *)
(* nothing but the nonces that were consumed, and those until they expire. *)
(***************************************************************************)
EXTENDS Naturals

CONSTANTS
    Tokens,   \* nonces
    Servers,  \* server processes, each with a key of its own
    Issuer,   \* Issuer[t]: the process that issues token t
    TokenTtl, \* lifetime of a token
    MaxTime   \* bound on the clock, for TLC

ASSUME TokenAssumption ==
    /\ Issuer \in [Tokens -> Servers]
    /\ TokenTtl \in Nat \ {0}
    /\ MaxTime \in Nat

VARIABLES
    time,     \* wall-clock seconds
    expires,  \* expires[t]: when token t expires; 0 when nobody can present it
    consumed  \* the consumed nonces the authorities remember

tokens == <<time, expires, consumed>>

TokensTypeOK ==
    /\ time \in Nat
    /\ expires \in [Tokens -> Nat]
    /\ consumed \subseteq Tokens

Expired(t) == time >= expires[t]

(* Mutant of Swept: the nonce is forgotten one second before its token.    *)
SweptEarly(s) == {t \in consumed : Issuer[t] = s /\ time + 1 >= expires[t]}

(* _sweep: what an authority forgets whenever it verifies or consumes.     *)
Swept(s) == {t \in consumed : Issuer[t] = s /\ Expired(t)}

Issue(t) ==
    /\ expires[t] = 0
    /\ expires' = [expires EXCEPT ![t] = time + TokenTtl]
    /\ UNCHANGED <<time, consumed>>

(* verify sweeps before it looks the nonce up, unless the token expired.   *)
Verifies(t) == ~Expired(t) /\ t \notin consumed \ Swept(Issuer[t])

Verify(t) ==
    /\ consumed' = IF Expired(t) THEN consumed ELSE consumed \ Swept(Issuer[t])
    /\ UNCHANGED <<time, expires>>

Consume(t) ==
    /\ consumed' = (consumed \ Swept(Issuer[t])) \cup {t}
    /\ UNCHANGED <<time, expires>>

(* A new process has a new key: no token of the old one verifies again.    *)
NewKey(s) ==
    /\ expires' = [t \in Tokens |->
                      IF Issuer[t] = s /\ ~Expired(t) THEN time ELSE expires[t]]
    /\ consumed' = {t \in consumed : Issuer[t] # s}
    /\ UNCHANGED time

ClockTick ==
    /\ time < MaxTime
    /\ time' = time + 1
    /\ UNCHANGED <<expires, consumed>>

TokensInit ==
    /\ time = 1
    /\ expires = [t \in Tokens |-> 0]
    /\ consumed = {}
===============================================================================
