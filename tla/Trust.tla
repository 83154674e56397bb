------------------------------- MODULE Trust --------------------------------
(***************************************************************************)
(* The trust level of the local device: CapabilityManager with its         *)
(* TrustLevelStateMachine and root CA registry, the two ways of presenting *)
(* a Biscuit token, the token-expiry monitor loop and a revocation of this *)
(* device (auth/mod.rs, auth/trust.rs, auth/root_ca.rs, api/mod.rs).       *)
(*                                                                         *)
(* One action is one critical section of the capability lock.  Every       *)
(* caller reads the clock before it takes the lock, so an action may work  *)
(* with a time up to MaxLag in the past.                                   *)
(***************************************************************************)
EXTENDS Integers

CONSTANTS
    Keys,        \* root CA keys
    ConfigKeys,  \* those of the deployment configuration
    MaxTime,     \* bound: the clock
    MaxExpiry,   \* bound: expiry times of tokens
    MaxLag,      \* bound: clock read to lock
    MaxRestarts, \* bound: process restarts
    None

ASSUME TrustAssumption ==
    /\ ConfigKeys \subseteq Keys
    /\ MaxTime \in Nat /\ MaxExpiry \in Nat /\ MaxExpiry < MaxTime /\ MaxLag \in Nat
    /\ MaxRestarts \in Nat
    /\ None \notin Nat /\ None \notin [ca : Keys, exp : Nat]

VARIABLES
    now,        \* the clock
    registry,   \* RootCaRegistry.keys
    level,      \* TrustLevelStateMachine.level
    since,      \* unverified_since
    expires,    \* current_token_expires_at
    credential, \* the token accepted last, by either entry point (history)
    restarts

vars == <<now, registry, level, since, expires, credential, restarts>>

Tokens == [ca : Keys, exp : 0..MaxExpiry]

\* The times a caller may have read before it got the lock.
Clock == {n \in 0..now : now - n <= MaxLag}

Init ==
    /\ now = 0
    /\ registry = ConfigKeys
    /\ level = "Unverified" /\ since = None
    /\ expires = None /\ credential = None
    /\ restarts = 0

-----------------------------------------------------------------------------
on_valid_token ==
    level' = "Verified" /\ since' = None

\* Mutant: a repeated expiry moves the timestamp.
on_token_expired_again(n) ==
    /\ level' = IF level = "Revoked" THEN level ELSE "Unverified"
    /\ since' = IF level = "Revoked" THEN since ELSE n

\* A revoked device stays revoked, and the first expiry is the one remembered.
on_token_expired(n) ==
    IF level = "Revoked"
    THEN UNCHANGED <<level, since>>
    ELSE /\ level' = "Unverified"
         /\ since' = IF since = None THEN n ELSE since

\* Biscuit: signed by the key, and check_expiration_date at time n.
Signed(t, keys)  == t.ca \in keys
InDate(t, n)     == n <= t.exp

\* CapabilityManager::present_token.  A token no registered key signed changes
\* nothing; without any key the call fails.
present_token(t, n) ==
    /\ registry # {} /\ Signed(t, registry)
    /\ \/ /\ InDate(t, n)
          /\ on_valid_token
          /\ expires' = t.exp
          /\ credential' = t
       \/ /\ ~InDate(t, n)
          /\ on_token_expired(n)
          /\ UNCHANGED <<expires, credential>>
    /\ UNCHANGED <<now, registry, restarts>>

\* CapabilityManager::verify_token does not record the expiry, and refuses a
\* revoked device.
verify_token(t, keys, n) ==
    IF level # "Revoked" /\ Signed(t, keys) /\ InDate(t, n)
    THEN on_valid_token /\ credential' = t
    ELSE UNCHANGED <<level, since, credential>>

\* CapabilityManager::register_root_ca_key with a token to verify, or without.
register_root_ca_key(k, t, n) ==
    /\ registry' = registry \cup {k}
    /\ \/ verify_token(t, registry', n)
       \/ UNCHANGED <<level, since, credential>>
    /\ UNCHANGED <<now, expires, restarts>>

apply_revocation ==
    /\ level' = "Revoked" /\ since' = None
    /\ UNCHANGED <<now, registry, expires, credential, restarts>>

\* Mutant: a missing expiry never counts as passed.
Elapsed_recorded(n) == expires # None /\ expires <= n

\* current_token_expires_at() <= Some(n): Rust orders None before every Some.
Elapsed(n) == expires # None => expires <= n

\* One tick of spawn_token_expiry_monitor_loop.
MonitorTick(n) ==
    /\ level = "Verified" /\ Elapsed(n)
    /\ on_token_expired(n)
    /\ UNCHANGED <<now, registry, expires, credential, restarts>>

ClockTick ==
    /\ now < MaxTime /\ now' = now + 1
    /\ UNCHANGED <<registry, level, since, expires, credential, restarts>>

\* Nothing of the CapabilityManager is persisted.
Restart ==
    /\ restarts < MaxRestarts /\ restarts' = restarts + 1
    /\ registry' = ConfigKeys
    /\ level' = "Unverified" /\ since' = None
    /\ expires' = None /\ credential' = None
    /\ UNCHANGED now

Next ==
    \/ \E n \in Clock : \/ \E t \in Tokens : \/ present_token(t, n)
                                             \/ \E k \in Keys : register_root_ca_key(k, t, n)
                        \/ MonitorTick(n)
    \/ apply_revocation
    \/ ClockTick
    \/ Restart

Spec == Init /\ [][Next]_vars

-----------------------------------------------------------------------------
TypeOK ==
    /\ now \in Nat /\ registry \subseteq Keys
    /\ level \in {"Verified", "Unverified", "Revoked"}
    /\ since \in Nat \cup {None}
    /\ expires \in Nat \cup {None}
    /\ credential \in Tokens \cup {None}
    /\ restarts \in Nat

\* Req 8.4: a device that lost its verification by expiry always has the
\* timestamp the warning of every later operation is built from, however
\* expiries, new tokens and revocations follow each other.
LapseIsWarned ==
    credential # None /\ level = "Unverified" => since # None

\* Req 8.4: that timestamp is the first expiry: presenting expired tokens
\* again, or a monitor tick that comes late, does not move it.
SinceIsFirst ==
    [][level = "Unverified" /\ since # None /\ level' = "Unverified" /\ restarts' = restarts
         => since' = since]_vars

\* Req 8.5: expiry, from whichever path, never takes a device out of REVOKED.
ExpiryKeepsRevoked ==
    [][level = "Revoked" /\ level' = "Unverified" => restarts' # restarts]_vars

\* Req 8.4: a device does not stay VERIFIED on a token that ran out, whichever
\* entry point accepted it and whatever expiry an earlier token left behind.
VerifiedLapses ==
    level = "Verified" /\ credential # None /\ credential.exp < now
        ~> level # "Verified" \/ credential.exp >= now

\* Req 8.4, 8.5: expiry is warned about with its first time and never lifts a
\* revocation, in any order of tokens, expiries and monitor ticks.
ExpiryIsHonest == []LapseIsWarned /\ SinceIsFirst /\ ExpiryKeepsRevoked

-----------------------------------------------------------------------------
\* What the documentation claims and the code does not do (see README).

\* trust.rs lists no transition out of REVOKED; auth/mod.rs: "a revoked device
\* cannot re-verify".
RevokedIsTerminal ==
    [][level = "Revoked" /\ restarts' = restarts => level' = "Revoked"]_vars
=============================================================================
