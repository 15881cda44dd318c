---------------------------- MODULE SessionExpiry ---------------------------
(***************************************************************************)
(* The expiry rules of DbSessionStore: the cap on anonymous rows, the      *)
(* absolute lifetime of authenticated ones counted from "__bff_login_at",  *)
(* and the write-skip rule of sliding renewal.  Instants and durations are *)
(* whole ticks; None is the Option::None of the code, "the session must be *)
(* treated as dead".                                                       *)
(***************************************************************************)
EXTENDS SessionState

CONSTANTS
  PostAuthTtl,     \* post_auth_ttl_secs: the middleware's session TTL
  PreAuthTtl,      \* pre_auth_ttl_secs: the store's cap on anonymous rows
  MaxLifetime,     \* max_lifetime_secs: absolute lifetime from login
  TouchCoalesce,   \* touch_coalesce_secs
  FutureSkew,      \* LOGIN_AT_FUTURE_SKEW_SECS
  None             \* no expiry: the session is dead

ASSUME ExpiryAssumption ==
  /\ PostAuthTtl \in Nat \ {0}
  /\ PreAuthTtl \in Nat \ {0}
  /\ MaxLifetime \in Nat \ {0}
  /\ TouchCoalesce \in Nat
  /\ FutureSkew \in Nat
  /\ None \notin Int

AtMost(a, b) == IF a <= b THEN a ELSE b

\* hard_cap_expiry: the end of the absolute lifetime, or None when the marker
\* is unusable or the lifetime is over.
HardCapExpiry(s, now) ==
  IF \/ s.loginAt \in {Missing, Garbled}
     \/ s.loginAt > now + FutureSkew
     \/ s.loginAt + MaxLifetime <= now
  THEN None
  ELSE s.loginAt + MaxLifetime

\* Mutant: the absolute lifetime decides whether a session is dead, and no longer
\* bounds the expiry of one that is not.
EffectiveExpiry_Unclamped(s, now) ==
  IF ~HasSub(s)
  THEN now + AtMost(PostAuthTtl, PreAuthTtl)
  ELSE IF HardCapExpiry(s, now) = None THEN None ELSE now + PostAuthTtl

\* Mutant: anonymous rows get the middleware's TTL.
EffectiveExpiry_NoPreAuthCap(s, now) ==
  IF ~HasSub(s)
  THEN now + PostAuthTtl
  ELSE IF HardCapExpiry(s, now) = None
       THEN None
       ELSE AtMost(now + PostAuthTtl, HardCapExpiry(s, now))

\* compute_effective_expiry for the TTL the middleware passes to the store.
EffectiveExpiry(s, now) ==
  IF ~HasSub(s)
  THEN now + AtMost(PostAuthTtl, PreAuthTtl)
  ELSE IF HardCapExpiry(s, now) = None
       THEN None
       ELSE AtMost(now + PostAuthTtl, HardCapExpiry(s, now))

\* expiry_from_ttl with the capped TTL of update()'s missing-row fallback.
FallbackExpiry(now) == now + AtMost(PostAuthTtl, PreAuthTtl)

\* inject_login_at_if_missing: only an absent marker is healed, a garbled one
\* is not.
InjectLoginAtIfMissing(s, now) ==
  IF HasSub(s) /\ s.loginAt = Missing THEN [s EXCEPT !.loginAt = now] ELSE s

\* update_ttl steps (5) and (6): does a renewal from old to new get written?
TouchNeeded(new, old) == new > old /\ new - old >= TouchCoalesce

\* The second half of load(): does the record the repository returned still
\* stand for a session?
LoadAccepts(s, expiresAt, now) ==
  /\ expiresAt > now
  /\ HasSub(s) => HardCapExpiry(s, now) # None
=============================================================================
