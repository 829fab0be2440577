---------------------------- MODULE IntentBinding ----------------------------
(***************************************************************************)
(* The kernel's sealing of governed effects: kernel/intent_binding.py and  *)
(* the two dataclasses of contracts/evidence.py it works on.  These are    *)
(* pure operators; every module that seals or verifies an approval uses    *)
(* them.                                                                   *)
(*                                                                         *)
(* SHA-256 over canonical JSON is external to the repository.  It is       *)
(* modelled as injective: the digest of a binding IS the binding, so two   *)
(* digests are equal exactly when tenant, capability and payload are.      *)
(***************************************************************************)
EXTENDS Integers

\* bind_intent: the digest covers the tenant, the capability and the payload.
bind_intent(tenant, capability, payload) ==
    [tenant |-> tenant, capability |-> capability, payload |-> payload]

\* Mutant: the instant of expiry still counts as valid.
expired_after(intent, now) == now > intent.expires_at

\* ApprovalIntent.is_expired
is_expired(intent, now) == now >= intent.expires_at

expires_at_once(now, ttl) == now \* mutant: the TTL is forgotten
\* default_expiry
default_expiry(now, ttl) == now + ttl

\* The intent NeutralRunner and HitlStore seal (ids are positions in a log of
\* sealed intents; the nonce is never read, so it is left out).
seal_intent(tenant, actor, capability, digest, created, expires) ==
    [tenant |-> tenant, actor |-> actor, capability |-> capability,
     payload_digest |-> digest, created_at |-> created, expires_at |-> expires]

\* Mutant: the payload is not compared.
verify_intent_any_payload(intent, actor, tenant, capability, payload, now, Blank) ==
    /\ intent.tenant = tenant /\ intent.capability = capability
    /\ actor # Blank /\ ~is_expired(intent, now)

\* verify_intent of an intent relabelled with the deciding actor: every mismatch
\* invalidates the approval.  Blank is the actor that .strip() empties.
verify_intent(intent, actor, tenant, capability, payload, now, Blank) ==
    /\ intent.tenant = tenant
    /\ intent.capability = capability
    /\ intent.payload_digest = bind_intent(tenant, capability, payload)
    /\ actor # Blank
    /\ ~is_expired(intent, now)
=============================================================================
