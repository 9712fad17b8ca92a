---------------------------- MODULE Credentials ----------------------------
(***************************************************************************)
(* The two tokens a request carries: the workload's credential             *)
(* (tracelock_services/identity.py) and the source's manifest of labels    *)
(* (tracelock_services/provenance.py).  Both are JWTs; what matters of one *)
(* is its flaw, if any, its times and its claims.                          *)
(***************************************************************************)
EXTENDS Naturals, Checks

CONSTANTS WorkloadSubjects,      \* workload -> the subject registered for it
          RevokedJti,            \* credentials revoked when the verifier was made
          Leeway,                \* leeway_seconds of the workload verifier
          ApprovedIntegrations   \* sources whose manifests are trusted

ASSUME LeewayAssumption == Leeway \in Nat

\* jwt.decode, in its order: form and signature, algorithm, required claims,
\* times, issuer, audience.
Decode(token, now, leeway, reason) ==
  Outcome(
    << <<reason.malformed, token.flaw = "malformed">>,
       <<reason.algorithm, token.flaw = "algorithm">>,
       <<reason.missing,   token.flaw = "missing_claim">>,
       <<reason.immature,  token.issuedAt > now + leeway>>,
       <<reason.expired,   token.expires + leeway <= now>>,
       <<reason.issuer,    token.flaw = "issuer">>,
       <<reason.audience,  token.flaw = "audience">> >>, "verified")

CredentialReasons ==
  [malformed |-> "invalid_credential", algorithm |-> "unsupported_algorithm",
   missing |-> "missing_required_claim", immature |-> "not_yet_valid",
   expired |-> "expired_credential", issuer |-> "wrong_issuer",
   audience |-> "wrong_audience"]

ProvenanceReasons ==
  [malformed |-> "invalid_provenance", algorithm |-> "unsupported_provenance_algorithm",
   missing |-> "missing_provenance_claim", immature |-> "invalid_provenance",
   expired |-> "expired_provenance", issuer |-> "wrong_provenance_issuer",
   audience |-> "wrong_provenance_audience"]

CredentialClaims(token, expectedWorkload) ==
  Outcome(
    << <<"invalid_claim_types", token.flaw = "claim_types">>,
       <<"wrong_workload", token.workload # expectedWorkload>>,
       <<"unregistered_subject",
         ~ /\ expectedWorkload \in DOMAIN WorkloadSubjects
           /\ WorkloadSubjects[expectedWorkload] = token.subject>>,
       <<"revoked_credential", token.jti \in RevokedJti>> >>, "verified")

VerifyCredential(token, expectedWorkload, now) ==
  Then(Outcome(<< <<"missing_credential", token.flaw = "absent">> >>, "verified"),
       Then(Decode(token, now, Leeway, CredentialReasons),
            CredentialClaims(token, expectedWorkload)))

\* _parse_label: a label names a field and one of the four known classes.
LabelParses(label) ==
  /\ label.path # <<>>
  /\ label.class \in {"public", "internal", "confidential", "restricted"}

ProvenanceClaims(token) ==
  Outcome(
    << <<"unapproved_source_integration", token.integration \notin ApprovedIntegrations>>,
       <<"invalid_provenance_labels",
         \/ token.flaw = "labels"
         \/ \E i \in DOMAIN token.labels : ~LabelParses(token.labels[i])>> >>, "verified")

VerifyProvenance(token, now) ==
  Then(Outcome(<< <<"missing_provenance", token.flaw = "absent">> >>, "verified"),
       Then(Decode(token, now, 0, ProvenanceReasons), ProvenanceClaims(token)))
=============================================================================
