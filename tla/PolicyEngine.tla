---------------------------- MODULE PolicyEngine ----------------------------
(***************************************************************************)
(* The policy engine of the gateway (tracelock_services/policy.py): how a  *)
(* signed bundle of rules judges one egress request at one moment.         *)
(*                                                                         *)
(* A path is a sequence of text fragments and "[*]", the marker of a list  *)
(* element, so that one path is a textual prefix of another exactly when   *)
(* its sequence is a prefix of the other's: the key customer_email beside  *)
(* a key customer is <<"customer", "_email">>.  Rule identifiers are       *)
(* numbers in the order of the identifiers' text.  Time is a natural       *)
(* number.  An HMAC is an injective function of the key and the content    *)
(* it signs.                                                               *)
(***************************************************************************)
EXTENDS Integers, SequencesExt, Checks

CONSTANT Unset  \* None: a selector the rule leaves open

PolicyAction == {"allow", "block", "redact"}

Classification == {"public", "internal", "confidential", "restricted", "unknown"}

\* The empty signature of a bundle never signed: no HMAC of anything.
NoSignature == [key |-> Unset, content |-> <<>>]

\* A rule that selects everything: the defaults of the dataclass.  Concrete
\* rules are written [OpenRule EXCEPT ...].
OpenRule ==
  [id |-> 0, priority |-> 0, action |-> "block", reason |-> "open",
   workload |-> Unset, destination |-> Unset, environment |-> Unset, purpose |-> Unset,
   operation |-> Unset, classes |-> {}, confidence |-> Unset, fields |-> {},
   minGroup |-> Unset, allowed |-> {}, transformed |-> Unset]

\* A list of rules with integer priorities and identifiers that compare.
WellFormed(rules) ==
  /\ Len(rules) \in Nat
  /\ DOMAIN rules = 1 .. Len(rules)
  /\ \A i \in DOMAIN rules : /\ rules[i].priority \in Int /\ rules[i].id \in Int
                             /\ rules[i].action \in PolicyAction

IsBundle(b) ==
  /\ b = [rules |-> b.rules, defaults |-> b.defaults, expires |-> b.expires,
          status |-> b.status, signature |-> b.signature]
  /\ WellFormed(b.rules)
  /\ b.expires \in Int
  /\ \A c \in DOMAIN b.defaults : b.defaults[c] \in PolicyAction

\* What the signature covers: every field of the bundle but the signature.
CanonicalPayload(bundle) ==
  <<bundle.rules, bundle.defaults, bundle.expires, bundle.status>>

SignBundle(bundle, key) ==
  [bundle EXCEPT !.signature = [key |-> key, content |-> CanonicalPayload(bundle)]]

SignatureValid(engine) ==
  /\ engine.bundle.signature # NoSignature
  /\ engine.bundle.signature = [key     |-> engine.key,
                                content |-> CanonicalPayload(engine.bundle)]

\* Mutated forms (of BundleInvalidReason): the signature is not looked at; the
\* bundle expires one moment late; only the very moment of expiry counts.
BundleSignatureIgnored(engine, now) ==
  Outcome(<< <<"policy_inactive", engine.bundle.status # "active">>,
             <<"policy_expired", engine.bundle.expires <= now>> >>, "none")

BundleExpiresLate(engine, now) ==
  Outcome(<< <<"policy_inactive", engine.bundle.status # "active">>,
             <<"policy_expired", engine.bundle.expires < now>>,
             <<"policy_signature_invalid", engine.requireSigned /\ ~SignatureValid(engine)>> >>,
          "none")

BundleExpiresOnce(engine, now) ==
  Outcome(<< <<"policy_inactive", engine.bundle.status # "active">>,
             <<"policy_expired", engine.bundle.expires = now>>,
             <<"policy_signature_invalid", engine.requireSigned /\ ~SignatureValid(engine)>> >>,
          "none")

\* Why the bundle may not be used at this time, if it may not.
BundleInvalidReason(engine, now) ==
  Outcome(<< <<"policy_inactive", engine.bundle.status # "active">>,
             <<"policy_expired", engine.bundle.expires <= now>>,
             <<"policy_signature_invalid", engine.requireSigned /\ ~SignatureValid(engine)>> >>,
          "none")

PathMatches(expected, actual) ==
  \/ expected = actual
  \/ /\ expected # <<>>
     /\ Last(expected) = "[*]"
     /\ IsPrefix(Front(expected), actual)

Selects(selector, actual) == selector = Unset \/ selector = actual

Matches(rule, item) ==
  /\ Selects(rule.workload, item.workload)
  /\ Selects(rule.destination, item.destination)
  /\ Selects(rule.environment, item.environment)
  /\ Selects(rule.purpose, item.purpose)
  /\ Selects(rule.operation, item.operation)
  /\ Selects(rule.confidence, item.confidence)
  /\ rule.classes # {} => rule.classes \cap item.classes # {}
  /\ rule.fields # {} =>
       \E expected \in rule.fields, actual \in item.paths : PathMatches(expected, actual)
  /\ rule.minGroup # Unset => item.count >= rule.minGroup
  /\ Selects(rule.transformed, item.transformed)

\* The positions of the rules that match, and of the matching rules of the
\* highest priority.
Matching(rules, item) == {i \in DOMAIN rules : Matches(rules[i], item)}

\* Mutated form (of Highest): the first match in the list wins.
FirstMatch(rules, matching) == {i \in matching : \A j \in matching : i <= j}

Highest(rules, matching) ==
  {i \in matching : \A j \in matching : rules[j].priority <= rules[i].priority}

\* max(..., key=...) over a list: the first of the greatest.
FirstGreatest(rules, positions, field) ==
  CHOOSE i \in positions :
    \A j \in positions : \/ rules[j][field] < rules[i][field]
                         \/ rules[j][field] = rules[i][field] /\ i <= j

Decision(action, reason, rule, conflict, permitted) ==
  [action |-> action, reason |-> reason, rule |-> rule,
   conflict |-> conflict, permitted |-> permitted]

DecisionFromRule(rule) ==
  Decision(rule.action, rule.reason, rule.id, FALSE, rule.allowed)

\* The decision of a request no rule matches: the default actions of its
\* classes compared as text, so that "redact" outranks "block" and "block"
\* outranks "allow"; a class without a default, and no class at all, block.
DefaultDecision(bundle, item) ==
  LET defaultOf(c) == IF c \in DOMAIN bundle.defaults THEN bundle.defaults[c] ELSE "block"
      actions      == {defaultOf(c) : c \in item.classes}
      action       == IF "redact" \in actions THEN "redact"
                      ELSE IF "block" \in actions \/ actions = {} THEN "block"
                      ELSE "allow"
      reason       == [allow  |-> "default_allow",
                       block  |-> "default_block",
                       redact |-> "default_redact"][action]
  IN  Decision(action, reason, Unset, FALSE, {})

\* Mutated forms (of DecisionFromMatches): the best rule wins even over a
\* block; a conflict is not noticed.
BestRuleWins(rules, matching) ==
  LET highest == Highest(rules, matching)
  IN  IF \E i, j \in highest : rules[i].action # rules[j].action
        THEN Decision("block", "policy_conflict", Unset, TRUE, {})
      ELSE DecisionFromRule(rules[FirstGreatest(rules, highest, "id")])

ConflictUnnoticed(rules, matching) ==
  LET blocks == {i \in matching : rules[i].action = "block"}
  IN  IF blocks # {}
        THEN DecisionFromRule(rules[FirstGreatest(rules, blocks, "priority")])
      ELSE DecisionFromRule(rules[FirstGreatest(rules, Highest(rules, matching), "id")])

\* Only a conflict among the matching rules of the highest priority is
\* looked for; a matching block of a lower priority still wins.
DecisionFromMatches(rules, matching) ==
  LET highest == Highest(rules, matching)
      blocks  == {i \in matching : rules[i].action = "block"}
  IN  IF \E i, j \in highest : rules[i].action # rules[j].action
        THEN Decision("block", "policy_conflict", Unset, TRUE, {})
      ELSE IF blocks # {}
        THEN DecisionFromRule(rules[FirstGreatest(rules, blocks, "priority")])
      ELSE DecisionFromRule(rules[FirstGreatest(rules, highest, "id")])

Evaluate(engine, item, now) ==
  LET invalid  == BundleInvalidReason(engine, now)
      rules    == engine.bundle.rules
      matching == Matching(rules, item)
  IN  IF ~invalid.ok
        THEN Decision("block", invalid.reason, Unset, FALSE, {})
      ELSE IF matching = {}
        THEN DefaultDecision(engine.bundle, item)
      ELSE DecisionFromMatches(rules, matching)
=============================================================================
