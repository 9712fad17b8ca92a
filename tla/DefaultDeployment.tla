------------------------- MODULE DefaultDeployment -------------------------
(***************************************************************************)
(* The deployment create_app builds (tracelock_services/app.py): three     *)
(* destinations, four rules, one workload, one approved source.            *)
(***************************************************************************)
EXTENDS Payloads

PolicyKey == "policy_signing_key"

DefaultDestinations ==
  LET entry(environment, host, path) ==
        [environment |-> environment, scheme |-> "https", host |-> host, port |-> 443,
         paths |-> {path}, requireTls |-> TRUE]
  IN  [d \in {"analytics.internal", "finance.internal", "external-webhook"} |->
         CASE d = "analytics.internal" -> entry("internal", d, "/v1/orders/summary")
           [] d = "finance.internal"   -> entry("internal", d, "/v1/orders/summary")
           [] d = "external-webhook"   -> entry("external", "webhook.example.test", "/v1/events")]

\* Identifiers in the order of their text: allow-finance-redacted,
\* allow-internal-aggregate, block-external-confidential,
\* redact-finance-email.
DefaultRules ==
  << [OpenRule EXCEPT
        !.id = 2, !.priority = 100, !.action = "allow",
        !.reason = "approved_internal_aggregate",
        !.workload = "analytics-workload", !.destination = "analytics.internal",
        !.environment = "internal", !.purpose = "business-analytics",
        !.operation = "aggregate", !.classes = {"internal"},
        !.confidence = "trusted", !.minGroup = 1],
     [OpenRule EXCEPT
        !.id = 4, !.priority = 90, !.action = "redact", !.reason = "finance_minimum_fields",
        !.workload = "analytics-workload", !.destination = "finance.internal",
        !.environment = "internal", !.purpose = "finance-reporting",
        !.fields = {<<"customer_id">>, <<"customer_email">>, <<"order_total">>},
        !.allowed = {<<"customer_id">>, <<"order_total">>}, !.transformed = FALSE],
     [OpenRule EXCEPT
        !.id = 1, !.priority = 95, !.action = "allow",
        !.reason = "finance_payload_revalidated",
        !.workload = "analytics-workload", !.destination = "finance.internal",
        !.environment = "internal", !.purpose = "finance-reporting",
        !.operation = "aggregate", !.confidence = "trusted", !.transformed = TRUE],
     [OpenRule EXCEPT
        !.id = 3, !.priority = 80, !.action = "block",
        !.reason = "confidential_data_external_destination",
        !.environment = "external", !.classes = {"confidential", "restricted"}] >>

DefaultPolicy(expires) ==
  SignBundle(
    [rules     |-> DefaultRules,
     defaults  |-> [public |-> "allow", internal |-> "block", confidential |-> "block",
                    restricted |-> "block", unknown |-> "block"],
     expires   |-> expires,
     status    |-> "active",
     signature |-> NoSignature],
    PolicyKey)

DefaultEngine(expires) ==
  [bundle |-> DefaultPolicy(expires), key |-> PolicyKey, requireSigned |-> TRUE]

DefaultSubjects == [w \in {"analytics-workload"} |-> "workload:analytics"]

DefaultIntegrations == {"analytics-source"}
=============================================================================
