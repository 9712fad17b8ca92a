-------------------------- MODULE MCEgressGateway --------------------------
(***************************************************************************)
(* The gateway of the default deployment under two calls, in two parts: a  *)
(* registry that stays as it is and many requests, which are the three     *)
(* demonstrations, what departs from them in one respect, one for each     *)
(* early return, and bodies that try the redaction; and few requests, one  *)
(* time, and a registry that changes while they are served.                *)
(***************************************************************************)
EXTENDS EgressGateway, DefaultDeployment

leaf(path, value) == [path |-> <<path>>, value |-> value, list |-> 0]

Object(leaves) ==
  [leaves |-> leaves, lists |-> <<>>, frame |-> {}, shell |-> 1, depth |-> 1,
   container |-> TRUE, encodable |-> TRUE]

label(path, class) == [path |-> <<path>>, class |-> class]

Manifest(labels) ==
  [flaw |-> "none", issuedAt |-> 0, expires |-> 3, integration |-> "analytics-source",
   labels |-> labels]

Credential ==
  [flaw |-> "none", issuedAt |-> 0, expires |-> 3, workload |-> "analytics-workload",
   subject |-> "workload:analytics", jti |-> "jti-1"]

Url(host, path) ==
  [malformed |-> "no", scheme |-> "https", userinfo |-> FALSE, host |-> host, port |-> 0,
   query |-> FALSE, path |-> path]

\* The three requests of run_demo_scenario.
AllowRequest ==
  [method |-> "POST", workload |-> "analytics-workload", destination |-> "analytics.internal",
   url |-> Url("analytics.internal", "/v1/orders/summary"),
   purpose |-> "business-analytics", operation |-> "aggregate",
   credential |-> Credential, provenance |-> Manifest(<<label("aggregate_total", "internal")>>),
   body |-> Object(<<leaf("aggregate_total", "42")>>)]

FinanceLabels == << label("customer_id", "internal"), label("customer_email", "internal"),
                    label("order_total", "internal") >>

FinanceBody(id, email, total) ==
  Object(<< leaf("customer_id", id), leaf("customer_email", email), leaf("order_total", total) >>)

RedactRequest ==
  [AllowRequest EXCEPT
     !.destination = "finance.internal",
     !.url = Url("finance.internal", "/v1/orders/summary"),
     !.purpose = "finance-reporting",
     !.provenance = Manifest(FinanceLabels),
     !.body = FinanceBody("cust-1", "masked@example.test", "125")]

BlockRequest ==
  [AllowRequest EXCEPT
     !.destination = "external-webhook",
     !.url = Url("webhook.example.test", "/v1/events"),
     !.purpose = "external-sync", !.operation = "send",
     !.provenance = Manifest(<<label("customer_email", "confidential")>>),
     !.body = Object(<<leaf("customer_email", "person@example.test")>>)]

\* Bodies for the redaction: a value that survives as part of another, an
\* empty value, a list of addresses, a list of objects that is emptied.
EmailList(list, rest, labels) ==
  [RedactRequest EXCEPT
     !.body = [Object(<< leaf("customer_id", "cust-1"),
                         [path |-> list \o rest, value |-> "a@x", list |-> 1],
                         [path |-> list \o rest, value |-> "b@x", list |-> 1] >>)
               EXCEPT !.lists = <<list>>, !.depth = 2, !.frame = {"emails"}],
     !.provenance = Manifest(labels)]

RedactionRequests ==
  { RedactRequest,
    [RedactRequest EXCEPT !.body = FinanceBody("id-a@x-7", "a@x", "125")],
    [RedactRequest EXCEPT !.body = FinanceBody("cust-1", "", "125")],
    [RedactRequest EXCEPT !.operation = "send"],
    EmailList(<<"emails", "[*]">>, <<>>,
              <<label("customer_id", "internal"), [path |-> <<"emails", "[*]">>, class |-> "internal"]>>),
    EmailList(<<"emails", "[*]">>, <<"address">>,
              << label("customer_id", "internal"),
                 [path |-> <<"emails", "[*]", "address">>, class |-> "internal"] >>) }

Departures ==
  { [AllowRequest EXCEPT !.method = "GET"],
    [AllowRequest EXCEPT !.body.depth = 3],
    [AllowRequest EXCEPT !.provenance.expires = 1],
    [AllowRequest EXCEPT !.provenance.integration = "unknown-source"],
    [AllowRequest EXCEPT !.provenance.labels = <<>>],
    [AllowRequest EXCEPT !.credential.expires = 1],
    [AllowRequest EXCEPT !.credential.workload = "other-workload"],
    [AllowRequest EXCEPT !.url.query = TRUE],
    [AllowRequest EXCEPT !.destination = "partner.example"],
    [AllowRequest EXCEPT !.purpose = "marketing"] }

\* Data for the outside: public fields alone, and beside a confidential one.
ExternalRequests ==
  { BlockRequest,
    [BlockRequest EXCEPT !.provenance = Manifest(<<label("customer_email", "public")>>)],
    [BlockRequest EXCEPT
       !.provenance = Manifest(<<label("region", "public"), label("customer_email", "confidential")>>),
       !.body = Object(<<leaf("region", "EU"), leaf("customer_email", "p@x")>>)] }

DeliveredRequests == {AllowRequest, RedactRequest}

ManyRequests == {AllowRequest} \cup RedactionRequests \cup Departures \cup ExternalRequests

MCWithin == {<<"a@x", "id-a@x-7">>}

MCEngine == DefaultEngine(2)

-----------------------------------------------------------------------------
(* A registry that changes: finance moves outside, and a partner is        *)
(* registered that the transport has no receiver for.                      *)

PartnerEntry == [DefaultDestinations["analytics.internal"] EXCEPT !.host = "partner.example"]

OpenRegistry ==
  [d \in DOMAIN DefaultDestinations \cup {"partner.example"} |->
     IF d = "partner.example" THEN Unregistered ELSE DefaultDestinations[d]]

MCReplacements ==
  { <<"finance.internal",
      [DefaultDestinations["finance.internal"] EXCEPT !.environment = "external"]>>,
    <<"finance.internal", DefaultDestinations["finance.internal"]>>,
    <<"partner.example", PartnerEntry>> }

PublicTo(destination, host) ==
  [BlockRequest EXCEPT
     !.destination = destination,
     !.url = Url(host, "/v1/orders/summary"),
     !.provenance = Manifest(<<label("customer_email", "public")>>)]

RegistryRequests ==
  { RedactRequest, PublicTo("partner.example", "partner.example"),
    PublicTo("finance.internal", "finance.internal") }

MCRequests == ManyRequests \cup RegistryRequests

CONSTANT Various   \* the call that may bring any request

VARIABLE part   \* what varies: "requests" or "registry"

\* Calls meet at the receivers only: the others bring what is delivered there.
RequestsOf(c) ==
  IF part = "requests" THEN IF c = Various THEN ManyRequests ELSE DeliveredRequests
  ELSE IF c = Various THEN RegistryRequests ELSE {RedactRequest}

MCInit == Init /\ part \in {"requests", "registry"}

MCNext ==
  /\ UNCHANGED part
  /\ \/ part = "requests" /\ Tick
     \/ /\ part = "registry"
        /\ \E r \in Replacements : registry[r[1]] # r[2] /\ Register(r[1], r[2])
     \/ \E c \in Calls : Step(c) \/ \E r \in RequestsOf(c) : Begin(c, r)

MCSpec == MCInit /\ [][MCNext]_<<vars, part>> /\ Fairness
=============================================================================
