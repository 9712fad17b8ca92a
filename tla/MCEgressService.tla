-------------------------- MODULE MCEgressService --------------------------
(***************************************************************************)
(* The service with the requests that differ in what they leave behind: a  *)
(* delivery, a block, a refusal of the gateway before any check.           *)
(***************************************************************************)
EXTENDS EgressService, DefaultDeployment

NoReplacements == {}

MCEngineAt(t) == DefaultEngine(t + 1)

MCEngine == MCEngineAt(0)

AllowRequest ==
  [method |-> "POST", workload |-> "analytics-workload", destination |-> "analytics.internal",
   url |-> [malformed |-> "no", scheme |-> "https", userinfo |-> FALSE,
            host |-> "analytics.internal", port |-> 443, query |-> FALSE,
            path |-> "/v1/orders/summary"],
   purpose |-> "business-analytics", operation |-> "aggregate",
   credential |-> [flaw |-> "none", issuedAt |-> 0, expires |-> 3,
                   workload |-> "analytics-workload", subject |-> "workload:analytics",
                   jti |-> "jti-1"],
   provenance |-> [flaw |-> "none", issuedAt |-> 0, expires |-> 3,
                   integration |-> "analytics-source",
                   labels |-> <<[path |-> <<"aggregate_total">>, class |-> "internal"]>>],
   body |-> [leaves |-> <<[path |-> <<"aggregate_total">>, value |-> "42", list |-> 0]>>,
             lists |-> <<>>, frame |-> {}, shell |-> 1, depth |-> 1,
             container |-> TRUE, encodable |-> TRUE]]

MCRequests == {AllowRequest, [AllowRequest EXCEPT !.method = "GET"]}

MCScenarios == {AllowRequest}

\* Any call may bring any request.
Alike == Permutations(Calls)

\* Only a strict environment is asked for its secrets, and only one that has them
\* can tell the two databases that end with the process apart.
MCConfigs ==
  {c \in [strict : BOOLEAN, secrets : BOOLEAN, database : {"file", "memory", "temporary"}] :
     /\ c.strict \/ c.secrets
     /\ c.database = "temporary" => c.strict /\ c.secrets}
=============================================================================
