------------------------ MODULE MCPolicyAndRedaction ------------------------
(***************************************************************************)
(* The two parts that decide what may be in a body, one at a time, for     *)
(* they share no state.  Rule books of up to three rules drawn from seven: *)
(* allows, redactions and blocks at two priorities, with open, class,      *)
(* field, group-size and transformation selectors; bundles signed          *)
(* properly, never signed, signed with another key, edited after signing,  *)
(* or inactive.  Every body of up to three leaves over an identifier, a    *)
(* note, a list of addresses and a list of contacts, with values of which  *)
(* one is part of another, one is empty and one is the text of a key.      *)
(***************************************************************************)
EXTENDS PolicyEvaluation, PayloadRedaction

VARIABLE part  \* the part that runs

-----------------------------------------------------------------------------
(* The engines and their inputs.                                           *)

Order    == <<"order", "id">>
AllOrder == <<"order", "[*]">>
Email    == <<"email">>

RulePool ==
  { [OpenRule EXCEPT !.id = 1, !.priority = 2, !.action = "allow", !.classes = {"internal"}],
    [OpenRule EXCEPT !.id = 2, !.priority = 1, !.action = "block", !.environment = "external"],
    [OpenRule EXCEPT !.id = 3, !.priority = 2, !.action = "block", !.fields = {Email}],
    [OpenRule EXCEPT !.id = 4, !.priority = 1, !.action = "redact",
                     !.allowed = {AllOrder}, !.transformed = FALSE],
    [OpenRule EXCEPT !.id = 5, !.priority = 1, !.action = "redact",
                     !.fields = {<<"[*]">>}, !.allowed = {Order}],
    [OpenRule EXCEPT !.id = 5, !.priority = 1, !.action = "allow", !.minGroup = 2],
    [OpenRule EXCEPT !.id = 6, !.priority = 1, !.action = "block", !.fields = {AllOrder},
                     !.workload = "analytics", !.confidence = "trusted"] }

RuleBooks == UNION {[1 .. n -> RulePool] : n \in 0 .. 2}
               \cup {rs \in [1 .. 3 -> RulePool] : rs[1].id < rs[2].id /\ rs[2].id > rs[3].id}

Plain(rules) ==
  [rules |-> rules, status |-> "active", expires |-> 1, signature |-> NoSignature,
   defaults |-> [public |-> "allow", internal |-> "block", confidential |-> "redact"]]

Engine(bundle, required) == [bundle |-> bundle, key |-> "key", requireSigned |-> required]

\* Every rule book signed; some of them with each of the other faults.
MCEngines ==
  {Engine(SignBundle(Plain(rs), "key"), TRUE) : rs \in RuleBooks}
    \cup UNION { { Engine(Plain(rs), TRUE),
                   Engine(Plain(rs), FALSE),
                   Engine(SignBundle(Plain(rs), "other"), TRUE),
                   Engine([SignBundle(Plain(rs), "key") EXCEPT !.status = "draft"], TRUE),
                   Engine([SignBundle(Plain(<<>>), "key") EXCEPT !.rules = rs], TRUE),
                   Engine([SignBundle(Plain(rs), "key") EXCEPT !.expires = 2], TRUE) }
                 : rs \in [1 .. 1 -> RulePool] }

Ask(environment, classes, paths, count, transformed) ==
  [workload |-> "analytics", destination |-> "d", environment |-> environment,
   purpose |-> "p", operation |-> "o", classes |-> classes, paths |-> paths,
   confidence |-> "trusted", count |-> count, transformed |-> transformed]

MCItems ==
  { Ask("internal", {"internal"}, {Order, Email}, 1, FALSE),
    Ask("external", {"public", "internal"}, {Order}, 2, FALSE),
    Ask("external", {"public"}, {<<"total">>}, 1, TRUE),
    Ask("internal", {"confidential", "restricted"}, {<<"total">>}, 1, TRUE),
    Ask("internal", {"public", "restricted"}, {<<"total">>}, 1, TRUE),
    Ask("internal", {}, {}, 1, TRUE) }

-----------------------------------------------------------------------------
(* The bodies and the permitted fields.                                    *)

Id      == <<"id">>
Note    == <<"note">>
Emails  == <<"emails", "[*]">>
Contact == <<"contacts", "[*]", "name">>

Places ==
  { [path |-> Id, list |-> 0], [path |-> Note, list |-> 0],
    [path |-> Emails, list |-> 1], [path |-> Contact, list |-> 2] }

MCValues == {"ann", "ann-7", "", "id"}

LeafSequences ==
  {leaves \in UNION {[1 .. n -> [place : Places, value : MCValues]] : n \in 0 .. 3} :
     \* an object has a key once
     \A i, j \in DOMAIN leaves :
       i # j /\ leaves[i].place.list = 0 => leaves[i].place # leaves[j].place}

MCBodies ==
  {[leaves |-> [i \in DOMAIN s |-> [path  |-> s[i].place.path, list |-> s[i].place.list,
                                    value |-> s[i].value]],
    lists |-> <<Emails, <<"contacts", "[*]">> >>, frame |-> {"emails", "contacts"},
    shell |-> 2, depth |-> 3, container |-> TRUE, encodable |-> TRUE] : s \in LeafSequences}

MCPermittedSets == {{}, {Id, Note}, {Id, Emails}, {<<"contacts", "[*]">>, Note}}

MCWithin == {<<"ann", "ann-7">>}

-----------------------------------------------------------------------------
FirstEngine == CHOOSE e \in Engines : TRUE

FirstBody == CHOOSE b \in Bodies : b.leaves = <<>>

\* The one that rests is in a first state, always the same.
PartsInit ==
  /\ part \in {"policy", "redaction"}
  /\ Init /\ RedactionInit
  /\ part = "policy" => original = FirstBody /\ permitted = {}
  /\ part = "redaction" => engine = FirstEngine

PartsNext ==
  /\ UNCHANGED part
  /\ \/ part = "policy" /\ Next /\ UNCHANGED redactionVars
     \/ part = "redaction" /\ RedactionNext /\ UNCHANGED vars

PartsSpec == PartsInit /\ [][PartsNext]_<<part, vars, redactionVars>>
=============================================================================
