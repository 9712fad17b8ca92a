------------------------------ MODULE Payloads ------------------------------
(***************************************************************************)
(* What the gateway does with a JSON body: limits, classification by       *)
(* trusted labels (tracelock_services/provenance.py) and redaction to the  *)
(* permitted fields (tracelock_services/transformations.py).               *)
(*                                                                         *)
(* A body is kept flat, as the functions below see it:                     *)
(*   leaves     its scalars in document order, each with its path (as in   *)
(*              PolicyEngine), its value, and the list it lies under;      *)
(*   lists      the paths of the lists that hold no other list; a leaf     *)
(*              under the k-th of them has list = k, any other has 0;      *)
(*   frame      the keys that lead to an object or a list;                 *)
(*   shell      the size of all that is not a leaf (a leaf counts for 1);  *)
(*   depth, container (an object or an array), encodable (JSON text that   *)
(*   UTF-8 can encode).                                                    *)
(* A list that loses its last leaf stays, empty, and is then a leaf path   *)
(* of its own.  SHA-256 has no collisions: the digest of a body is the     *)
(* body.                                                                   *)
(***************************************************************************)
EXTENDS PolicyEngine

CONSTANTS Unsearchable,  \* the values a removal check skips: null and ""
          Within,        \* <<v, t>>: the text of value v is part of the text t
          MaxBodyBytes,  \* Gateway.max_body_bytes
          MaxDepth,      \* Gateway.max_depth
          NoHash         \* None, for a body that cannot be encoded

ASSUME LimitsAssumption == MaxBodyBytes \in Nat /\ MaxDepth \in Nat

\* A record of these parts, with its leaves in a row.
IsBody(b) ==
  /\ b = [leaves |-> b.leaves, lists |-> b.lists, frame |-> b.frame, shell |-> b.shell,
          depth |-> b.depth, container |-> b.container, encodable |-> b.encodable]
  /\ b.leaves \in Seq(Range(b.leaves))

Leaves(body) == ToSet(body.leaves)

EmptyLists(body) ==
  {k \in DOMAIN body.lists : \A leaf \in Leaves(body) : leaf.list # k}

LeafPaths(body) ==
  {leaf.path : leaf \in Leaves(body)} \cup {body.lists[k] : k \in EmptyLists(body)}

BodySha256(body) == IF body.encodable THEN body ELSE NoHash

BodySize(body) == body.shell + Len(body.leaves)

\* The first limit a body breaks, if any.
ValidateBody(body) ==
  Outcome(<< <<"invalid_json_body", ~body.encodable>>,
             <<"json_object_or_array_required", ~body.container>>,
             <<"json_nesting_limit_exceeded", body.depth > MaxDepth>>,
             <<"body_size_limit_exceeded", BodySize(body) > MaxBodyBytes>> >>,
          "none")

-----------------------------------------------------------------------------
(* Classification.  Labels are a sequence of [path, class]; of two labels  *)
(* for one path the later is the one that counts.                          *)

LabelsFor(labels, path) == {i \in DOMAIN labels : labels[i].path = path}

EffectiveClass(labels, path) ==
  labels[CHOOSE i \in LabelsFor(labels, path) : \A j \in LabelsFor(labels, path) : j <= i].class

\* Mutated form (of ClassifyPayload): of all classes only one is kept.
ClassifyFirstOnly(body, labels) ==
  LET labelled == {path \in LeafPaths(body) : LabelsFor(labels, path) # {}}
  IN  [fields  |-> labelled,
       unknown |-> LeafPaths(body) \ labelled,
       summary |-> IF labelled = {} THEN {}
                   ELSE {CHOOSE class \in {EffectiveClass(labels, path) : path \in labelled} :
                           class = "public" \/ \A p \in labelled : EffectiveClass(labels, p) # "public"}]

ClassifyPayload(body, labels) ==
  LET labelled == {path \in LeafPaths(body) : LabelsFor(labels, path) # {}}
      unknown  == LeafPaths(body) \ labelled
  IN  [fields  |-> labelled,
       unknown |-> unknown,
       summary |-> {EffectiveClass(labels, path) : path \in labelled}
                     \cup (IF unknown # {} THEN {"unknown"} ELSE {})]

-----------------------------------------------------------------------------
(* Redaction.                                                              *)

PathIsPermitted(path, permitted) ==
  \E expected \in permitted : PathMatches(expected, path)

\* Mutated form (of FilterValue): only the first forbidden leaf is taken out.
FilterFirstOnly(body, permitted) ==
  LET forbidden == {i \in DOMAIN body.leaves :
                      ~PathIsPermitted(body.leaves[i].path, permitted)}
  IN  IF forbidden = {} THEN body
      ELSE [body EXCEPT !.leaves = RemoveAt(@, Min(forbidden))]

\* What is left of a sequence at some of its positions, in its order.
Remaining(seq, positions) ==
  [n \in 1 .. Cardinality(positions) |->
     seq[CHOOSE i \in positions : Cardinality({j \in positions : j <= i}) = n]]

FilterValue(body, permitted) ==
  [body EXCEPT !.leaves =
     Remaining(@, {i \in DOMAIN @ : PathIsPermitted(@[i].path, permitted)})]

\* Mutated form (of RedactToPermittedFields): the difference is taken the
\* wrong way round.
RedactReportingWrongly(body, permitted) ==
  LET transformed == FilterValue(body, permitted)
  IN  [body |-> transformed, redacted |-> LeafPaths(transformed) \ LeafPaths(body)]

RedactToPermittedFields(body, permitted) ==
  LET transformed == FilterValue(body, permitted)
  IN  [body |-> transformed, redacted |-> LeafPaths(body) \ LeafPaths(transformed)]

\* The value kept for a path: of several list elements, the last one's.
PathValue(body, path) ==
  LET at == {i \in DOMAIN body.leaves : body.leaves[i].path = path}
  IN  body.leaves[CHOOSE i \in at : \A j \in at : j <= i].value

\* Every text of the serialised body: keys and values.
Texts(body) ==
  body.frame \cup {leaf.value : leaf \in Leaves(body)}
             \cup (UNION {ToSet(leaf.path) : leaf \in Leaves(body)} \ {"[*]"})

Occurs(value, body) ==
  \E text \in Texts(body) : text = value \/ <<value, text>> \in Within

\* Mutated form (of EnsureRemovedValuesAbsent): only an equal value counts.
EnsureNoEqualValue(original, transformed, redacted) ==
  \A path \in redacted \cap {leaf.path : leaf \in Leaves(original)} :
    \/ PathValue(original, path) \in Unsearchable
    \/ PathValue(original, path) \notin Texts(transformed)

EnsureRemovedValuesAbsent(original, transformed, redacted) ==
  \A path \in redacted \cap {leaf.path : leaf \in Leaves(original)} :
    \/ PathValue(original, path) \in Unsearchable
    \/ ~Occurs(PathValue(original, path), transformed)
=============================================================================
