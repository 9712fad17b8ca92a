----------------------------- MODULE Sanitizer -----------------------------
(***************************************************************************)
(* What the debug collector makes of a value before it records it          *)
(* (debug-collector.js): the values of keys that look sensitive are        *)
(* replaced, long strings and arrays cut, and nesting stops at a depth,    *)
(* which also ends the walk of a cyclic value.  Recorded without any of    *)
(* this are the headers of requests and responses, the texts and the       *)
(* errors handed to the console, and a response too long to be parsed.     *)
(***************************************************************************)
EXTENDS Naturals, SequencesExt

CONSTANTS SensitiveKeys,  \* the keys with one of CONFIG.sensitiveFields in them
          LongTexts,      \* the strings of more than 1000 characters
          JsonTexts,      \* text -> what JSON.parse makes of it, where it does
          LongBodies,     \* the texts of more than CONFIG.maxBodyLength characters
          MaxNesting,     \* the depth limit (5)
          MaxItems        \* how many elements of an array are kept (100)

ASSUME SanitizerAssumption == MaxNesting \in Nat /\ MaxItems \in Nat

Leaf(text) == [kind |-> "leaf", text |-> text]

Object(fields) == [kind |-> "object", fields |-> fields]

List(items) == [kind |-> "list", items |-> items]

\* Values with all that lies in them.
AreValues(values) ==
  \A v \in values :
    \/ v.kind = "leaf"
    \/ v.kind = "list" /\ v.items \in Seq(values)
    \/ v.kind = "object" /\ \A k \in DOMAIN v.fields : v.fields[k] \in values

Redacted == Leaf("[REDACTED]")

TooDeep == Leaf("[Max Depth]")

Truncated(leaf) == IF leaf.text \in LongTexts THEN Leaf("...[truncated]") ELSE leaf

\* How many elements of a list are kept.
KeptItems(value) == IF Len(value.items) > MaxItems THEN MaxItems ELSE Len(value.items)

\* Mutated form (of TooFarDown): the last depth is too far.
TooFarDownByOne(depth) == depth >= MaxNesting

TooFarDown(depth) == depth > MaxNesting

\* The values that are sanitized on behalf of one they lie in.
Inside(value) ==
  IF value.kind = "list" THEN {value.items[i] : i \in 1 .. KeptItems(value)}
  ELSE IF value.kind = "object" THEN {value.fields[k] : k \in DOMAIN value.fields \ SensitiveKeys}
  ELSE {}

\* What becomes of a value, given what becomes of those inside it.
Sanitized(value, inside) ==
  IF value.kind = "leaf" THEN Truncated(value)
  ELSE IF value.kind = "list"
    THEN List([i \in 1 .. KeptItems(value) |-> inside[value.items[i]]])
  ELSE Object([k \in DOMAIN value.fields |->
                 IF k \in SensitiveKeys THEN Redacted ELSE inside[value.fields[k]]])

\* sanitizeValue, whose every call of itself is one depth further down.
SanitizeValue(value) ==
  LET met[depth \in 0 .. MaxNesting + 1] ==
        IF depth = 0 THEN {value} ELSE UNION {Inside(v) : v \in met[depth - 1]}
      sanitized[depth \in 0 .. MaxNesting + 1] ==
        [v \in met[depth] |->
           IF TooFarDown(depth) THEN TooDeep ELSE Sanitized(v, sanitized[depth + 1])]
  IN  sanitized[0][value]

\* tryParseJson: a text that is no JSON stays a text.
TryParseJson(text) == IF text \in DOMAIN JsonTexts THEN JsonTexts[text] ELSE Leaf(text)

\* The body of a request, however long.
RequestBody(text) == SanitizeValue(TryParseJson(text))

\* The body of a response: one that is too long is recorded as the text it is, up to
\* the limit, with all that stands in it.
ResponseBody(text) == IF text \in LongBodies THEN Leaf(text) ELSE SanitizeValue(TryParseJson(text))

\* An Error; and a value that throws when it is read.
ErrorOf(message) == [kind |-> "error", message |-> message]

Unreadable == [kind |-> "unreadable"]

\* formatArg: a string is recorded as it is, however long, and so is the message of
\* an Error.
FormatArg(value) ==
  IF value.kind = "error"
    THEN Object([f \in {"type", "message", "stack"} |->
                   Leaf(IF f = "message" THEN value.message ELSE f)])
  ELSE IF value.kind = "unreadable" THEN Leaf("[Unserializable]")
  ELSE IF value.kind = "leaf" THEN value
  ELSE SanitizeValue(value)

-----------------------------------------------------------------------------
(* The same by paths: what stands where in the value and in the result.    *)

Missing == [kind |-> "missing"]

\* A step down: to a key of an object, or to an element of an array.
Child(value, step) ==
  IF value.kind = "object" /\ step.key \in DOMAIN value.fields THEN value.fields[step.key]
  ELSE IF value.kind = "list" /\ step.index \in DOMAIN value.items THEN value.items[step.index]
  ELSE Missing

\* What stands along a path, from the value itself down.
Along(value, path) ==
  LET standing[n \in 0 .. Len(path)] ==
        IF n = 0 THEN value ELSE Child(standing[n - 1], path[n])
  IN  standing

At(value, path) == Along(value, path)[Len(path)]

\* The first n steps of a path lead to a value under a key that looks sensitive, or
\* beyond the kept elements of an array.
Hidden(value, path, n) ==
  \E i \in 1 .. n :
    LET above == Along(value, path)[i - 1] IN
    \/ above.kind = "object" /\ path[i].key \in SensitiveKeys
    \/ above.kind = "list" /\ path[i].index > MaxItems

\* Along every path the result has what the value has there, but for the values
\* of sensitive keys, the elements an array loses and what lies too deep: each of
\* them shows as such, and nothing below it is left.
SanitizedByPath(value, result, paths) ==
  \A path \in paths :
    LET was == At(value, path)  is == At(result, path)  length == Len(path) IN
    /\ is # Missing => was # Missing
    /\ was # Missing /\ ~Hidden(value, path, length) =>
         /\ length > MaxNesting + 1 => is = Missing
         /\ length = MaxNesting + 1 => is = TooDeep
         /\ length <= MaxNesting /\ was.kind = "leaf" => is = Truncated(was)
         /\ length <= MaxNesting /\ was.kind # "leaf" => is.kind = was.kind
    /\ was # Missing /\ Hidden(value, path, length) /\ is # Missing =>
         /\ is = Redacted
         /\ ~Hidden(value, path, length - 1)
=============================================================================
