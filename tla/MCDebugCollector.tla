-------------------------- MODULE MCDebugCollector --------------------------
(***************************************************************************)
(* The debug collector and the server it reports to, one part at a time:   *)
(* capturing only appends to the buffers, reporting does not look into the *)
(* entries, and a log file sees nothing but the lines it is given, so the  *)
(* interleavings of two parts show no more than those of each.             *)
(***************************************************************************)
EXTENDS LogFile, LogReporting, EventCapture, RequestCapture

CONSTANTS
  Samples,  \* values, and all that lies in them
  Steps,    \* steps down: to a key or to an index
  MaxPath   \* bound on the steps of a path

ASSUME SamplesAssumption ==
  /\ AreValues(Samples)
  /\ \A text \in DOMAIN JsonTexts : JsonTexts[text] \in Samples
  /\ MaxPath \in Nat

VARIABLES part,   \* the part that runs
          sample  \* a value that is sanitized

MCBatches == {<<1>>, <<3, 2>>, <<4, 4>>, <<4>>, <<7>>}

-----------------------------------------------------------------------------
(* Calls of the console and uncaught errors; few fit in a buffer.          *)

MCKinds == <<"console", "ui">>

MCBufferSize == [k \in Range(MCKinds) |-> IF k = "console" THEN 1 ELSE 2]

MCBeaconKeeps == [k \in Range(MCKinds) |-> 1]

MCEvents == {{"console"}, {"console", "ui"}}

-----------------------------------------------------------------------------
(* A field of every sort, and values of every shape down to the limit.     *)

Field(tag, type, sensitive, unrecorded, value) ==
  [tag |-> tag, type |-> type, sensitive |-> sensitive, unrecorded |-> unrecorded,
   text |-> "caption", value |-> value]

MCElements ==
  { Field("input", "password", FALSE, FALSE, "typed-1"), Field("input", "text", TRUE, FALSE, "typed-2"),
    Field("input", "text", FALSE, TRUE, "typed-3"), Field("select", "none", TRUE, FALSE, "chosen"),
    Field("button", "none", FALSE, FALSE, "") }

Leaves == {Leaf("short"), Leaf("long")}

ObjectsOf(values) == {Object(f) : f \in UNION {[keys -> values] : keys \in SUBSET {"name", "token"}}}

ListsOf(values) == {List(l) : l \in UNION {[1 .. n -> values] : n \in 0 .. 2}}

Few ==
  Leaves \cup {Object([k \in {"name", "token"} |-> Leaf("short")]), List(<<Leaf("long"), Leaf("short")>>)}

Deeper == ObjectsOf(Few) \cup ListsOf(Few)

MCSamples ==
  Leaves \cup ObjectsOf(Leaves) \cup Deeper
    \cup {Object([k \in {"name"} |-> v]) : v \in Deeper} \cup {List(<<v>>) : v \in Deeper}

MCJsonTexts == [text \in {"json", "long json"} |-> Object([k \in {"name", "token"} |-> Leaf("long")])]

MCArguments == Leaves \cup {ErrorOf("message"), Unreadable}

MCSteps == [key : {"name", "token"}, index : {0}] \cup [key : {""}, index : {1, 2}]

Paths == UNION {[1 .. n -> Steps] : n \in 0 .. MaxPath}

\* A value never shows, on any path, what is under a sensitive key, too deep or
\* too far in an array, and shows all the rest: as an object handed to the console, as
\* a payload, or as the JSON text of a request's body or of a response's that is not
\* too long to be parsed (64-127, 487, 556-557, 617, 645-648).
ValuesSanitized ==
  part = "values" =>
    /\ SanitizedByPath(sample, SanitizeValue(sample), Paths)
    /\ sample.kind # "leaf" => FormatArg(sample) = SanitizeValue(sample)
    /\ \A text \in DOMAIN JsonTexts \cup {"plain"} :
         /\ SanitizedByPath(TryParseJson(text), RequestBody(text), Paths)
         /\ text \notin LongBodies => SanitizedByPath(TryParseJson(text), ResponseBody(text), Paths)

\* Events of the page are captured as they happen, throttled by time, without what is
\* to be masked, and the values that are sanitized show nothing of what they hide: all
\* but headers, texts and errors of the console, and long responses (64-470).
EntriesCaptured == EventsCaptured /\ ValuesSanitized

-----------------------------------------------------------------------------
CollectorInit ==
  /\ part \in {"log", "reporting", "events", "requests", "values"}
  /\ sample \in IF part = "values" THEN Samples ELSE {Leaf("short")}
  /\ LogInit /\ ReportingInit /\ CaptureInit /\ RequestInit

CollectorNext ==
  /\ \/ /\ part = "log" /\ LogNext
        /\ UNCHANGED <<reportingVars, captureVars, requestVars>>
     \/ /\ part = "reporting" /\ ReportingNext
        /\ UNCHANGED <<logVars, captureVars, requestVars>>
     \/ /\ part = "events" /\ CaptureNext
        /\ UNCHANGED <<logVars, reportingVars, requestVars>>
     \/ /\ part = "requests" /\ RequestNext
        /\ UNCHANGED <<logVars, reportingVars, captureVars>>
  /\ UNCHANGED <<part, sample>>

CollectorSpec ==
  /\ CollectorInit
  /\ [][CollectorNext]_<<part, sample, logVars, reportingVars, captureVars, requestVars>>
  /\ ReportingFairness
=============================================================================
