--------------------------- MODULE RequestCapture ---------------------------
(***************************************************************************)
(* What the debug collector records of the requests of a page              *)
(* (debug-collector.js): window.fetch and XMLHttpRequest are wrapped.  The *)
(* body of a fetch is read behind the caller's back, so its entry is       *)
(* recorded later than the mark of its failure.  An XMLHttpRequest may be  *)
(* opened and sent again, and keeps the listeners every call of send gave  *)
(* it, those that threw included.                                          *)
(***************************************************************************)
EXTENDS Naturals, FiniteSets, SequencesExt

CONSTANTS Fetches,   \* the calls of fetch
          Xhrs,      \* the XMLHttpRequest objects of the page
          AtOnce,    \* responses recorded as they arrive: streams, large and binary ones
          Texts,     \* how a text is recorded: whole, truncated or as unreadable
          MaxTurns,  \* bound on how often an object is opened
          MaxSends   \* bound on how often it is sent

ASSUME RequestAssumption == Fetches \cap Xhrs = {} /\ MaxTurns \in Nat /\ MaxSends \in Nat

VARIABLES
  fetch,    \* fetch -> how far it is, whether it is the collector's own, how it ended
  xhr,      \* object -> its state, its turn, its url as _manusData has it, its listeners,
            \* and how many of them it got after the turn was done
  network,  \* the entries for store.networkRequests, oldest first
  marks     \* the "network_error" entries for store.uiEvents

requestVars == <<fetch, xhr, network, marks>>

Entry(source, turn, body, failed) ==
  [source |-> source, turn |-> turn, body |-> body, failed |-> failed]

Times(n, entry) == [i \in 1 .. n |-> entry]

RecordRequest(entry, n) == network' = network \o Times(n, entry)

MarkFailure(source, turn, failed, n) ==
  marks' = IF failed THEN marks \o Times(n, [source |-> source, turn |-> turn]) ELSE marks

RequestInit ==
  /\ fetch = [f \in Fetches |-> [stage |-> "idle", internal |-> FALSE, failed |-> FALSE]]
  /\ xhr = [x \in Xhrs |-> [state |-> "unsent", url |-> "page", turn |-> 0, listeners |-> 0, late |-> 0]]
  /\ network = <<>> /\ marks = <<>>

-----------------------------------------------------------------------------
\* window.fetch; a request to /__manus__/ goes through untouched.
FetchStarts(f, internal) ==
  /\ fetch[f].stage = "idle"
  /\ fetch' = [fetch EXCEPT ![f].stage = IF internal THEN "passed" ELSE "pending",
                            ![f].internal = internal]
  /\ UNCHANGED <<xhr, network, marks>>

\* The response arrives: a status of 400 or more is marked, and the caller gets
\* the response whether or not its body is still to be read.
FetchAnswers(f, body, failed) ==
  /\ fetch[f].stage = "pending"
  /\ MarkFailure(f, 1, failed, 1)
  /\ \/ /\ body \in AtOnce
        /\ fetch' = [fetch EXCEPT ![f].stage = "settled", ![f].failed = failed]
        /\ RecordRequest(Entry(f, 1, body, failed), 1)
     \/ /\ body = "text"
        /\ fetch' = [fetch EXCEPT ![f].stage = "reading", ![f].failed = failed]
        /\ UNCHANGED network
  /\ UNCHANGED xhr

\* Mutated form (of FetchBodyRead): a body that cannot be read is not recorded.
FetchBodyReadOrDropped(f, body) ==
  /\ fetch[f].stage = "reading"
  /\ fetch' = [fetch EXCEPT ![f].stage = "settled"]
  /\ IF body = "unreadable" THEN UNCHANGED network
     ELSE RecordRequest(Entry(f, 1, body, fetch[f].failed), 1)
  /\ UNCHANGED <<xhr, marks>>

\* The clone was read, as a whole or in part, or could not be.
FetchBodyRead(f, body) ==
  /\ fetch[f].stage = "reading"
  /\ fetch' = [fetch EXCEPT ![f].stage = "settled"]
  /\ RecordRequest(Entry(f, 1, body, fetch[f].failed), 1)
  /\ UNCHANGED <<xhr, marks>>

\* The fetch is rejected, and the caller gets the same error.
FetchRejects(f) ==
  /\ fetch[f].stage = "pending"
  /\ fetch' = [fetch EXCEPT ![f].stage = "settled", ![f].failed = TRUE]
  /\ RecordRequest(Entry(f, 1, "error", TRUE), 1)
  /\ MarkFailure(f, 1, TRUE, 1)
  /\ UNCHANGED xhr

-----------------------------------------------------------------------------
\* open, which ends the request under way without a sound.  The url is one of the
\* page, the collector's own, or an object, which is kept as it is.
XhrOpen(x, url) ==
  /\ xhr[x].turn < MaxTurns
  /\ xhr' = [xhr EXCEPT ![x].state = "opened", ![x].url = url, ![x].turn = @ + 1, ![x].late = 0]
  /\ UNCHANGED <<fetch, network, marks>>

\* send: a pair of listeners more for an object that was ever opened, and then the
\* original, which throws unless the turn was opened and not yet sent.  A url that is
\* an object has no indexOf: the wrapper throws before anything is done.
XhrSend(x) ==
  /\ xhr[x].state # "unsent" /\ xhr[x].url # "object"
  /\ xhr[x].url = "page" => xhr[x].listeners < MaxSends
  /\ LET more == IF xhr[x].url = "page" THEN 1 ELSE 0 IN
     xhr' = [xhr EXCEPT ![x].state = IF @ = "opened" THEN "sent" ELSE @,
                        ![x].listeners = @ + more,
                        ![x].late = IF xhr[x].state = "done" THEN @ + more ELSE @]
  /\ UNCHANGED <<fetch, network, marks>>

\* load: every listener the object ever got records the present turn.
XhrLoads(x, body, failed) ==
  /\ xhr[x].state = "sent"
  /\ xhr' = [xhr EXCEPT ![x].state = "done"]
  /\ RecordRequest(Entry(x, xhr[x].turn, body, failed), xhr[x].listeners)
  /\ MarkFailure(x, xhr[x].turn, failed, xhr[x].listeners)
  /\ UNCHANGED fetch

XhrFails(x) ==
  /\ xhr[x].state = "sent"
  /\ xhr' = [xhr EXCEPT ![x].state = "done"]
  /\ RecordRequest(Entry(x, xhr[x].turn, "error", TRUE), xhr[x].listeners)
  /\ MarkFailure(x, xhr[x].turn, TRUE, xhr[x].listeners)
  /\ UNCHANGED fetch

\* abort and timeout have no listener.
XhrAborts(x) ==
  /\ xhr[x].state = "sent"
  /\ xhr' = [xhr EXCEPT ![x].state = "silent"]
  /\ UNCHANGED <<fetch, network, marks>>

RequestNext ==
  \/ \E f \in Fetches :
       \/ \E internal \in BOOLEAN : FetchStarts(f, internal)
       \/ \E body \in AtOnce \cup {"text"}, failed \in BOOLEAN :
            FetchAnswers(f, body, failed)
       \/ \E body \in Texts : FetchBodyRead(f, body)
       \/ FetchRejects(f)
  \/ \E x \in Xhrs :
       \/ \E url \in {"page", "own", "object"} : XhrOpen(x, url)
       \/ XhrSend(x) \/ XhrFails(x) \/ XhrAborts(x)
       \/ \E body \in AtOnce \cup Texts, failed \in BOOLEAN :
            XhrLoads(x, body, failed)

-----------------------------------------------------------------------------
RequestTypeOK ==
  /\ \A f \in Fetches :
       /\ fetch[f].stage \in {"idle", "passed", "pending", "reading", "settled"}
       /\ fetch[f].stage = "passed" => fetch[f].internal
  /\ \A x \in Xhrs :
       /\ xhr[x].state \in {"unsent", "opened", "sent", "done", "silent"}
       /\ xhr[x].url \in {"page", "own", "object"} /\ xhr[x].turn \in 0 .. MaxTurns
       /\ xhr[x].listeners \in 0 .. MaxSends /\ xhr[x].late \in 0 .. xhr[x].listeners
  /\ \A i \in DOMAIN network : network[i].source \in Fetches \cup Xhrs

Of(log, source, turn) == {i \in DOMAIN log : log[i].source = source /\ log[i].turn = turn}

Recorded(source, turn) == Of(network, source, turn)

MarkedFailures(source, turn) == Of(marks, source, turn)

\* A fetch of the page that settled has one entry, whichever way its body went,
\* and one of the collector's own has none (453-591).
FetchRecordedOnce ==
  \A f \in Fetches :
    /\ Cardinality(Recorded(f, 1)) = IF fetch[f].stage = "settled" THEN 1 ELSE 0
    /\ Cardinality(MarkedFailures(f, 1)) = IF fetch[f].failed THEN 1 ELSE 0

\* A request that failed has as many marks among the interactions as it has
\* entries, once its body is read: the two logs agree on what failed.
FailuresAgree ==
  \A i \in DOMAIN network :
    LET entry == network[i] IN
    Cardinality(MarkedFailures(entry.source, entry.turn))
      = IF entry.failed THEN Cardinality(Recorded(entry.source, entry.turn)) ELSE 0

\* The last turn of an object is recorded as often as send was called on the object
\* for requests of the page until the turn was done, whether or not it threw: once for
\* an object that is sent once, and not at all when it was aborted, timed out or opened
\* anew (597-710).
XhrRecordedPerSend ==
  \A x \in Xhrs :
    Cardinality(Recorded(x, xhr[x].turn))
      = IF xhr[x].state = "done" THEN xhr[x].listeners - xhr[x].late ELSE 0

\* Requests are recorded once, and a failure in both logs (453-710).
RequestsRecorded ==
  RequestTypeOK /\ FetchRecordedOnce /\ FailuresAgree /\ XhrRecordedPerSend
=============================================================================
