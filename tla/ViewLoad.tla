------------------------------ MODULE ViewLoad ------------------------------
(***************************************************************************)
(* The views of the Control Center that read the gateway (Home.tsx): the   *)
(* service view, one component for five endpoints; the decision ledger,    *)
(* one for every choice of filters; and the views that load once.  A view  *)
(* has one payload, one error and one loading flag for all its requests,   *)
(* which are neither cancelled nor told apart when they are answered.      *)
(*                                                                         *)
(* A click and the effect of the render it causes are one step.            *)
(***************************************************************************)
EXTENDS Naturals, SequencesExt

CONSTANTS KeysOf,   \* view -> its endpoints or filters: "service", "ledger", "once"
          MaxCalls  \* bound on the requests of a view under way

ASSUME ViewAssumption ==
  /\ DOMAIN KeysOf = {"service", "ledger", "once"}
  /\ \A v \in DOMAIN KeysOf : KeysOf[v] # {} /\ KeysOf[v] \cap {"nothing", "empty"} = {}
  /\ MaxCalls \in Nat \ {0}

VARIABLES
  view,     \* which component is mounted
  key,      \* the endpoint or the filters it shows
  payload,  \* whose answer it keeps
  loading,
  error,
  calls,    \* the keys of the requests under way, the oldest first
  inOrder   \* history: no request of this mount overtook another

viewVars == <<view, key, payload, loading, error, calls, inOrder>>

\* What is on the page; the service view tells it by its pill as well.
JsonState == IF loading THEN "loading" ELSE IF error THEN "failed" ELSE "answered"

Load(k) ==
  /\ loading' = TRUE /\ error' = FALSE
  /\ calls' = Append(calls, k)

\* Another component takes the place: what the earlier one asked for is answered
\* to nobody.
Mount(v, k) ==
  /\ view' = v /\ key' = k
  /\ payload' = "nothing" /\ loading' = TRUE /\ error' = FALSE
  /\ calls' = <<k>> /\ inOrder' = TRUE

ViewInit ==
  /\ view \in DOMAIN KeysOf /\ key \in KeysOf[view]
  /\ payload = "nothing" /\ loading = TRUE /\ error = FALSE
  /\ calls = <<key>> /\ inOrder = TRUE

\* The navigation of Home; the views that load once are components of their own.
Navigate(v, k) ==
  /\ v # view \/ (v = "once" /\ k # key)
  /\ Mount(v, k)

\* Another endpoint or filter of the same component, which keeps its state.
ChangeKey(k) ==
  /\ view \in {"service", "ledger"} /\ k # key /\ Len(calls) < MaxCalls
  /\ key' = k
  /\ Load(k)
  /\ UNCHANGED <<view, payload, inOrder>>

\* The button of the service view, and that of the ledger.
Refresh ==
  /\ view \in {"service", "ledger"} /\ Len(calls) < MaxCalls
  /\ Load(key)
  /\ UNCHANGED <<view, key, payload, inOrder>>

Settle1(i) ==
  /\ i \in DOMAIN calls
  /\ loading' = FALSE
  /\ calls' = RemoveAt(calls, i)
  /\ inOrder' = (inOrder /\ i = 1)
  /\ UNCHANGED <<view, key>>

\* Mutated form (of AnswerFails): only an answer ends the loading.
AnswerFailsLoading(i) ==
  /\ i \in DOMAIN calls
  /\ error' = TRUE
  /\ calls' = RemoveAt(calls, i)
  /\ inOrder' = (inOrder /\ i = 1)
  /\ UNCHANGED <<view, key, loading, payload>>

\* An answer with JSON: what it holds, or without records an empty ledger; the
\* service view takes an answer that is not JSON for an empty object.
AnswerArrives(i) ==
  /\ Settle1(i)
  /\ payload' \in {calls[i], "empty"}
  /\ UNCHANGED error

\* The gateway refuses, does not answer in time, cannot be reached, or, but for
\* the service view, does not answer with JSON.
AnswerFails(i) ==
  /\ Settle1(i)
  /\ error' = TRUE
  /\ UNCHANGED payload

CallEnds(i) == AnswerArrives(i) \/ AnswerFails(i)

ViewNext ==
  \/ \E v \in DOMAIN KeysOf : \E k \in KeysOf[v] : Navigate(v, k)
  \/ \E k \in KeysOf[view] : ChangeKey(k)
  \/ Refresh
  \/ \E i \in 1 .. MaxCalls : CallEnds(i)

-----------------------------------------------------------------------------
ViewTypeOK ==
  /\ view \in DOMAIN KeysOf /\ key \in KeysOf[view]
  /\ payload \in KeysOf[view] \cup {"nothing", "empty"}
  /\ loading \in BOOLEAN /\ error \in BOOLEAN /\ inOrder \in BOOLEAN
  /\ calls \in Seq(KeysOf[view]) /\ Len(calls) <= MaxCalls

\* A view that loads has a request under way, and one that has none, however its
\* requests crossed, shows an answer or an error (97-118, 166-167).
ViewSettles ==
  /\ loading => calls # <<>>
  /\ calls = <<>> => error \/ payload # "nothing"

\* As long as requests are answered in their order, a view whose requests are all
\* answered shows under its endpoint, or its filters, what was answered for it, or
\* an error (116, 160).
ShowsItsOwn ==
  inOrder /\ calls = <<>> /\ ~error => payload \in {key, "empty"}
=============================================================================
