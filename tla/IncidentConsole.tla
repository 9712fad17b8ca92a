-------------------------- MODULE IncidentConsole --------------------------
(***************************************************************************)
(* The incidents of the operator console (tracelock_services/app.py with   *)
(* operations.py): requests of several operators run on threads of the     *)
(* server's pool and share the incidents without a lock.  A dictionary or  *)
(* list operation is one step of the interpreter; between two of them      *)
(* other threads run.  The store lives as long as its process.             *)
(***************************************************************************)
EXTENDS Integers, Sequences, FiniteSets

CONSTANTS Decisions,  \* decision ids an operator may name
          Handlers,   \* the requests
          Changes,    \* what a PATCH may ask: [status, owner, comment], each maybe Unset
          Unset       \* no value

VARIABLES
  incidents,  \* decision -> its Incident, named by the request that made it, or Unset
  opened,     \* the decisions in the order the dictionary has them
  status,     \* incident -> the request that set its status, Unset for "open"
  owner,      \* incident -> the request that set its owner, or Unset
  comments,   \* incident -> the requests whose comments it has, in order
  asked,      \* request -> [decision, change], Unset for a list
  phase,      \* request -> what its handler does next
  mine,       \* request -> the Incident its handler holds
  answer,     \* request -> what its client got
  writes,     \* history: <<request, field>> in the order of the writes
  begun       \* history: request -> how many incidents were open when it began

store == <<incidents, opened, status, owner, comments, writes>>
vars == <<store, asked, phase, mine, answer, begun>>

Controlled == {"open", "acknowledged", "investigating", "closed"}

Init ==
  /\ incidents = [d \in Decisions |-> Unset] /\ opened = <<>>
  /\ status = [h \in Handlers |-> Unset] /\ owner = status
  /\ comments = [h \in Handlers |-> <<>>]
  /\ asked = [h \in Handlers |-> Unset]
  /\ phase = [h \in Handlers |-> "none"]
  /\ mine = [h \in Handlers |-> Unset] /\ answer = mine
  /\ writes = <<>>
  /\ begun = [h \in Handlers |-> 0]

Goto(h, next) == phase' = [phase EXCEPT ![h] = next]

Answer(h, what) == Goto(h, "answered") /\ answer' = [answer EXCEPT ![h] = what]

-----------------------------------------------------------------------------
(* PATCH /v1/incidents/{decision_id}                                       *)

\* The session and its role come first: a viewer gets no further.
Update(h, d, change, role) ==
  /\ phase[h] = "none"
  /\ asked' = [asked EXCEPT ![h] = [decision |-> d, change |-> change]]
  /\ \/ role \in {"admin", "operator"} /\ Goto(h, "incident_for") /\ UNCHANGED answer
     \/ role = "viewer" /\ Answer(h, [outcome |-> "insufficient_role"])
  /\ UNCHANGED <<store, mine, begun>>

Change(h) == asked[h].change

\* Mutated form (of IncidentFor): the new Incident is put there in any case.
IncidentForAnew(h) ==
  LET d == asked[h].decision IN
  /\ phase[h] = "incident_for"
  /\ incidents' = [incidents EXCEPT ![d] = h]
  /\ opened' = IF incidents[d] = Unset THEN Append(opened, d) ELSE opened
  /\ mine' = [mine EXCEPT ![h] = h]
  /\ Goto(h, "status")
  /\ UNCHANGED <<status, owner, comments, writes, asked, answer, begun>>

\* incident_for: setdefault, with an Incident made in vain when there is one.
IncidentFor(h) ==
  LET d == asked[h].decision IN
  /\ phase[h] = "incident_for"
  /\ \/ /\ incidents[d] = Unset
        /\ incidents' = [incidents EXCEPT ![d] = h]
        /\ opened' = Append(opened, d)
        /\ mine' = [mine EXCEPT ![h] = h]
     \/ /\ incidents[d] # Unset
        /\ mine' = [mine EXCEPT ![h] = incidents[d]]
        /\ UNCHANGED <<incidents, opened>>
  /\ Goto(h, "status")
  /\ UNCHANGED <<status, owner, comments, writes, asked, answer, begun>>

SetStatus(h) ==
  /\ phase[h] = "status"
  /\ \/ Change(h).status = Unset
          /\ Goto(h, "owner")
          /\ UNCHANGED <<status, writes, answer>>
     \/ Change(h).status \notin Controlled \cup {Unset}
          /\ Answer(h, [outcome |-> "invalid_incident_status"])
          /\ UNCHANGED <<status, writes>>
     \/ Change(h).status \in Controlled
          /\ status' = [status EXCEPT ![mine[h]] = h]
          /\ writes' = Append(writes, <<h, "status">>)
          /\ Goto(h, "owner")
          /\ UNCHANGED answer
  /\ UNCHANGED <<incidents, opened, owner, comments, asked, mine, begun>>

SetOwner(h) ==
  /\ phase[h] = "owner"
  /\ \/ Change(h).owner = Unset /\ UNCHANGED <<owner, writes>>
     \/ Change(h).owner # Unset
          /\ owner' = [owner EXCEPT ![mine[h]] = h]
          /\ writes' = Append(writes, <<h, "owner">>)
  /\ Goto(h, "comment")
  /\ UNCHANGED <<incidents, opened, status, comments, asked, mine, answer, begun>>

AddComment(h) ==
  /\ phase[h] = "comment"
  /\ \/ Change(h).comment = Unset /\ UNCHANGED comments
     \/ Change(h).comment # Unset /\ comments' = [comments EXCEPT ![mine[h]] = Append(@, h)]
  /\ Goto(h, "as_dict")
  /\ UNCHANGED <<incidents, opened, status, owner, writes, asked, mine, answer, begun>>

\* as_dict copies the fields, and of the comments the reference ...
AsDict(h) ==
  /\ phase[h] = "as_dict"
  /\ answer' = [answer EXCEPT ![h] =
       [outcome |-> "incident", status |-> status[mine[h]], owner |-> owner[mine[h]]]]
  /\ Goto(h, "serialize")
  /\ UNCHANGED <<store, asked, mine, begun>>

\* ... which is followed when the response is written.
Serialize(h) ==
  /\ phase[h] = "serialize"
  /\ Answer(h, [outcome |-> "incident", status |-> answer[h].status, owner |-> answer[h].owner,
                comments |-> comments[mine[h]]])
  /\ UNCHANGED <<store, asked, mine, begun>>

-----------------------------------------------------------------------------
(* GET /v1/incidents                                                       *)

\* The iteration over the dictionary begins, and has its size in mind.
List(h) ==
  /\ phase[h] = "none"
  /\ begun' = [begun EXCEPT ![h] = Len(opened)]
  /\ answer' = [answer EXCEPT ![h] = [outcome |-> "list", listed |-> <<>>]]
  /\ Goto(h, "list")
  /\ UNCHANGED <<store, asked, mine>>

\* One turn of it: a dictionary that has grown since raises, even at the end.
ListNext(h) ==
  LET listed == answer[h].listed IN
  /\ phase[h] = "list"
  /\ \/ Len(opened) # begun[h] /\ Answer(h, [outcome |-> "internal_error"])
     \/ Len(opened) = begun[h] /\ Len(listed) = begun[h] /\ Answer(h, answer[h])
     \/ /\ Len(opened) = begun[h] /\ Len(listed) < begun[h]
        /\ answer' = [answer EXCEPT ![h].listed = Append(@, opened[Len(listed) + 1])]
        /\ UNCHANGED phase
  /\ UNCHANGED <<store, asked, mine, begun>>

Handle(h) ==
  \/ IncidentFor(h) \/ SetStatus(h) \/ SetOwner(h) \/ AddComment(h)
  \/ AsDict(h) \/ Serialize(h) \/ ListNext(h)

Next ==
  \E h \in Handlers :
    \/ \E d \in Decisions, change \in Changes, role \in {"admin", "viewer"} : Update(h, d, change, role)
    \/ List(h)
    \/ Handle(h)

Spec == Init /\ [][Next]_vars

-----------------------------------------------------------------------------
(* What operators may rely on.                                             *)

Done(h, outcome) == phase[h] = "answered" /\ answer[h].outcome = outcome

Times(h, list) == Cardinality({i \in DOMAIN list : list[i] = h})

\* Whoever opens a decision's incident first, there is one: every comment that was
\* answered is in it, once, and in the answer too, and what an answer had of the
\* others stays before it (operations.py 104, app.py 594-604).
CommentsKept ==
  \A h \in Handlers : Done(h, "incident") =>
    LET here == comments[incidents[asked[h].decision]] IN
    /\ Change(h).comment # Unset => Times(h, here) = 1 /\ Times(h, answer[h].comments) = 1
    /\ Len(answer[h].comments) <= Len(here)
    /\ \A i \in DOMAIN answer[h].comments : answer[h].comments[i] = here[i]

\* A request that is refused for its status, or its role, leaves nothing of it
\* behind, though the incident it opened stays (app.py 593-597).
RefusedWritesNothing ==
  \A h \in Handlers :
    Done(h, "invalid_incident_status") \/ Done(h, "insufficient_role") =>
      \A i \in Handlers : h # status[i] /\ h # owner[i] /\ Times(h, comments[i]) = 0

\* When a request last wrote a field; before everything if it did not.
Wrote(h, field) ==
  IF \E i \in DOMAIN writes : writes[i] = <<h, field>>
  THEN CHOOSE i \in DOMAIN writes : writes[i] = <<h, field>> ELSE 0

\* Each field of an answer, and of the incident after it, is what the request wrote
\* or what a later one wrote, although nothing keeps two updates from mixing
\* (app.py 595-604).
AnswersShowOwnOrLater ==
  \A h \in Handlers : Done(h, "incident") =>
    LET incident == incidents[asked[h].decision]
        later(by, own, field) == by # Unset /\ Wrote(by, field) >= own
    IN  /\ Change(h).status # Unset =>
             \A by \in {answer[h].status, status[incident]} : later(by, Wrote(h, "status"), "status")
        /\ Change(h).owner # Unset =>
             \A by \in {answer[h].owner, owner[incident]} : later(by, Wrote(h, "owner"), "owner")

\* A list that is answered has every incident that was open when it began, and one
\* that fails does so because an incident was opened meanwhile (app.py 586).
ListsAreWhole ==
  \A h \in Handlers :
    /\ Done(h, "list") => answer[h].listed = SubSeq(opened, 1, begun[h])
    /\ Done(h, "internal_error") => Len(opened) > begun[h]
=============================================================================
