-------------------------- MODULE OperatorSession --------------------------
(***************************************************************************)
(* Sessions of operators: TeamView and ScenarioView of the Control Center  *)
(* (Home.tsx), which keep a token in localStorage, and the gateway's       *)
(* sessions behind /v1/auth and /v1/demo/scenarios (operations.py), which  *)
(* keeps in memory the sessions that were signed out.                      *)
(*                                                                         *)
(* A call of the page is served, or never is, and then answered, or fails, *)
(* in any order among the calls under way; views are left and mounted      *)
(* again meanwhile, pages reloaded, and the gateway restarts.              *)
(***************************************************************************)
EXTENDS Naturals, FiniteSets

CONSTANTS Tokens,   \* the sessions that may be issued
          NoToken,
          Slots,    \* bound on the calls under way
          MaxMounts,
          MaxFaults \* bound on restarts and failed calls

ASSUME SessionAssumption == NoToken \notin Tokens /\ MaxMounts \in Nat /\ MaxFaults \in Nat

VARIABLES
  stored,    \* localStorage["tracelock-session"]
  user,      \* whose answer TeamView shows: a token stands for its user
  checking,
  shown,     \* "team" or "lab"
  mount,     \* the number of TeamView's mount
  request,   \* slot -> a call under way
  issued,    \* the sessions issued
  expired,
  revoked_sessions,
  faults,
  signedOut, \* history: the sessions whose sign-out the gateway confirmed
  outlived,  \* history: one of them was accepted later
  restarted, \* history
  crossed    \* history: a call of an earlier mount changed the session

page == <<stored, user, checking, shown, mount>>
gateway == <<issued, expired, revoked_sessions, signedOut, outlived, restarted>>
sessionVars == <<page, request, gateway, faults, crossed>>

Free1 == [call |-> "none", token |-> NoToken, mount |-> 0, state |-> "free"]

Call(c, name, token) ==
  /\ request[c].state = "free"
  /\ request' = [request EXCEPT ![c] = [call |-> name, token |-> token, mount |-> mount', state |-> "sent"]]

\* member_from_token.
Accepted(token) == token \in issued \ (expired \cup revoked_sessions)

SessionInit ==
  /\ stored = NoToken /\ user = NoToken /\ checking = FALSE /\ shown = "lab" /\ mount = 0
  /\ request = [c \in Slots |-> Free1]
  /\ issued = {} /\ expired = {} /\ revoked_sessions = {} /\ faults = 0
  /\ signedOut = {} /\ outlived = FALSE /\ restarted = FALSE /\ crossed = FALSE

-----------------------------------------------------------------------------
(* The page.                                                               *)

\* TeamView is mounted and has a stored session checked.
OpenTeam ==
  /\ shown = "lab" /\ mount < MaxMounts
  /\ shown' = "team" /\ mount' = mount + 1
  /\ user' = NoToken /\ checking' = (stored # NoToken)
  /\ IF stored = NoToken THEN UNCHANGED request ELSE \E c \in Slots : Call(c, "check", stored)
  /\ UNCHANGED <<stored, gateway, faults, crossed>>

LeaveTeam ==
  /\ shown = "team"
  /\ shown' = "lab" /\ user' = NoToken /\ checking' = FALSE
  /\ UNCHANGED <<stored, mount, request, gateway, faults, crossed>>

Login(c) ==
  /\ shown = "team" /\ user = NoToken /\ ~checking
  /\ UNCHANGED page
  /\ Call(c, "login", NoToken)
  /\ UNCHANGED <<gateway, faults, crossed>>

\* clearSession at once when there is no token to revoke.
Logout(c) ==
  /\ shown = "team" /\ user # NoToken
  /\ UNCHANGED <<stored, checking, shown, mount>>
  /\ \/ /\ stored # NoToken
        /\ UNCHANGED user
        /\ Call(c, "logout", stored)
     \/ /\ stored = NoToken
        /\ user' = NoToken
        /\ UNCHANGED request
  /\ UNCHANGED <<gateway, faults, crossed>>

\* Without a token ScenarioView asks to sign in first.
RunScenario(c) ==
  /\ shown = "lab" /\ stored # NoToken
  /\ \A other \in Slots : request[other].call # "scenario"
  /\ UNCHANGED page
  /\ Call(c, "scenario", stored)
  /\ UNCHANGED <<gateway, faults, crossed>>

\* The page is loaded again; only localStorage is left of it, and a sign-out on
\* its way, which no page waits for.
Reload ==
  /\ shown' = "lab" /\ user' = NoToken /\ checking' = FALSE
  /\ request' = [c \in Slots |->
                   IF request[c].call = "logout" /\ request[c].state = "sent"
                   THEN [request[c] EXCEPT !.mount = 0] ELSE Free1]
  /\ UNCHANGED <<stored, mount, gateway, faults, crossed>>

Unawaited(c) == request[c].call = "logout" /\ request[c].mount = 0

\* The session becomes `token`: of the views, only the mount that asked is told.
SetSession(c, token) ==
  /\ stored' = token
  /\ IF request[c].mount = mount /\ shown = "team"
     THEN user' = token /\ UNCHANGED crossed
     ELSE UNCHANGED user /\ crossed' = TRUE

\* A check ends the checking of the mount that asked.
EndChecking(c) ==
  checking' = (checking /\ ~(request[c].call = "check" /\ request[c].mount = mount))

ClearSession(c) == SetSession(c, NoToken)

\* The answer to a call, or its failure, arrives: a check that fails for whatever
\* reason clears the session, and so does a sign-out whatever comes of it.
CallSettles(c) ==
  LET answer == request[c] IN
  /\ answer.state \in {"accepted", "refused", "failed"}
  /\ request' = [request EXCEPT ![c] = Free1]
  /\ EndChecking(c)
  /\ \/ /\ answer.call = "check" /\ answer.state = "accepted"
        /\ user' = IF answer.mount = mount /\ shown = "team" THEN answer.token ELSE user
        /\ UNCHANGED <<stored, crossed>>
     \/ /\ answer.call = "login" /\ answer.state = "accepted"
        /\ SetSession(c, answer.token)
     \/ /\ ~Unawaited(c)
        /\ answer.call = "logout" \/ (answer.call = "check" /\ answer.state # "accepted")
        /\ ClearSession(c)
     \/ /\ answer.call = "scenario" \/ Unawaited(c) \/ (answer.call = "login" /\ answer.state # "accepted")
        /\ UNCHANGED <<stored, user, crossed>>
  /\ UNCHANGED <<shown, mount, gateway, faults>>

-----------------------------------------------------------------------------
(* The gateway.                                                            *)

Serve1(c, state, token) ==
  /\ request[c].state = "sent"
  /\ request' = [request EXCEPT ![c].state = state, ![c].token = token]

\* login: each session is a new one.
IssueSession(c) ==
  /\ request[c].call = "login"
  /\ \/ \E token \in Tokens \ issued :
          /\ Serve1(c, "accepted", token)
          /\ issued' = issued \cup {token}
     \/ Serve1(c, "refused", NoToken) /\ UNCHANGED issued
  /\ UNCHANGED <<page, expired, revoked_sessions, signedOut, outlived, restarted, faults, crossed>>

\* current_user and run_demo_scenario: the token is looked at, nothing changes.
CheckToken(c) ==
  LET token == request[c].token IN
  /\ request[c].call \in {"check", "scenario"}
  /\ Serve1(c, IF Accepted(token) THEN "accepted" ELSE "refused", token)
  /\ outlived' = (outlived \/ (Accepted(token) /\ token \in signedOut))
  /\ UNCHANGED <<page, issued, expired, revoked_sessions, signedOut, restarted, faults, crossed>>

\* Mutated form (of RevokeSession): the sessions revoked before are lost.
RevokeLast(c) ==
  LET token == request[c].token IN
  /\ request[c].call = "logout"
  /\ \/ /\ Accepted(token)
        /\ Serve1(c, "accepted", token)
        /\ revoked_sessions' = {token} /\ signedOut' = signedOut \cup {token}
     \/ ~Accepted(token) /\ Serve1(c, "refused", token) /\ UNCHANGED <<revoked_sessions, signedOut>>
  /\ UNCHANGED <<page, issued, expired, outlived, restarted, faults, crossed>>

\* logout: a token that is not accepted is not revoked.
RevokeSession(c) ==
  LET token == request[c].token IN
  /\ request[c].call = "logout"
  /\ \/ /\ Accepted(token)
        /\ Serve1(c, "accepted", token)
        /\ revoked_sessions' = revoked_sessions \cup {token}
        /\ signedOut' = signedOut \cup {token}
     \/ ~Accepted(token) /\ Serve1(c, "refused", token) /\ UNCHANGED <<revoked_sessions, signedOut>>
  /\ UNCHANGED <<page, issued, expired, outlived, restarted, faults, crossed>>

\* A token is eight hours old.
Expire(token) ==
  /\ token \in issued \ expired
  /\ expired' = expired \cup {token}
  /\ UNCHANGED <<page, request, issued, revoked_sessions, signedOut, outlived, restarted, faults, crossed>>

\* The process starts again: the operations store is a new one, the secret stays.
GatewayRestarts ==
  /\ faults < MaxFaults
  /\ faults' = faults + 1
  /\ revoked_sessions' = {} /\ restarted' = TRUE
  /\ UNCHANGED <<page, request, issued, expired, signedOut, outlived, crossed>>

\* The call, or its answer, is lost or late.
CallFails(c) ==
  /\ request[c].state \in {"sent", "accepted", "refused"} /\ faults < MaxFaults
  /\ request' = [request EXCEPT ![c].state = "failed"]
  /\ faults' = faults + 1
  /\ UNCHANGED <<page, gateway, crossed>>

SessionNext ==
  \/ OpenTeam \/ LeaveTeam \/ Reload \/ GatewayRestarts
  \/ \E c \in Slots :
       \/ Login(c) \/ Logout(c) \/ RunScenario(c) \/ CallSettles(c)
       \/ IssueSession(c) \/ CheckToken(c) \/ RevokeSession(c) \/ CallFails(c)
  \/ \E token \in Tokens : Expire(token)

-----------------------------------------------------------------------------
SessionTypeOK ==
  /\ stored \in Tokens \cup {NoToken} /\ user \in Tokens \cup {NoToken}
  /\ {checking, outlived, restarted, crossed} \subseteq BOOLEAN
  /\ shown \in {"team", "lab"} /\ mount \in 0 .. MaxMounts /\ faults \in 0 .. MaxFaults
  /\ request \in [Slots -> [call : {"none", "check", "login", "logout", "scenario"},
                            token : Tokens \cup {NoToken}, mount : 0 .. MaxMounts,
                            state : {"free", "sent", "accepted", "refused", "failed"}]]
  /\ expired \subseteq issued /\ issued \subseteq Tokens
  /\ revoked_sessions \subseteq signedOut /\ signedOut \subseteq issued

\* A session whose sign-out the gateway confirmed is accepted nowhere any more,
\* unless the gateway restarted in between (operations.py 76-100).
SignedOutIsRefused == outlived => restarted

\* The session the Team view shows is the one that is stored, however checks,
\* sign-ins and sign-outs of one mount cross; only a call that outlived its mount
\* can part them (199-209).
SessionShownIsStored == user # NoToken /\ ~crossed => stored = user

\* A checking that nothing would end does not begin (200-207).
CheckIsUnderWay ==
  checking => \E c \in Slots : request[c].call = "check" /\ request[c].mount = mount
=============================================================================
