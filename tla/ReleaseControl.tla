--------------------------- MODULE ReleaseControl ---------------------------
(***************************************************************************)
(* What the gateway promises to whoever calls it, however it decides: a    *)
(* call is refused, or its body is released once; the caller is told which *)
(* of the two happened, after it happened; and every call is answered.     *)
(***************************************************************************)
EXTENDS Sequences, Integers

CONSTANT Calls

VARIABLES
  state,     \* call -> "idle", "open", "sent" or "refused"
  released   \* the calls whose bodies were released, in order

Init ==
  /\ state = [c \in Calls |-> "idle"]
  /\ released = <<>>

Released(c) == \E i \in DOMAIN released : released[i] = c

\* A call is taken in, or refused at once.
Ask(c) ==
  /\ state[c] = "idle"
  /\ state' = [state EXCEPT ![c] = "open"] \/ state' = [state EXCEPT ![c] = "refused"]
  /\ UNCHANGED released

Release(c) ==
  /\ state[c] = "open"
  /\ ~Released(c)
  /\ released' = Append(released, c)
  /\ UNCHANGED state

Answer(c) ==
  /\ state[c] = "open"
  /\ \/ Released(c) /\ state' = [state EXCEPT ![c] = "sent"]
     \/ ~Released(c) /\ state' = [state EXCEPT ![c] = "refused"]
  /\ UNCHANGED released

Next == \E c \in Calls : Ask(c) \/ Release(c) \/ Answer(c)

Spec ==
  Init /\ [][Next]_<<state, released>> /\ \A c \in Calls : WF_<<state, released>>(Answer(c))
=============================================================================
