------------------------------ MODULE Conversation ------------------------------
(***************************************************************************)
(* What a chat room promises: what a member says is kept once, however     *)
(* often the request is sent, and a screen shows what was said, each       *)
(* message once.                                                           *)
(***************************************************************************)
EXTENDS Sequences

CONSTANTS
  Message,   \* messages, named by the request that stores them
  Meant,     \* what each is meant to say: retries mean the same
  Screen     \* connections that show the room

VARIABLES
  said,      \* the messages kept, in the order they became visible
  shown      \* those each screen has shown

vars == <<said, shown>>

Items(s) == {s[i] : i \in DOMAIN s}

Init ==
  /\ said = <<>>
  /\ shown = [s \in Screen |-> <<>>]

Say(m) ==
  /\ \A n \in Items(said) : Meant[n] # Meant[m]
  /\ said' = Append(said, m)
  /\ UNCHANGED shown

Show(s, m) ==
  /\ m \in Items(said) \ Items(shown[s])
  /\ shown' = [shown EXCEPT ![s] = Append(@, m)]
  /\ UNCHANGED said

Next ==
  \/ \E m \in Message : Say(m)
  \/ \E s \in Screen, m \in Message : Show(s, m)

Spec == Init /\ [][Next]_vars
=============================================================================
