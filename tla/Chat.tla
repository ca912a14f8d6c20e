---------------------------------- MODULE Chat ----------------------------------
(***************************************************************************)
(* One chat room of two members: messages sent over HTTP with idempotency  *)
(* keys, kept in PostgreSQL, shown on WebSockets of several API replicas   *)
(* that tell each other through NATS; the read watermark; blocks.          *)
(*                                                                         *)
(* A message is named by the request that inserted its row.  Its time is   *)
(* that of the statement's start, taken from a clock that no two share;    *)
(* its row is visible from the commit on.                                  *)
(***************************************************************************)
EXTENDS Naturals, Sequences

CONSTANTS
  User,      \* the two members of the room
  Blocker,   \* the members who may block the other, a bound
  Request,   \* POST /v1/chat/rooms/{id}/messages requests
  Sender,    \* who sends each
  Key,       \* its sender and idempotency key; a retry has that of the first
  Impatient, \* requests whose client may leave, a bound
  Elusive,   \* messages a connection may fail to load, a bound
  Replica,   \* API processes
  Home,      \* the process that serves each request
  Socket,    \* WebSocket connections
  Viewer,    \* whose each is
  Host,      \* the process it is connected to
  Mark,      \* POST .../read requests
  Reader,    \* who sends each
  Capacity   \* events a connection may be behind, 256 in the code

ASSUME ChatAssumption ==
  /\ Blocker \subseteq User
  /\ Sender \in [Request -> User]
  /\ Home \in [Request -> Replica]
  /\ Impatient \subseteq Request
  /\ Elusive \subseteq Request
  /\ DOMAIN Key = Request
  /\ Viewer \in [Socket -> User]
  /\ Host \in [Socket -> Replica]
  /\ Reader \in [Mark -> User]
  /\ Capacity \in Nat \ {0}

VARIABLES
  room,       \* the room and its two members exist
  blocks,     \* the members who have blocked the other
  send,       \* where each request is
  stamp,      \* created_at of the row each inserts
  clock,      \* the latest time given
  rows,       \* the committed rows of chat_messages, in the order of commit
  bus,        \* messages under way to another process
  lost,       \* messages NATS or a stopped process has lost
  socket,     \* state of each connection
  queue,      \* events it has yet to receive
  shown,      \* messages it has shown
  dropped,    \* history: events it dropped because a statement failed
  mark,       \* where each read request is
  watermark,  \* last_read_at of each member
  known       \* history: how many rows there were when it was last moved

sendVars == <<send, stamp, clock, rows>>
pushVars == <<bus, lost, socket, queue, shown, dropped>>
readVars == <<mark, watermark, known>>
vars == <<room, blocks, sendVars, pushVars, readVars>>
-----------------------------------------------------------------------------
(* A request is done when it is answered, whatever the answer; cut if the  *)
(* client left when its message was, or was being, stored.                 *)
Place == {"new", "clear", "waiting", "held", "relay", "done", "cut"}
Reading == [pc : {"new", "found", "done"}, time : Nat, upto : Nat]

TypeOK ==
  /\ room \in BOOLEAN
  /\ blocks \subseteq User
  /\ send \in [Request -> Place]
  /\ stamp \in [Request -> 0 .. clock]
  /\ clock \in Nat
  /\ rows \in Seq(Request)
  /\ bus \subseteq Request \X Replica
  /\ lost \subseteq Request
  /\ socket \in [Socket -> {"none", "open", "closed"}]
  /\ queue \in [Socket -> Seq(Request)]
  /\ \A s \in Socket : Len(queue[s]) <= Capacity
  /\ shown \in [Socket -> Seq(Request)]
  /\ dropped \subseteq Socket \X Request
  /\ mark \in [Mark -> Reading]
  /\ watermark \in [User -> 0 .. clock]
  /\ known \in [User -> 0 .. Len(rows)]

Init ==
  /\ room = FALSE
  /\ blocks = {}
  /\ send = [r \in Request |-> "new"]
  /\ stamp = [r \in Request |-> 0]
  /\ clock = 0
  /\ rows = <<>>
  /\ bus = {}
  /\ lost = {}
  /\ socket = [s \in Socket |-> "none"]
  /\ queue = [s \in Socket |-> <<>>]
  /\ shown = [s \in Socket |-> <<>>]
  /\ dropped = {}
  /\ mark = [k \in Mark |-> [pc |-> "new", time |-> 0, upto |-> 0]]
  /\ watermark = [u \in User |-> 0]
  /\ known = [u \in User |-> 0]

-----------------------------------------------------------------------------
Items(s) == {s[i] : i \in DOMAIN s}
(* Neither has blocked the other.                                          *)
Allowed == blocks = {}
Stored == Items(rows)
At(r, pc) == send[r] = pc
GoTo(r, pc) == send' = [send EXCEPT ![r] = pc]
KeyStored(r) == \E q \in Stored : Key[q] = Key[r]
KeyHeld(r) == \E q \in Request : At(q, "held") /\ Key[q] = Key[r]

(***************************************************************************)
(* open_room: the room and its members in one transaction; a second one    *)
(* waits for the unique index and finds them.                              *)
(***************************************************************************)
OpenRoom ==
  /\ ~room
  /\ Allowed
  /\ room' = TRUE
  /\ UNCHANGED <<blocks, sendVars, pushVars, readVars>>

Block(u) ==
  /\ u \notin blocks
  /\ blocks' = blocks \cup {u}
  /\ UNCHANGED <<room, sendVars, pushVars, readVars>>

Unblock(u) ==
  /\ u \in blocks
  /\ blocks' = blocks \ {u}
  /\ UNCHANGED <<room, sendVars, pushVars, readVars>>

-----------------------------------------------------------------------------
(* send_message: the sender is a member, and no one has blocked the other. *)
(* A key that is not stored yet is checked for its text: whether it was    *)
(* sent in the last five minutes is left open.                             *)
Admit(r) ==
  /\ At(r, "new")
  /\ room
  /\ \/ Allowed /\ GoTo(r, "clear")
     \/ ~Allowed /\ GoTo(r, "done")
     \/ ~KeyStored(r) /\ GoTo(r, "done")
  /\ UNCHANGED <<room, blocks, stamp, clock, rows, pushVars, readVars>>

(***************************************************************************)
(* persist_chat_message, INSERT ... ON CONFLICT DO NOTHING united with a   *)
(* SELECT of the same statement, hence the same snapshot.  It returns the  *)
(* row it finds; or inserts; or waits while another holds the key, and     *)
(* then sees neither that row nor one of its own, which is an error.       *)
(***************************************************************************)
Insert(r) ==
  /\ At(r, "clear")
  /\ \/ KeyStored(r) /\ GoTo(r, "done") /\ UNCHANGED <<stamp, clock>>
     \/ /\ ~KeyStored(r)
        /\ clock' = clock + 1
        /\ stamp' = [stamp EXCEPT ![r] = clock + 1]
        /\ GoTo(r, IF KeyHeld(r) THEN "waiting" ELSE "held")
  /\ UNCHANGED <<room, blocks, rows, pushVars, readVars>>

InsertAfterWait(r) ==
  /\ At(r, "waiting")
  /\ ~KeyHeld(r)
  /\ GoTo(r, IF KeyStored(r) THEN "done" ELSE "held")
  /\ UNCHANGED <<room, blocks, stamp, clock, rows, pushVars, readVars>>

Commit(r) ==
  /\ At(r, "held")
  /\ rows' = Append(rows, r)
  /\ GoTo(r, "relay")
  /\ UNCHANGED <<room, blocks, stamp, clock, pushVars, readVars>>

-----------------------------------------------------------------------------
(* An event for the connections of process p; one that is Capacity behind  *)
(* gets an error when it receives next, and ends.                          *)
Here(s, p) == socket[s] = "open" /\ Host[s] = p
Full(s) == Len(queue[s]) = Capacity
(* Defect: a slow connection is waited for, its events kept.               *)
PushKept(r, p) ==
  /\ queue' = [s \in Socket |-> IF Here(s, p) THEN Append(queue[s], r) ELSE queue[s]]
  /\ UNCHANGED socket
Push(r, p) ==
  /\ socket' = [s \in Socket |-> IF Here(s, p) /\ Full(s) THEN "closed" ELSE socket[s]]
  /\ queue' = [s \in Socket |->
       IF ~Here(s, p) THEN queue[s]
       ELSE IF Full(s) THEN <<>> ELSE Append(queue[s], r)]

(* Defect: the event is only published.                                    *)
RelayByBus(r) ==
  /\ At(r, "relay")
  /\ bus' = bus \cup {<<r, p>> : p \in Replica \ {Home[r]}}
  /\ GoTo(r, "done")
  /\ UNCHANGED <<room, blocks, stamp, clock, rows, lost, socket, queue, shown, dropped, readVars>>
(* Defect: a process takes its own events from the bus as well.            *)
RelayToAll(r) ==
  /\ At(r, "relay")
  /\ Push(r, Home[r])
  /\ bus' = bus \cup {<<r, p>> : p \in Replica}
  /\ GoTo(r, "done")
  /\ UNCHANGED <<room, blocks, stamp, clock, rows, lost, shown, dropped, readVars>>
(* broadcast_chat_message: to this process; a task of its own publishes it *)
(* to the others, which ignore what they have published themselves.        *)
Relay(r) ==
  /\ At(r, "relay")
  /\ Push(r, Home[r])
  /\ bus' = bus \cup {<<r, p>> : p \in Replica \ {Home[r]}}
  /\ GoTo(r, "done")
  /\ UNCHANGED <<room, blocks, stamp, clock, rows, lost, shown, dropped, readVars>>

(* Each event is delivered by a task of its own: in any order.             *)
BusDeliver(r, p) ==
  /\ <<r, p>> \in bus
  /\ bus' = bus \ {<<r, p>>}
  /\ Push(r, p)
  /\ UNCHANGED <<room, blocks, sendVars, lost, shown, dropped, readVars>>

(* Nothing is kept for a process that is away, or published if NATS is.    *)
Lose(r) ==
  /\ \E p \in Replica : <<r, p>> \in bus
  /\ bus' = bus \ ({r} \X Replica)
  /\ lost' = lost \cup {r}
  /\ UNCHANGED <<room, blocks, sendVars, socket, queue, shown, dropped, readVars>>

(* The client goes away and its request with it; a statement under way may *)
(* still commit.                                                           *)
Cancel(r) ==
  /\ send[r] \notin {"new", "done", "cut"}
  /\ \/ ~At(r, "relay") /\ GoTo(r, "done") /\ UNCHANGED rows
     \/ At(r, "held") /\ GoTo(r, "cut") /\ rows' = Append(rows, r)
     \/ At(r, "relay") /\ GoTo(r, "cut") /\ UNCHANGED rows
  /\ UNCHANGED <<room, blocks, stamp, clock, pushVars, readVars>>

-----------------------------------------------------------------------------
(* room_ws, with a ticket that a member was given and that the statement   *)
(* that accepts it uses up: one ticket, one connection.                    *)
Connect(s) ==
  /\ room
  /\ socket[s] = "none"
  /\ socket' = [socket EXCEPT ![s] = "open"]
  /\ UNCHANGED <<room, blocks, sendVars, bus, lost, queue, shown, dropped, readVars>>

(* handle_socket: an event is dropped, and the connection stays, while     *)
(* there is a block, or if the check for one or the query for the message  *)
(* fails.  Otherwise the message is sent.                                  *)
Receive(s) ==
  /\ socket[s] = "open"
  /\ queue[s] # <<>>
  /\ queue' = [queue EXCEPT ![s] = Tail(@)]
  /\ \/ ~Allowed /\ UNCHANGED <<shown, dropped>>
     \/ /\ Allowed
        /\ shown' = [shown EXCEPT ![s] = Append(@, Head(queue[s]))]
        /\ UNCHANGED dropped
     \/ /\ Allowed /\ Head(queue[s]) \in Elusive
        /\ dropped' = dropped \cup {<<s, Head(queue[s])>>}
        /\ UNCHANGED shown
  /\ UNCHANGED <<room, blocks, sendVars, bus, lost, socket, readVars>>

Close(s) ==
  /\ socket[s] = "open"
  /\ socket' = [socket EXCEPT ![s] = "closed"]
  /\ queue' = [queue EXCEPT ![s] = <<>>]
  /\ UNCHANGED <<room, blocks, sendVars, bus, lost, shown, dropped, readVars>>

-----------------------------------------------------------------------------
(* mark_read: the message is found, then the watermark is raised to its    *)
(* time.                                                                   *)
FindMessage(k) ==
  /\ mark[k].pc = "new"
  /\ \E m \in Stored :
       mark' = [mark EXCEPT ![k] = [pc |-> "found", time |-> stamp[m],
                                    upto |-> Len(rows)]]
  /\ UNCHANGED <<room, blocks, sendVars, pushVars, watermark, known>>

Larger(m, n) == IF m >= n THEN m ELSE n
(* Defect: read means read by now.                                         *)
MarkNow(k) ==
  /\ mark[k].pc = "found"
  /\ LET u == Reader[k]
     IN  /\ watermark' = [watermark EXCEPT ![u] = clock]
         /\ known' = [known EXCEPT ![u] = Larger(@, mark[k].upto)]
  /\ mark' = [mark EXCEPT ![k] = [pc |-> "done", time |-> 0, upto |-> 0]]
  /\ UNCHANGED <<room, blocks, sendVars, pushVars>>
(* Defect: the watermark is set, whatever it was.                          *)
MarkSet(k) ==
  /\ mark[k].pc = "found"
  /\ LET u == Reader[k]
     IN  /\ watermark' = [watermark EXCEPT ![u] = mark[k].time]
         /\ known' = [known EXCEPT ![u] = Larger(@, mark[k].upto)]
  /\ mark' = [mark EXCEPT ![k] = [pc |-> "done", time |-> 0, upto |-> 0]]
  /\ UNCHANGED <<room, blocks, sendVars, pushVars>>
(* mark_room_read.                                                         *)
MarkRead(k) ==
  /\ mark[k].pc = "found"
  /\ LET u == Reader[k]
     IN  /\ watermark' = [watermark EXCEPT ![u] = Larger(@, mark[k].time)]
         /\ known' = [known EXCEPT ![u] = Larger(@, mark[k].upto)]
  /\ mark' = [mark EXCEPT ![k] = [pc |-> "done", time |-> 0, upto |-> 0]]
  /\ UNCHANGED <<room, blocks, sendVars, pushVars>>

(* list_rooms and load_room: what counts as unread.                        *)
Unread(u) ==
  {m \in Stored : Sender[m] # u /\ stamp[m] > watermark[u]}

-----------------------------------------------------------------------------
Serve(r) ==
  \/ Insert(r)
  \/ InsertAfterWait(r)
  \/ Commit(r)
  \/ Relay(r)

Next ==
  \/ OpenRoom
  \/ \E u \in Blocker : Block(u) \/ Unblock(u)
  \/ \E r \in Request :
       \/ Admit(r) \/ Serve(r) \/ Lose(r)
       \/ \E p \in Replica : BusDeliver(r, p)
  \/ \E r \in Impatient : Cancel(r)
  \/ \E s \in Socket : Connect(s) \/ Receive(s) \/ Close(s)
  \/ \E k \in Mark : FindMessage(k) \/ MarkRead(k)

Spec == Init /\ [][Next]_vars

(* A request that was taken up is served, spawned tasks run, and so do the *)
(* loops of connections.                                                   *)
Fairness ==
  /\ \A r \in Request :
       /\ WF_vars(Serve(r))
       /\ WF_vars(\E p \in Replica : BusDeliver(r, p))
  /\ \A s \in Socket : WF_vars(Receive(s))
FairSpec == Spec /\ Fairness
-----------------------------------------------------------------------------
(* Properties.                                                             *)

(* Whichever requests are retried, at once or on another process, what is  *)
(* said is stored once; and a connection shows only what is stored, each   *)
(* message once though it travels by two ways.                             *)
Promise == INSTANCE Conversation WITH
  Message <- Request, Meant <- Key, Screen <- Socket, said <- rows, shown <- shown
KeptAndShownOnce == Promise!Spec

(* A message that a member has not seen counts as unread, unless it was    *)
(* overtaken: its statement began before that of a message that was stored *)
(* earlier, and a time cannot tell it from those before.                   *)
NothingSlipsBy ==
  \A u \in User : \A i \in DOMAIN rows :
    Sender[rows[i]] # u /\ rows[i] \notin Unread(u) =>
      \/ i <= known[u]
      \/ \E j \in 1 .. i - 1 : stamp[rows[j]] > stamp[rows[i]]

(* What was read does not become unread, whatever order the requests that  *)
(* mark it are carried out in.                                             *)
ReadStaysRead ==
  [][\A u \in User : \A m \in Stored : m \notin Unread(u) => m \notin Unread(u)']_vars

(* A message that is sent while a connection is open is shown there,       *)
(* unless the sender's request is cut, NATS loses it, the connection ends  *)
(* or drops it because a statement failed, or somebody blocks.             *)
MessagesArrive ==
  \A r \in Request, s \in Socket :
    At(r, "relay") /\ socket[s] = "open" ~>
      \/ r \in Items(shown[s])
      \/ At(r, "cut") \/ r \in lost
      \/ socket[s] = "closed" \/ <<s, r>> \in dropped
      \/ ~Allowed
=============================================================================
