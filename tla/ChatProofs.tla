------------------------------- MODULE ChatProofs -------------------------------
(* Proofs about Chat: what is stored is stored once and shown once on each *)
(* connection, nothing unseen counts as read unless it was overtaken, and  *)
(* what was read stays read.                                               *)
EXTENDS Chat, TLAPS

-----------------------------------------------------------------------------
(* What is stored, and who is about to store.                              *)
NoDup(s) == \A i, j \in DOMAIN s : s[i] = s[j] => i = j

KeysOnce == \A i, j \in DOMAIN rows : Key[rows[i]] = Key[rows[j]] => i = j

HeldApart == \A r \in Request : At(r, "held") =>
  /\ ~KeyStored(r)
  /\ \A q \in Request : At(q, "held") /\ Key[q] = Key[r] => q = r

StoredSent == \A r \in Stored : send[r] \in {"relay", "done", "cut"} /\ stamp[r] > 0

RelayStored == \A r \in Request : At(r, "relay") => r \in Stored

InsertTimed == \A r \in Request : At(r, "waiting") \/ At(r, "held") => stamp[r] > 0

TimesApart == \A q, r \in Request : stamp[q] = stamp[r] /\ stamp[r] > 0 => q = r

KeptInv ==
  KeysOnce /\ HeldApart /\ StoredSent /\ RelayStored /\ InsertTimed /\ TimesApart

(* Read marks and watermarks are times of messages visible when they were  *)
(* looked for.                                                             *)
MarksFound == \A k \in Mark : mark[k].pc = "found" =>
  /\ mark[k].upto <= Len(rows)
  /\ \E j \in 1 .. mark[k].upto : mark[k].time = stamp[rows[j]]

WatermarksFound == \A u \in User :
  watermark[u] = 0 \/ \E j \in 1 .. known[u] : watermark[u] = stamp[rows[j]]

ReadInv == MarksFound /\ WatermarksFound

(* What a connection has been told; what still travels has not been told   *)
(* to those it travels to.                                                 *)
Told(s) == Items(queue[s]) \cup Items(shown[s])

ToldStored == \A s \in Socket : Told(s) \subseteq Stored

QueuedOnce == \A s \in Socket :
  NoDup(queue[s]) /\ Items(queue[s]) \cap Items(shown[s]) = {}

RelayUntold == \A r \in Request : At(r, "relay") => \A s \in Socket : r \notin Told(s)

BusUntold == \A r \in Request, p \in Replica : <<r, p>> \in bus =>
  /\ r \in Stored /\ At(r, "done") /\ p # Home[r]
  /\ \A s \in Socket : Host[s] = p => r \notin Told(s)

PushInv == ToldStored /\ QueuedOnce /\ RelayUntold /\ BusUntold

ChatInv == TypeOK /\ KeptInv /\ ReadInv /\ PushInv

-----------------------------------------------------------------------------
(* Sequences without repetition.                                           *)
LEMMA AppendItems ==
  ASSUME NEW Elem, NEW s \in Seq(Elem), NEW x \in Elem
  PROVE  /\ Append(s, x) \in Seq(Elem) /\ Len(Append(s, x)) = Len(s) + 1
         /\ DOMAIN Append(s, x) = 1 .. Len(s) + 1 /\ DOMAIN s = 1 .. Len(s) /\ Len(s) \in Nat
         /\ \A i \in 1 .. Len(s) : Append(s, x)[i] = s[i]
         /\ Append(s, x)[Len(s) + 1] = x
         /\ Items(Append(s, x)) = Items(s) \cup {x}
         /\ NoDup(s) /\ x \notin Items(s) => NoDup(Append(s, x))
<1>1. /\ Append(s, x) \in Seq(Elem) /\ Len(Append(s, x)) = Len(s) + 1
      /\ DOMAIN Append(s, x) = 1 .. Len(s) + 1 /\ DOMAIN s = 1 .. Len(s) /\ Len(s) \in Nat
      /\ \A i \in 1 .. Len(s) : Append(s, x)[i] = s[i]
      /\ Append(s, x)[Len(s) + 1] = x
  OBVIOUS
<1> DEFINE longer == Append(s, x)
<1> HIDE DEF longer
<1>2. \A i \in DOMAIN longer : (i \in DOMAIN s /\ longer[i] = s[i]) \/ (i = Len(s) + 1 /\ longer[i] = x)
  BY <1>1 DEF longer
<1>3. \A i \in DOMAIN s : i \in DOMAIN longer /\ longer[i] = s[i] /\ i # Len(s) + 1
  BY <1>1 DEF longer
<1>4. Len(s) + 1 \in DOMAIN longer /\ longer[Len(s) + 1] = x
  BY <1>1 DEF longer
<1>5. Items(longer) = Items(s) \cup {x}
  BY <1>2, <1>3, <1>4 DEF Items
<1>6. NoDup(s) /\ x \notin Items(s) => NoDup(longer)
  BY <1>2 DEF NoDup, Items
<1>7. QED
  BY <1>1, <1>5, <1>6 DEF longer

LEMMA TailItems ==
  ASSUME NEW Elem, NEW s \in Seq(Elem), s # <<>>
  PROVE  /\ Tail(s) \in Seq(Elem) /\ Len(Tail(s)) = Len(s) - 1 /\ Len(s) \in Nat
         /\ Head(s) \in Elem
         /\ Items(s) = Items(Tail(s)) \cup {Head(s)}
         /\ NoDup(s) => NoDup(Tail(s)) /\ Head(s) \notin Items(Tail(s))
<1>1. /\ Tail(s) \in Seq(Elem) /\ Len(Tail(s)) = Len(s) - 1 /\ Len(s) \in Nat \ {0}
      /\ Head(s) = s[1] /\ s[1] \in Elem
      /\ DOMAIN s = 1 .. Len(s) /\ DOMAIN Tail(s) = 1 .. Len(s) - 1
      /\ \A i \in 1 .. Len(s) - 1 : Tail(s)[i] = s[i + 1]
  OBVIOUS
<1> DEFINE rest == Tail(s)
<1> HIDE DEF rest
<1>2. \A i \in DOMAIN rest : i + 1 \in DOMAIN s /\ rest[i] = s[i + 1] /\ i + 1 # 1
  BY <1>1 DEF rest
<1>3. \A i \in DOMAIN s : i = 1 \/ (i - 1 \in DOMAIN rest /\ rest[i - 1] = s[i])
  BY <1>1 DEF rest
<1>4. 1 \in DOMAIN s
  BY <1>1
<1>5. Items(s) = Items(rest) \cup {Head(s)}
  BY <1>1, <1>2, <1>3, <1>4 DEF Items
<1>6. ASSUME NoDup(s)
      PROVE  NoDup(rest) /\ Head(s) \notin Items(rest)
  <2>1. \A i, j \in DOMAIN rest : rest[i] = rest[j] => i + 1 = j + 1
    BY <1>2, <1>6 DEF NoDup
  <2>2. DOMAIN rest \subseteq Nat
    BY <1>1 DEF rest
  <2>3. QED
    BY <1>1, <1>2, <1>4, <1>6, <2>1, <2>2 DEF NoDup, Items
<1>7. QED
  BY <1>1, <1>5, <1>6 DEF rest

LEMMA EmptyItems == Items(<<>>) = {} /\ NoDup(<<>>)
BY DEF Items, NoDup

LEMMA StoredGrows ==
  ASSUME TypeOK, NEW r \in Request, rows' = Append(rows, r)
  PROVE  /\ rows' \in Seq(Request) /\ Len(rows') = Len(rows) + 1 /\ Len(rows) \in Nat
         /\ DOMAIN rows = 1 .. Len(rows) /\ DOMAIN rows' = 1 .. Len(rows) + 1
         /\ \A i \in 1 .. Len(rows) : rows'[i] = rows[i]
         /\ rows'[Len(rows) + 1] = r
         /\ Stored' = Stored \cup {r}
<1>1. rows \in Seq(Request)
  BY DEF TypeOK
<1>2. QED
  BY <1>1, AppendItems DEF Stored

LEMMA StoredRows ==
  ASSUME TypeOK
  PROVE  /\ DOMAIN rows = 1 .. Len(rows) /\ Len(rows) \in Nat /\ Stored \subseteq Request
         /\ \A i \in DOMAIN rows : rows[i] \in Stored
BY DEF TypeOK, Stored, Items

LEMMA ChatInit == Init => ChatInv
<1> SUFFICES ASSUME Init PROVE ChatInv
  OBVIOUS
<1>1. TypeOK
  <2>1. [pc |-> "new", time |-> 0, upto |-> 0] \in Reading
    BY DEF Reading
  <2>2. mark \in [Mark -> Reading]
    BY <2>1 DEF Init
  <2>3. queue \in [Socket -> Seq(Request)] /\ shown \in [Socket -> Seq(Request)]
        /\ rows \in Seq(Request) /\ \A t \in Socket : Len(queue[t]) = 0
    BY DEF Init
  <2>4. send \in [Request -> Place] /\ socket \in [Socket -> {"none", "open", "closed"}]
    BY DEF Init, Place
  <2>5. clock \in Nat /\ stamp \in [Request -> 0 .. clock] /\ watermark \in [User -> 0 .. clock]
        /\ known \in [User -> 0 .. Len(rows)]
    BY DEF Init
  <2>6. \A t \in Socket : Len(queue[t]) <= Capacity
    BY <2>3, ChatAssumption
  <2>7. QED
    BY <2>2, <2>3, <2>4, <2>5, <2>6 DEF Init, TypeOK
<1>2. Stored = {} /\ DOMAIN rows = {}
  BY EmptyItems DEF Init, Stored
<1>3. \A s \in Socket : Told(s) = {} /\ queue[s] = <<>> /\ Items(queue[s]) = {}
  BY EmptyItems DEF Init, Told
<1>4. KeptInv
  BY <1>2 DEF Init, KeptInv, KeysOnce, HeldApart, StoredSent, RelayStored, InsertTimed,
              TimesApart, At
<1>5. ReadInv
  BY DEF Init, ReadInv, MarksFound, WatermarksFound
<1>6. PushInv
  BY <1>2, <1>3, EmptyItems DEF Init, PushInv, ToldStored, QueuedOnce, RelayUntold, BusUntold, At
<1>7. QED
  BY <1>1, <1>4, <1>5, <1>6 DEF ChatInv

-----------------------------------------------------------------------------
(* What leaves the variables of a part of the invariant alone, or moves    *)
(* them in a direction, preserves that part.                               *)
LEMMA KeptFrame ==
  ASSUME KeptInv, UNCHANGED <<send, stamp, rows>>
  PROVE  KeptInv'
BY DEF KeptInv, KeysOnce, HeldApart, StoredSent, RelayStored, InsertTimed, TimesApart, At,
       Stored, Items, KeyStored

LEMMA ReadFrame ==
  ASSUME TypeOK, ReadInv, UNCHANGED <<mark, watermark, known>>,
         Len(rows') \in Nat, Len(rows) <= Len(rows'),
         \A i \in 1 .. Len(rows) : rows'[i] = rows[i] /\ stamp'[rows[i]] = stamp[rows[i]]
  PROVE  ReadInv'
<1>1. Len(rows) \in Nat
  BY StoredRows
<1>2. MarksFound'
  <2>1. ASSUME NEW k \in Mark, mark[k].pc = "found"
        PROVE  /\ mark[k].upto <= Len(rows')
               /\ \E j \in 1 .. mark[k].upto : mark[k].time = stamp'[rows'[j]]
    <3>1. mark[k].upto \in Nat
      BY DEF TypeOK, Reading
    <3>2. /\ mark[k].upto <= Len(rows)
          /\ \E j \in 1 .. mark[k].upto : mark[k].time = stamp[rows[j]]
      BY <2>1 DEF ReadInv, MarksFound
    <3>3. QED
      BY <1>1, <3>1, <3>2
  <2>2. QED
    BY <2>1 DEF MarksFound
<1>3. WatermarksFound'
  <2>1. ASSUME NEW u \in User
        PROVE  watermark[u] = 0 \/ \E j \in 1 .. known[u] : watermark[u] = stamp'[rows'[j]]
    <3>1. known[u] \in 0 .. Len(rows)
      BY DEF TypeOK
    <3>2. watermark[u] = 0 \/ \E j \in 1 .. known[u] : watermark[u] = stamp[rows[j]]
      BY DEF ReadInv, WatermarksFound
    <3>3. QED
      BY <1>1, <3>1, <3>2
  <2>2. QED
    BY <2>1 DEF WatermarksFound
<1>4. QED
  BY <1>2, <1>3 DEF ReadInv

LEMMA ReadStill ==
  ASSUME TypeOK, ReadInv, UNCHANGED <<mark, watermark, known, rows, stamp>>
  PROVE  ReadInv'
<1>1. Len(rows) \in Nat
  BY StoredRows
<1>2. QED
  BY <1>1, ReadFrame

LEMMA PushFrame ==
  ASSUME TypeOK, PushInv, UNCHANGED <<bus, queue, shown>>, Stored \subseteq Stored',
         \A r \in Request :
           /\ At(r, "done") => At(r, "done")'
           /\ At(r, "relay")' => At(r, "relay") \/ r \notin Stored
  PROVE  PushInv'
<1>1. \A s \in Socket : Told(s)' = Told(s)
  BY DEF Told, Items
<1>2. ToldStored'
  BY <1>1 DEF PushInv, ToldStored
<1>3. QueuedOnce'
  BY DEF PushInv, QueuedOnce, NoDup, Items
<1>4. RelayUntold'
  BY <1>1 DEF PushInv, RelayUntold, ToldStored
<1>5. BusUntold'
  BY <1>1 DEF PushInv, BusUntold
<1>6. QED
  BY <1>2, <1>3, <1>4, <1>5 DEF PushInv

LEMMA SendMoves ==
  ASSUME TypeOK, NEW r \in Request, NEW pc \in Place, GoTo(r, pc)
  PROVE  /\ send' \in [Request -> Place]
         /\ \A q \in Request : send'[q] = IF q = r THEN pc ELSE send[q]
BY DEF TypeOK, GoTo

(* A request goes on without storing anything.                             *)
LEMMA GoOn ==
  ASSUME ChatInv, NEW r \in Request, NEW pc \in Place \ {"relay"}, GoTo(r, pc),
         ~At(r, "done"),
         pc \in {"new", "clear"} => ~At(r, "relay") /\ ~At(r, "cut"),
         pc \in {"waiting", "held"} => At(r, "waiting"),
         pc = "held" => ~KeyHeld(r) /\ ~KeyStored(r),
         UNCHANGED <<room, blocks, stamp, clock, rows, pushVars, readVars>>
  PROVE  ChatInv'
<1>0. TypeOK /\ KeptInv /\ ReadInv /\ PushInv
      /\ UNCHANGED <<stamp, clock, rows, mark, watermark, known, bus, queue, shown, dropped, lost, socket>>
  BY DEF ChatInv, pushVars, readVars
<1>1. /\ send' \in [Request -> Place]
      /\ \A q \in Request : send'[q] = IF q = r THEN pc ELSE send[q]
  BY <1>0, SendMoves
<1>2. TypeOK'
  BY <1>0, <1>1 DEF TypeOK
<1>3. Stored' = Stored
  BY <1>0 DEF Stored
<1>4. KeptInv'
  <2>1. At(r, "waiting") => r \notin Stored
    BY <1>0 DEF KeptInv, StoredSent, At
  <2>2. StoredSent'
    BY <1>0, <1>1, <1>3, <2>1, StoredRows DEF KeptInv, StoredSent, At, Place
  <2>3. HeldApart'
    BY <1>0, <1>1, <1>3 DEF KeptInv, HeldApart, At, KeyHeld, KeyStored
  <2>4. KeysOnce' /\ TimesApart'
    BY <1>0 DEF KeptInv, KeysOnce, TimesApart
  <2>5. RelayStored' /\ InsertTimed'
    BY <1>0, <1>1, <1>3 DEF KeptInv, RelayStored, InsertTimed, At
  <2>6. QED
    BY <2>2, <2>3, <2>4, <2>5 DEF KeptInv
<1>5. ReadInv'
  BY <1>0, ReadStill
<1>6. PushInv'
  BY <1>0, <1>1, <1>3, PushFrame DEF At
<1>7. QED
  BY <1>2, <1>4, <1>5, <1>6 DEF ChatInv

LEMMA AdmitInv ==
  ASSUME ChatInv, NEW r \in Request, Admit(r)
  PROVE  ChatInv'
<1>1. PICK pc \in {"clear", "done"} : GoTo(r, pc)
  BY DEF Admit
<1>2. At(r, "new") /\ UNCHANGED <<room, blocks, stamp, clock, rows, pushVars, readVars>>
  BY DEF Admit
<1>3. QED
  BY <1>1, <1>2, GoOn DEF At, Place

LEMMA InsertAfterWaitInv ==
  ASSUME ChatInv, NEW r \in Request, InsertAfterWait(r)
  PROVE  ChatInv'
<1> DEFINE pc == IF KeyStored(r) THEN "done" ELSE "held"
<1>1. /\ At(r, "waiting") /\ ~KeyHeld(r) /\ GoTo(r, pc)
      /\ UNCHANGED <<room, blocks, stamp, clock, rows, pushVars, readVars>>
  BY DEF InsertAfterWait
<1>2. pc \in Place \ {"relay"} /\ (pc = "held" => ~KeyStored(r)) /\ pc \in {"done", "held"}
  BY DEF Place
<1>3. At(r, "waiting") => ~At(r, "done")
  BY DEF At
<1> HIDE DEF pc
<1>4. QED
  BY <1>1, <1>2, <1>3, GoOn

(* The row of a request gets a time that no row has had.                   *)
LEMMA InsertRowInv ==
  ASSUME ChatInv, NEW r \in Request, At(r, "clear"), ~KeyStored(r),
         clock' = clock + 1, stamp' = [stamp EXCEPT ![r] = clock + 1],
         GoTo(r, IF KeyHeld(r) THEN "waiting" ELSE "held"),
         UNCHANGED <<room, blocks, rows, pushVars, readVars>>
  PROVE  ChatInv'
<1>0. TypeOK /\ KeptInv /\ ReadInv /\ PushInv
      /\ UNCHANGED <<rows, mark, watermark, known, bus, queue, shown, dropped, lost, socket>>
  BY DEF ChatInv, pushVars, readVars
<1>1. PICK pc \in {"waiting", "held"} : pc = IF KeyHeld(r) THEN "waiting" ELSE "held"
  OBVIOUS
<1>2. /\ send' \in [Request -> Place]
      /\ \A q \in Request : send'[q] = IF q = r THEN pc ELSE send[q]
  BY <1>0, <1>1, SendMoves DEF Place
<1>3. /\ clock \in Nat /\ clock' \in Nat /\ \A q \in Request : stamp[q] \in 0 .. clock
      /\ stamp' \in [Request -> 0 .. clock']
      /\ \A q \in Request : stamp'[q] = IF q = r THEN clock + 1 ELSE stamp[q]
  BY <1>0 DEF TypeOK
<1>4. TypeOK'
  <2>1. watermark' \in [User -> 0 .. clock']
    BY <1>0, <1>3 DEF TypeOK
  <2>2. QED
    BY <1>0, <1>2, <1>3, <2>1 DEF TypeOK
<1>5. Stored' = Stored /\ r \notin Stored /\ Stored \subseteq Request
  BY <1>0, StoredRows DEF Stored, KeptInv, StoredSent, At
<1>6. KeptInv'
  <2>1. KeysOnce'
    BY <1>0 DEF KeptInv, KeysOnce
  <2>2. HeldApart'
    BY <1>0, <1>1, <1>2, <1>5 DEF KeptInv, HeldApart, At, KeyHeld, KeyStored
  <2>3. StoredSent'
    BY <1>0, <1>2, <1>3, <1>5 DEF KeptInv, StoredSent
  <2>4. RelayStored'
    BY <1>0, <1>1, <1>2, <1>5 DEF KeptInv, RelayStored, At
  <2>5. InsertTimed'
    BY <1>0, <1>2, <1>3 DEF KeptInv, InsertTimed, At
  <2>6. TimesApart'
    BY <1>0, <1>3 DEF KeptInv, TimesApart
  <2>7. QED
    BY <2>1, <2>2, <2>3, <2>4, <2>5, <2>6 DEF KeptInv
<1>7. ReadInv'
  <2>1. \A i \in 1 .. Len(rows) : rows'[i] = rows[i] /\ stamp'[rows[i]] = stamp[rows[i]]
    BY <1>0, <1>3, <1>5, StoredRows
  <2>2. Len(rows) \in Nat
    BY <1>0, StoredRows
  <2>3. QED
    BY <1>0, <2>1, <2>2, ReadFrame
<1>8. PushInv'
  BY <1>0, <1>1, <1>2, <1>5, PushFrame DEF At
<1>9. QED
  BY <1>4, <1>6, <1>7, <1>8 DEF ChatInv

LEMMA InsertInv ==
  ASSUME ChatInv, NEW r \in Request, Insert(r)
  PROVE  ChatInv'
<1>1. CASE KeyStored(r) /\ GoTo(r, "done") /\ UNCHANGED <<stamp, clock>>
  BY <1>1, GoOn DEF Insert, At, Place
<1>2. CASE ~KeyStored(r) /\ clock' = clock + 1 /\ stamp' = [stamp EXCEPT ![r] = clock + 1]
           /\ GoTo(r, IF KeyHeld(r) THEN "waiting" ELSE "held")
  BY <1>2, InsertRowInv DEF Insert
<1>3. QED
  BY <1>1, <1>2 DEF Insert

(* A row is committed, whether the client is still there or not.           *)
LEMMA StoreInv ==
  ASSUME ChatInv, NEW r \in Request, NEW pc \in {"relay", "cut"}, At(r, "held"),
         rows' = Append(rows, r), GoTo(r, pc),
         UNCHANGED <<room, blocks, stamp, clock, pushVars, readVars>>
  PROVE  ChatInv'
<1>0. TypeOK /\ KeptInv /\ ReadInv /\ PushInv
      /\ UNCHANGED <<stamp, clock, mark, watermark, known, bus, queue, shown, dropped, lost, socket>>
  BY DEF ChatInv, pushVars, readVars
<1>1. /\ send' \in [Request -> Place]
      /\ \A q \in Request : send'[q] = IF q = r THEN pc ELSE send[q]
  BY <1>0, SendMoves DEF Place
<1>2. /\ rows' \in Seq(Request) /\ Len(rows') = Len(rows) + 1 /\ Len(rows) \in Nat
      /\ DOMAIN rows = 1 .. Len(rows) /\ DOMAIN rows' = 1 .. Len(rows) + 1
      /\ \A i \in 1 .. Len(rows) : rows'[i] = rows[i]
      /\ rows'[Len(rows) + 1] = r
      /\ Stored' = Stored \cup {r}
  BY <1>0, StoredGrows
<1>3. /\ ~KeyStored(r) /\ r \notin Stored /\ Stored \subseteq Request
      /\ \A i \in DOMAIN rows : rows[i] \in Stored
  BY <1>0, StoredRows DEF KeptInv, HeldApart, KeyStored
<1>4. TypeOK'
  <2>1. known' \in [User -> 0 .. Len(rows')]
    BY <1>0, <1>2 DEF TypeOK
  <2>2. QED
    BY <1>0, <1>1, <1>2, <2>1 DEF TypeOK
<1>5. KeptInv'
  <2>1. KeysOnce'
    <3>1. \A i \in DOMAIN rows : Key[rows[i]] # Key[r]
      BY <1>3 DEF KeyStored
    <3>2. \A i, j \in DOMAIN rows' : Key[rows'[i]] = Key[rows'[j]] => i = j
      <4>1. \A i \in DOMAIN rows' : \/ i \in DOMAIN rows /\ rows'[i] = rows[i]
                                    \/ i = Len(rows) + 1 /\ rows'[i] = r
        BY <1>2
      <4>2. QED
        BY <1>0, <3>1, <4>1 DEF KeptInv, KeysOnce
    <3>3. QED
      BY <3>2 DEF KeysOnce
  <2>2. HeldApart'
    BY <1>0, <1>1, <1>2 DEF KeptInv, HeldApart, At, KeyStored
  <2>3. StoredSent'
    BY <1>0, <1>1, <1>2, <1>3 DEF KeptInv, StoredSent, InsertTimed, At
  <2>4. RelayStored' /\ InsertTimed'
    BY <1>0, <1>1, <1>2 DEF KeptInv, RelayStored, InsertTimed, At
  <2>5. TimesApart'
    BY <1>0 DEF KeptInv, TimesApart
  <2>6. QED
    BY <2>1, <2>2, <2>3, <2>4, <2>5 DEF KeptInv
<1>6. ReadInv'
  BY <1>0, <1>2, ReadFrame
<1>7. PushInv'
  BY <1>0, <1>1, <1>2, <1>3, PushFrame DEF At
<1>8. QED
  BY <1>4, <1>5, <1>6, <1>7 DEF ChatInv

LEMMA CommitInv ==
  ASSUME ChatInv, NEW r \in Request, Commit(r)
  PROVE  ChatInv'
BY StoreInv DEF Commit

LEMMA CancelInv ==
  ASSUME ChatInv, NEW r \in Request, Cancel(r)
  PROVE  ChatInv'
<1>1. CASE ~At(r, "relay") /\ GoTo(r, "done") /\ UNCHANGED rows
  BY <1>1, GoOn DEF Cancel, At, Place
<1>2. CASE At(r, "held") /\ GoTo(r, "cut") /\ rows' = Append(rows, r)
  BY <1>2, StoreInv DEF Cancel
<1>3. CASE At(r, "relay") /\ GoTo(r, "cut") /\ UNCHANGED rows
  BY <1>3, GoOn DEF Cancel, At, Place
<1>4. QED
  BY <1>1, <1>2, <1>3 DEF Cancel

-----------------------------------------------------------------------------
(* A message is put in the queues of the connections of a process, none of *)
(* which has been told of it.                                              *)
LEMMA PushTells ==
  ASSUME TypeOK, ToldStored, QueuedOnce, NEW r \in Request, NEW p \in Replica, Push(r, p),
         r \in Stored, \A s \in Socket : Host[s] = p => r \notin Told(s),
         UNCHANGED <<rows, shown>>
  PROVE  /\ queue' \in [Socket -> Seq(Request)]
         /\ \A s \in Socket : Len(queue'[s]) <= Capacity
         /\ socket' \in [Socket -> {"none", "open", "closed"}]
         /\ ToldStored' /\ QueuedOnce'
         /\ \A s \in Socket : /\ Told(s)' \subseteq Told(s) \cup {r}
                              /\ Host[s] # p => Told(s)' = Told(s)
<1>1. ASSUME NEW s \in Socket
      PROVE  /\ queue'[s] \in Seq(Request) /\ Len(queue'[s]) <= Capacity
             /\ Items(queue'[s]) \subseteq Items(queue[s]) \cup {r}
             /\ NoDup(queue'[s])
             /\ Host[s] # p => queue'[s] = queue[s]
             /\ Items(queue'[s]) \cap Items(shown[s]) = {}
  <2>1. queue[s] \in Seq(Request) /\ Len(queue[s]) <= Capacity /\ Len(queue[s]) \in Nat
        /\ Capacity \in Nat /\ NoDup(queue[s]) /\ Items(queue[s]) \cap Items(shown[s]) = {}
    BY ChatAssumption DEF TypeOK, QueuedOnce
  <2>2. queue'[s] = IF ~Here(s, p) THEN queue[s]
                    ELSE IF Full(s) THEN <<>> ELSE Append(queue[s], r)
    BY DEF Push
  <2>3. CASE ~Here(s, p)
    BY <2>1, <2>2, <2>3
  <2>4. CASE Here(s, p) /\ Full(s)
    <3>1. queue'[s] = <<>>
      BY <2>2, <2>4
    <3>2. Host[s] = p
      BY <2>4 DEF Here
    <3>3. <<>> \in Seq(Request) /\ Len(<<>>) <= Capacity
      BY <2>1
    <3>4. QED
      BY <3>1, <3>2, <3>3, EmptyItems
  <2>5. CASE Here(s, p) /\ ~Full(s)
    <3>1. queue'[s] = Append(queue[s], r)
      BY <2>2, <2>5
    <3>2. Host[s] = p /\ r \notin Items(queue[s]) /\ r \notin Items(shown[s])
      BY <2>5 DEF Here, Told
    <3>3. Len(queue[s]) # Capacity
      BY <2>5 DEF Full
    <3>4. /\ Append(queue[s], r) \in Seq(Request) /\ Len(Append(queue[s], r)) = Len(queue[s]) + 1
          /\ Items(Append(queue[s], r)) = Items(queue[s]) \cup {r}
          /\ NoDup(Append(queue[s], r))
      BY <2>1, <3>2, AppendItems
    <3>5. QED
      BY <2>1, <3>1, <3>2, <3>3, <3>4
  <2>6. QED
    BY <2>3, <2>4, <2>5
<1>2. queue' \in [Socket -> Seq(Request)] /\ \A s \in Socket : Len(queue'[s]) <= Capacity
  <2>1. queue' = [s \in Socket |-> queue'[s]]
    BY DEF Push
  <2>2. QED
    BY <1>1, <2>1
<1>3. socket' \in [Socket -> {"none", "open", "closed"}]
  BY DEF Push, TypeOK
<1>4. \A s \in Socket : /\ Told(s)' \subseteq Told(s) \cup {r}
                        /\ Host[s] # p => Told(s)' = Told(s)
  BY <1>1 DEF Told
<1>5. ToldStored'
  BY <1>4 DEF ToldStored, Stored
<1>6. QueuedOnce'
  BY <1>1 DEF QueuedOnce
<1>7. QED
  BY <1>2, <1>3, <1>4, <1>5, <1>6

LEMMA RelayInv ==
  ASSUME ChatInv, NEW r \in Request, Relay(r)
  PROVE  ChatInv'
<1>0. /\ TypeOK /\ KeptInv /\ ReadInv /\ PushInv /\ At(r, "relay")
      /\ Push(r, Home[r]) /\ GoTo(r, "done")
      /\ bus' = bus \cup {<<r, p>> : p \in Replica \ {Home[r]}}
      /\ UNCHANGED <<room, blocks, stamp, clock, rows, lost, shown, dropped, mark, watermark, known>>
      /\ Home[r] \in Replica
  BY ChatAssumption DEF ChatInv, Relay, readVars
<1>1. /\ send' \in [Request -> Place]
      /\ \A q \in Request : send'[q] = IF q = r THEN "done" ELSE send[q]
  BY <1>0, SendMoves DEF Place
<1>2. Stored' = Stored /\ r \in Stored /\ \A s \in Socket : r \notin Told(s)
  BY <1>0 DEF KeptInv, RelayStored, PushInv, RelayUntold, Stored
<1>3. /\ queue' \in [Socket -> Seq(Request)]
      /\ \A s \in Socket : Len(queue'[s]) <= Capacity
      /\ socket' \in [Socket -> {"none", "open", "closed"}]
      /\ ToldStored' /\ QueuedOnce'
      /\ \A s \in Socket : /\ Told(s)' \subseteq Told(s) \cup {r}
                           /\ Host[s] # Home[r] => Told(s)' = Told(s)
  BY <1>0, <1>2, PushTells DEF PushInv
<1>4. TypeOK'
  <2>1. bus' \subseteq Request \X Replica
    BY <1>0 DEF TypeOK
  <2>2. QED
    BY <1>0, <1>1, <1>3, <2>1 DEF TypeOK
<1>5. KeptInv'
  <2>1. KeysOnce' /\ TimesApart'
    BY <1>0 DEF KeptInv, KeysOnce, TimesApart
  <2>2. HeldApart' /\ RelayStored' /\ InsertTimed'
    BY <1>0, <1>1, <1>2 DEF KeptInv, HeldApart, RelayStored, InsertTimed, At, KeyStored
  <2>3. StoredSent'
    BY <1>0, <1>1, <1>2, StoredRows DEF KeptInv, StoredSent
  <2>4. QED
    BY <2>1, <2>2, <2>3 DEF KeptInv
<1>6. ReadInv'
  BY <1>0, ReadStill
<1>7. PushInv'
  <2>1. RelayUntold'
    BY <1>0, <1>1, <1>3 DEF PushInv, RelayUntold, At
  <2>2. BusUntold'
    <3>1. ASSUME NEW q \in Request, NEW p \in Replica, <<q, p>> \in bus'
          PROVE  /\ q \in Stored' /\ At(q, "done")' /\ p # Home[q]
                 /\ \A s \in Socket : Host[s] = p => q \notin Told(s)'
      <4>1. CASE <<q, p>> \in bus
        <5>1. q # r
          BY <1>0, <4>1 DEF PushInv, BusUntold, At
        <5>2. QED
          BY <1>0, <1>1, <1>2, <1>3, <4>1, <5>1 DEF PushInv, BusUntold, At
      <4>2. CASE q = r /\ p \in Replica \ {Home[r]}
        BY <1>1, <1>2, <1>3, <4>2 DEF At
      <4>3. QED
        BY <1>0, <3>1, <4>1, <4>2
    <3>2. QED
      BY <3>1 DEF BusUntold
  <2>3. QED
    BY <1>3, <2>1, <2>2 DEF PushInv
<1>8. QED
  BY <1>4, <1>5, <1>6, <1>7 DEF ChatInv

LEMMA BusDeliverInv ==
  ASSUME ChatInv, NEW r \in Request, NEW p \in Replica, BusDeliver(r, p)
  PROVE  ChatInv'
<1>0. /\ TypeOK /\ KeptInv /\ ReadInv /\ PushInv
      /\ <<r, p>> \in bus /\ Push(r, p) /\ bus' = bus \ {<<r, p>>}
      /\ UNCHANGED <<room, blocks, send, stamp, clock, rows, lost, shown, dropped, mark,
                     watermark, known>>
  BY DEF ChatInv, BusDeliver, sendVars, readVars
<1>1. Stored' = Stored /\ r \in Stored /\ At(r, "done")
      /\ \A s \in Socket : Host[s] = p => r \notin Told(s)
  BY <1>0 DEF PushInv, BusUntold, Stored
<1>2. /\ queue' \in [Socket -> Seq(Request)]
      /\ \A s \in Socket : Len(queue'[s]) <= Capacity
      /\ socket' \in [Socket -> {"none", "open", "closed"}]
      /\ ToldStored' /\ QueuedOnce'
      /\ \A s \in Socket : /\ Told(s)' \subseteq Told(s) \cup {r}
                           /\ Host[s] # p => Told(s)' = Told(s)
  BY <1>0, <1>1, PushTells DEF PushInv
<1>3. TypeOK'
  BY <1>0, <1>2 DEF TypeOK
<1>4. KeptInv' /\ ReadInv'
  BY <1>0, KeptFrame, ReadStill DEF ChatInv
<1>5. RelayUntold'
  BY <1>0, <1>1, <1>2 DEF PushInv, RelayUntold, At
<1>6. BusUntold'
  <2>1. ASSUME NEW q \in Request, NEW o \in Replica, <<q, o>> \in bus'
        PROVE  /\ q \in Stored' /\ At(q, "done")' /\ o # Home[q]
               /\ \A s \in Socket : Host[s] = o => q \notin Told(s)'
    <3>1. /\ q \in Stored /\ At(q, "done") /\ o # Home[q]
          /\ \A s \in Socket : Host[s] = o => q \notin Told(s)
      BY <1>0, <2>1 DEF PushInv, BusUntold
    <3>2. q # r \/ o # p
      BY <1>0, <2>1
    <3>3. QED
      BY <1>0, <1>1, <1>2, <3>1, <3>2 DEF At
  <2>2. QED
    BY <2>1 DEF BusUntold
<1>7. QED
  BY <1>2, <1>3, <1>4, <1>5, <1>6 DEF ChatInv, PushInv

(* Nobody is told anything new.                                            *)
LEMMA NothingNew ==
  ASSUME ChatInv, UNCHANGED <<send, stamp, clock, rows, mark, watermark, known>>,
         TypeOK', QueuedOnce', bus' \subseteq bus,
         \A s \in Socket : Told(s)' \subseteq Told(s)
  PROVE  ChatInv'
<1>0. TypeOK /\ KeptInv /\ ReadInv /\ PushInv
  BY DEF ChatInv
<1>1. KeptInv' /\ ReadInv'
  BY <1>0, KeptFrame, ReadStill
<1>2. ToldStored' /\ RelayUntold' /\ BusUntold'
  BY <1>0 DEF PushInv, ToldStored, RelayUntold, BusUntold, Stored, At
<1>3. QED
  BY <1>1, <1>2 DEF ChatInv, PushInv

LEMMA LoseInv ==
  ASSUME ChatInv, NEW r \in Request, Lose(r)
  PROVE  ChatInv'
<1>1. /\ TypeOK /\ QueuedOnce /\ bus' = bus \ ({r} \X Replica) /\ lost' = lost \cup {r}
      /\ UNCHANGED <<room, blocks, socket, queue, shown, dropped>>
      /\ UNCHANGED <<send, stamp, clock, rows, mark, watermark, known>>
  BY DEF ChatInv, PushInv, Lose, sendVars, readVars
<1>2. TypeOK'
  BY <1>1 DEF TypeOK
<1>3. QueuedOnce' /\ \A s \in Socket : Told(s)' = Told(s)
  BY <1>1 DEF QueuedOnce, Told
<1>4. QED
  BY <1>1, <1>2, <1>3, NothingNew

LEMMA ConnectInv ==
  ASSUME ChatInv, NEW s \in Socket, Connect(s)
  PROVE  ChatInv'
<1>1. /\ TypeOK /\ QueuedOnce /\ socket' = [socket EXCEPT ![s] = "open"]
      /\ UNCHANGED <<room, blocks, bus, lost, queue, shown, dropped>>
      /\ UNCHANGED <<send, stamp, clock, rows, mark, watermark, known>>
  BY DEF ChatInv, PushInv, Connect, sendVars, readVars
<1>2. TypeOK'
  BY <1>1 DEF TypeOK
<1>3. QueuedOnce' /\ \A t \in Socket : Told(t)' = Told(t)
  BY <1>1 DEF QueuedOnce, Told
<1>4. QED
  BY <1>1, <1>2, <1>3, NothingNew

LEMMA CloseInv ==
  ASSUME ChatInv, NEW s \in Socket, Close(s)
  PROVE  ChatInv'
<1>1. /\ TypeOK /\ QueuedOnce /\ socket' = [socket EXCEPT ![s] = "closed"]
      /\ queue' = [queue EXCEPT ![s] = <<>>]
      /\ UNCHANGED <<room, blocks, bus, lost, shown, dropped>>
      /\ UNCHANGED <<send, stamp, clock, rows, mark, watermark, known>>
  BY DEF ChatInv, PushInv, Close, sendVars, readVars
<1>2. \A t \in Socket : queue'[t] = IF t = s THEN <<>> ELSE queue[t]
  BY <1>1 DEF TypeOK
<1>3. TypeOK'
  <2>1. queue' \in [Socket -> Seq(Request)]
    BY <1>1 DEF TypeOK
  <2>2. socket' \in [Socket -> {"none", "open", "closed"}]
    BY <1>1 DEF TypeOK
  <2>3. \A t \in Socket : Len(queue'[t]) <= Capacity
    <3>1. Len(<<>>) <= Capacity
      BY ChatAssumption
    <3>2. QED
      BY <1>1, <1>2, <3>1 DEF TypeOK
  <2>4. QED
    BY <1>1, <2>1, <2>2, <2>3 DEF TypeOK
<1>4. QueuedOnce' /\ \A t \in Socket : Told(t)' \subseteq Told(t)
  BY <1>1, <1>2, EmptyItems DEF QueuedOnce, Told
<1>5. QED
  BY <1>1, <1>3, <1>4, NothingNew

(* What a connection receives leaves its queue and may be shown.           *)
LEMMA Received ==
  ASSUME ChatInv, NEW s \in Socket, Receive(s)
  PROVE  LET m == Head(queue[s]) IN
         /\ m \in Stored /\ m \in Items(queue[s]) /\ m \notin Items(shown[s])
         /\ Tail(queue[s]) \in Seq(Request) /\ Len(Tail(queue[s])) <= Capacity
         /\ Items(queue[s]) = Items(Tail(queue[s])) \cup {m}
         /\ NoDup(Tail(queue[s])) /\ m \notin Items(Tail(queue[s]))
         /\ Append(shown[s], m) \in Seq(Request)
         /\ Items(Append(shown[s], m)) = Items(shown[s]) \cup {m}
<1>1. /\ queue[s] \in Seq(Request) /\ shown[s] \in Seq(Request)
      /\ queue[s] # <<>> /\ Len(queue[s]) <= Capacity /\ Capacity \in Nat
  BY ChatAssumption DEF Receive, ChatInv, TypeOK
<1>2. /\ NoDup(queue[s]) /\ Items(queue[s]) \cap Items(shown[s]) = {}
      /\ Items(queue[s]) \subseteq Stored
  BY DEF ChatInv, PushInv, QueuedOnce, ToldStored, Told
<1>3. /\ Tail(queue[s]) \in Seq(Request) /\ Len(Tail(queue[s])) = Len(queue[s]) - 1
      /\ Len(queue[s]) \in Nat /\ Head(queue[s]) \in Request
      /\ Items(queue[s]) = Items(Tail(queue[s])) \cup {Head(queue[s])}
      /\ NoDup(Tail(queue[s])) /\ Head(queue[s]) \notin Items(Tail(queue[s]))
  BY <1>1, <1>2, TailItems
<1>4. /\ Append(shown[s], Head(queue[s])) \in Seq(Request)
      /\ Items(Append(shown[s], Head(queue[s]))) = Items(shown[s]) \cup {Head(queue[s])}
  BY <1>1, <1>3, AppendItems
<1>5. Len(Tail(queue[s])) <= Capacity
  BY <1>1, <1>3
<1>6. QED
  BY <1>2, <1>3, <1>4, <1>5

LEMMA ReceiveInv ==
  ASSUME ChatInv, NEW s \in Socket, Receive(s)
  PROVE  ChatInv'
<1> DEFINE m == Head(queue[s])
           rest == Tail(queue[s])
           more == Append(shown[s], m)
<1>0. /\ m \in Items(queue[s]) /\ m \notin Items(shown[s]) /\ m \in Stored
      /\ rest \in Seq(Request) /\ Len(rest) <= Capacity
      /\ Items(queue[s]) = Items(rest) \cup {m}
      /\ NoDup(rest) /\ m \notin Items(rest)
      /\ more \in Seq(Request) /\ Items(more) = Items(shown[s]) \cup {m}
  BY Received
<1>1. /\ TypeOK /\ QueuedOnce
      /\ queue' = [queue EXCEPT ![s] = rest]
      /\ shown' = [shown EXCEPT ![s] = more] \/ shown' = shown
      /\ dropped' = dropped \cup {<<s, m>>} \/ dropped' = dropped
      /\ UNCHANGED <<room, blocks, bus, lost, socket>>
      /\ UNCHANGED <<send, stamp, clock, rows, mark, watermark, known>>
  BY DEF ChatInv, PushInv, Receive, sendVars, readVars
<1> HIDE DEF m, rest, more
<1>2. \A t \in Socket : /\ queue'[t] = IF t = s THEN rest ELSE queue[t]
                        /\ shown'[t] = shown[t] \/ (t = s /\ shown'[t] = more)
  BY <1>1 DEF TypeOK
<1>3. TypeOK'
  <2>1. queue' \in [Socket -> Seq(Request)] /\ shown' \in [Socket -> Seq(Request)]
    BY <1>0, <1>1 DEF TypeOK
  <2>2. \A t \in Socket : Len(queue'[t]) <= Capacity
    BY <1>0, <1>1, <1>2 DEF TypeOK
  <2>3. dropped' \subseteq Socket \X Request
    BY <1>0, <1>1, StoredRows DEF TypeOK
  <2>4. QED
    BY <1>1, <2>1, <2>2, <2>3 DEF TypeOK
<1>4. \A t \in Socket : NoDup(queue'[t]) /\ Items(queue'[t]) \cap Items(shown'[t]) = {}
  BY <1>0, <1>1, <1>2 DEF QueuedOnce
<1>5. \A t \in Socket : Told(t)' \subseteq Told(t)
  BY <1>0, <1>2 DEF Told
<1>6. QueuedOnce'
  BY <1>4 DEF QueuedOnce
<1>7. QED
  BY <1>1, <1>3, <1>5, <1>6, NothingNew

(* The room and who is blocked are no part of the invariant but its types. *)
LEMMA RoomInv ==
  ASSUME ChatInv, room' \in BOOLEAN, blocks' \subseteq User,
         UNCHANGED <<sendVars, pushVars, readVars>>
  PROVE  ChatInv'
<1>1. /\ TypeOK /\ QueuedOnce
      /\ UNCHANGED <<bus, lost, socket, queue, shown, dropped>>
      /\ UNCHANGED <<send, stamp, clock, rows, mark, watermark, known>>
  BY DEF ChatInv, PushInv, sendVars, pushVars, readVars
<1>2. TypeOK'
  BY <1>1 DEF TypeOK
<1>3. QueuedOnce' /\ \A t \in Socket : Told(t)' = Told(t)
  BY <1>1 DEF QueuedOnce, Told
<1>4. QED
  BY <1>1, <1>2, <1>3, NothingNew

-----------------------------------------------------------------------------
(* Reading changes neither what is stored nor what is told.                *)
LEMMA ReadStep ==
  ASSUME ChatInv, UNCHANGED <<room, blocks, sendVars, pushVars>>, TypeOK', ReadInv'
  PROVE  ChatInv'
<1>1. TypeOK /\ KeptInv /\ PushInv
      /\ UNCHANGED <<send, stamp, clock, rows, bus, lost, socket, queue, shown, dropped>>
  BY DEF ChatInv, sendVars, pushVars
<1>2. KeptInv'
  BY <1>1, KeptFrame
<1>3. PushInv'
  BY <1>1, PushFrame DEF At, Stored
<1>4. QED
  BY <1>2, <1>3 DEF ChatInv

LEMMA FindMessageInv ==
  ASSUME ChatInv, NEW k \in Mark, FindMessage(k)
  PROVE  ChatInv'
<1>0. /\ TypeOK /\ ReadInv /\ Len(rows) \in Nat
      /\ UNCHANGED <<room, blocks, sendVars, pushVars>>
      /\ UNCHANGED <<room, blocks, send, stamp, clock, rows, bus, lost, socket, queue, shown,
                     dropped, watermark, known>>
  BY StoredRows DEF ChatInv, FindMessage, sendVars, pushVars
<1>1. PICK i \in DOMAIN rows :
        mark' = [mark EXCEPT ![k] = [pc |-> "found", time |-> stamp[rows[i]],
                                     upto |-> Len(rows)]]
  BY DEF FindMessage, Stored, Items
<1> DEFINE task == [pc |-> "found", time |-> stamp[rows[i]], upto |-> Len(rows)]
<1>2. /\ i \in 1 .. Len(rows) /\ rows[i] \in Request
      /\ stamp[rows[i]] \in Nat
  BY <1>0 DEF TypeOK
<1>3. task \in Reading /\ task.time = stamp[rows[i]] /\ task.upto = Len(rows)
  BY <1>0, <1>2 DEF Reading
<1>4. mark' = [mark EXCEPT ![k] = task]
  BY <1>1
<1> HIDE DEF task
<1>5. /\ mark' \in [Mark -> Reading]
      /\ \A j \in Mark : mark'[j] = IF j = k THEN task ELSE mark[j]
  BY <1>0, <1>3, <1>4 DEF TypeOK
<1>6. TypeOK'
  BY <1>0, <1>5 DEF TypeOK
<1>7. MarksFound'
  BY <1>0, <1>2, <1>3, <1>5 DEF ReadInv, MarksFound
<1>8. WatermarksFound'
  BY <1>0 DEF ReadInv, WatermarksFound
<1>9. QED
  BY <1>0, <1>6, <1>7, <1>8, ReadStep DEF ReadInv

LEMMA MarkReadInv ==
  ASSUME ChatInv, NEW k \in Mark, MarkRead(k)
  PROVE  ChatInv'
<1> DEFINE task == [pc |-> "done", time |-> 0, upto |-> 0]
           u == Reader[k]
<1>0. /\ TypeOK /\ ReadInv /\ Len(rows) \in Nat /\ u \in User
      /\ UNCHANGED <<room, blocks, sendVars, pushVars>>
      /\ UNCHANGED <<room, blocks, send, stamp, clock, rows, bus, lost, socket, queue, shown, dropped>>
      /\ mark' = [mark EXCEPT ![k] = task]
      /\ watermark' = [watermark EXCEPT ![u] = Larger(@, mark[k].time)]
      /\ known' = [known EXCEPT ![u] = Larger(@, mark[k].upto)]
      /\ mark[k].pc = "found"
  BY StoredRows, ChatAssumption DEF ChatInv, MarkRead, sendVars, pushVars
<1>1. task \in Reading /\ task.pc = "done"
  BY DEF Reading
<1> HIDE DEF task, u
<1>2. /\ mark' \in [Mark -> Reading]
      /\ \A j \in Mark : mark'[j] = IF j = k THEN task ELSE mark[j]
  BY <1>0, <1>1 DEF TypeOK
<1>3. mark[k].upto \in 0 .. Len(rows)
  BY <1>0 DEF TypeOK, Reading, ReadInv, MarksFound
<1>4. PICK j \in 1 .. mark[k].upto : mark[k].time = stamp[rows[j]]
  BY <1>0 DEF ReadInv, MarksFound
<1>5. mark[k].time \in 0 .. clock /\ clock \in Nat
  <2>1. j \in DOMAIN rows
    BY <1>0, <1>3, <1>4, StoredRows
  <2>2. rows[j] \in Request
    BY <1>0, <2>1 DEF TypeOK
  <2>3. QED
    BY <1>0, <1>4, <2>2 DEF TypeOK
<1>6. watermark[u] \in 0 .. clock /\ known[u] \in 0 .. Len(rows)
  BY <1>0 DEF TypeOK
<1>7. /\ Larger(watermark[u], mark[k].time) \in 0 .. clock
      /\ Larger(known[u], mark[k].upto) \in 0 .. Len(rows)
      /\ Larger(known[u], mark[k].upto) >= known[u]
      /\ Larger(known[u], mark[k].upto) >= mark[k].upto
  BY <1>0, <1>3, <1>5, <1>6 DEF Larger
<1>8. /\ watermark' \in [User -> 0 .. clock] /\ known' \in [User -> 0 .. Len(rows)]
      /\ \A v \in User \ {u} : watermark'[v] = watermark[v] /\ known'[v] = known[v]
      /\ watermark'[u] = Larger(watermark[u], mark[k].time)
      /\ known'[u] = Larger(known[u], mark[k].upto)
  BY <1>0, <1>7 DEF TypeOK
<1>9. TypeOK'
  BY <1>0, <1>2, <1>8 DEF TypeOK
<1>10. MarksFound'
  BY <1>0, <1>1, <1>2 DEF ReadInv, MarksFound
<1>11. WatermarksFound'
  <2>1. watermark'[u] = 0 \/ \E i \in 1 .. known'[u] : watermark'[u] = stamp[rows[i]]
    <3>1. CASE watermark'[u] = mark[k].time
      <4>1. j \in 1 .. known'[u]
        BY <1>3, <1>4, <1>6, <1>7, <1>8
      <4>2. QED
        BY <1>4, <3>1, <4>1
    <3>2. CASE watermark'[u] = watermark[u]
      <4>1. watermark[u] = 0 \/ \E i \in 1 .. known[u] : watermark[u] = stamp[rows[i]]
        BY <1>0 DEF ReadInv, WatermarksFound
      <4>2. \A i \in 1 .. known[u] : i \in 1 .. known'[u]
        BY <1>3, <1>6, <1>7, <1>8
      <4>3. QED
        BY <3>2, <4>1, <4>2
    <3>3. QED
      BY <1>8, <3>1, <3>2 DEF Larger
  <2>2. QED
    BY <1>0, <1>8, <2>1 DEF ReadInv, WatermarksFound
<1>12. QED
  BY <1>0, <1>9, <1>10, <1>11, ReadStep DEF ReadInv

LEMMA ChatStep == ChatInv /\ [Next]_vars => ChatInv'
<1> SUFFICES ASSUME ChatInv, [Next]_vars PROVE ChatInv'
  OBVIOUS
<1>1. CASE OpenRoom
  BY <1>1, RoomInv DEF OpenRoom, ChatInv, TypeOK
<1>2. ASSUME NEW u \in Blocker, Block(u) \/ Unblock(u)
      PROVE  ChatInv'
  <2>1. blocks' \subseteq User /\ room' \in BOOLEAN
        /\ UNCHANGED <<sendVars, pushVars, readVars>>
    BY <1>2, ChatAssumption DEF Block, Unblock, ChatInv, TypeOK
  <2>2. QED
    BY <2>1, RoomInv
<1>3. ASSUME NEW r \in Request, Admit(r) \/ Serve(r) \/ Lose(r)
      PROVE  ChatInv'
  BY <1>3, AdmitInv, InsertInv, InsertAfterWaitInv, CommitInv, RelayInv, LoseInv DEF Serve
<1>4. ASSUME NEW r \in Request, NEW p \in Replica, BusDeliver(r, p)
      PROVE  ChatInv'
  BY <1>4, BusDeliverInv
<1>5. ASSUME NEW r \in Impatient, Cancel(r)
      PROVE  ChatInv'
  BY <1>5, CancelInv, ChatAssumption
<1>6. ASSUME NEW s \in Socket, Connect(s) \/ Receive(s) \/ Close(s)
      PROVE  ChatInv'
  BY <1>6, ConnectInv, ReceiveInv, CloseInv
<1>7. ASSUME NEW k \in Mark, FindMessage(k) \/ MarkRead(k)
      PROVE  ChatInv'
  BY <1>7, FindMessageInv, MarkReadInv
<1>8. CASE UNCHANGED vars
  BY <1>8, RoomInv DEF vars, sendVars, pushVars, readVars, ChatInv, TypeOK
<1>9. QED
  BY <1>1, <1>2, <1>3, <1>4, <1>5, <1>6, <1>7, <1>8 DEF Next

LEMMA ChatInvariant == Spec => []ChatInv
BY ChatInit, ChatStep, PTL DEF Spec

(* The room's state keeps its type, and no queue exceeds its capacity      *)
(* (broadcast_chat_message, handle_socket).                                *)
THEOREM ChatTypes == Spec => []TypeOK
<1>1. ChatInv => TypeOK
  BY DEF ChatInv
<1>2. QED
  BY <1>1, ChatInvariant, PTL

(* A message that a member has not seen counts as unread, unless it was    *)
(* overtaken (mark_read, mark_room_read, list_rooms).                      *)
THEOREM NothingSlips == Spec => []NothingSlipsBy
<1>1. ASSUME ChatInv, NEW u \in User, NEW i \in DOMAIN rows,
             Sender[rows[i]] # u, rows[i] \notin Unread(u), ~(i <= known[u])
      PROVE  \E j \in 1 .. i - 1 : stamp[rows[j]] > stamp[rows[i]]
  <2>0. /\ TypeOK /\ KeptInv /\ ReadInv
        /\ DOMAIN rows = 1 .. Len(rows) /\ Len(rows) \in Nat /\ Stored \subseteq Request
        /\ \A j \in DOMAIN rows : rows[j] \in Stored
    BY <1>1, StoredRows DEF ChatInv
  <2>1. /\ rows[i] \in Stored /\ stamp[rows[i]] \in Nat /\ stamp[rows[i]] > 0
        /\ watermark[u] \in Nat /\ known[u] \in 0 .. Len(rows)
    BY <1>1, <2>0 DEF KeptInv, StoredSent, TypeOK
  <2>2. stamp[rows[i]] <= watermark[u]
    BY <1>1, <2>1 DEF Unread
  <2>3. PICK j \in 1 .. known[u] : watermark[u] = stamp[rows[j]]
    BY <2>0, <2>1, <2>2 DEF ReadInv, WatermarksFound
  <2>4. j \in DOMAIN rows /\ j \in 1 .. i - 1
    BY <1>1, <2>0, <2>1
  <2>5. rows[i] # rows[j]
    BY <1>1, <2>0, <2>4 DEF KeptInv, KeysOnce
  <2>6. stamp[rows[j]] # stamp[rows[i]]
    BY <1>1, <2>0, <2>1, <2>4, <2>5 DEF KeptInv, TimesApart
  <2>7. QED
    BY <2>1, <2>2, <2>3, <2>4, <2>6
<1>2. ChatInv => NothingSlipsBy
  BY <1>1 DEF NothingSlipsBy
<1>3. QED
  BY <1>2, ChatInvariant, PTL

-----------------------------------------------------------------------------
(* The time of a stored message is fixed, and a watermark only rises.      *)
LEMMA TimesFixed ==
  ASSUME ChatInv, [Next]_vars, NEW m \in Stored
  PROVE  stamp'[m] = stamp[m]
<1>1. m \in Request /\ send[m] \in {"relay", "done", "cut"} /\ stamp \in [Request -> 0 .. clock]
  BY StoredRows DEF ChatInv, KeptInv, StoredSent, TypeOK
<1>2. ASSUME NEW r \in Request, Insert(r)
      PROVE  stamp'[m] = stamp[m]
  BY <1>1, <1>2 DEF Insert, At
<1>3. (\E r \in Request : Insert(r)) \/ UNCHANGED stamp
  BY ChatAssumption
  DEF Next, Serve, OpenRoom, Block, Unblock, Admit, InsertAfterWait, Commit, Relay, Lose,
      BusDeliver, Cancel, Connect, Receive, Close, FindMessage, MarkRead, vars, sendVars
<1>4. QED
  BY <1>2, <1>3

LEMMA WatermarksRise ==
  ASSUME ChatInv, [Next]_vars, NEW u \in User
  PROVE  watermark[u] \in Nat /\ watermark'[u] \in Nat /\ watermark'[u] >= watermark[u]
<1>1. watermark[u] \in Nat /\ watermark'[u] \in Nat
  BY ChatStep DEF ChatInv, TypeOK
<1>2. ASSUME NEW k \in Mark, MarkRead(k)
      PROVE  watermark'[u] >= watermark[u]
  <2>1. mark[k].time \in Nat /\ watermark \in [User -> 0 .. clock]
    BY DEF ChatInv, TypeOK, Reading
  <2>2. watermark' = [watermark EXCEPT ![Reader[k]] = Larger(@, mark[k].time)]
    BY <1>2 DEF MarkRead
  <2>3. QED
    BY <1>1, <2>1, <2>2 DEF Larger
<1>3. (\E k \in Mark : MarkRead(k)) \/ UNCHANGED watermark
  BY DEF Next, Serve, OpenRoom, Block, Unblock, Admit, Insert, InsertAfterWait, Commit, Relay,
         Lose, BusDeliver, Cancel, Connect, Receive, Close, FindMessage, vars, readVars
<1>4. QED
  BY <1>1, <1>2, <1>3

(* What was read does not become unread, in whatever order the requests    *)
(* that mark it are carried out (mark_room_read).                          *)
THEOREM ReadStays == Spec => ReadStaysRead
<1> DEFINE Step == \A u \in User : \A m \in Stored : m \notin Unread(u) => m \notin Unread(u)'
<1>1. ChatInv /\ [Next]_vars => [Step]_vars
  <2>1. ASSUME ChatInv, [Next]_vars, NEW u \in User, NEW m \in Stored, m \notin Unread(u)
        PROVE  m \notin Unread(u)'
    <3>1. stamp'[m] = stamp[m] /\ stamp[m] \in Nat
      <4>1. m \in Request /\ stamp \in [Request -> 0 .. clock] /\ clock \in Nat
        BY <2>1, StoredRows DEF ChatInv, TypeOK
      <4>2. QED
        BY <2>1, <4>1, TimesFixed
    <3>2. watermark[u] \in Nat /\ watermark'[u] \in Nat /\ watermark'[u] >= watermark[u]
      BY <2>1, WatermarksRise
    <3>3. QED
      BY <2>1, <3>1, <3>2 DEF Unread
  <2>2. QED
    BY <2>1
<1>2. QED
  BY <1>1, ChatInvariant, PTL DEF Spec, ReadStaysRead

-----------------------------------------------------------------------------
(* Chat implements Conversation: a commit says, a connection shows, and    *)
(* every other step is none of the conversation's.                         *)
LEMMA Says ==
  ASSUME ChatInv, NEW r \in Request, At(r, "held"), rows' = Append(rows, r), shown' = shown
  PROVE  Promise!Next
<1>1. \A n \in Promise!Items(rows) : Key[n] # Key[r]
  BY DEF ChatInv, KeptInv, HeldApart, KeyStored, Stored, Items, Promise!Items
<1>2. Promise!Say(r)
  BY <1>1 DEF Promise!Say
<1>3. QED
  BY <1>2 DEF Promise!Next

LEMMA Shows ==
  ASSUME ChatInv, NEW s \in Socket, Receive(s)
  PROVE  Promise!Next \/ UNCHANGED <<rows, shown>>
<1> DEFINE m == Head(queue[s])
<1>1. m \in Stored /\ m \notin Items(shown[s]) /\ m \in Request
  BY Received, StoredRows DEF ChatInv
<1>2. rows' = rows
  BY DEF Receive, sendVars
<1>3. CASE shown' = [shown EXCEPT ![s] = Append(@, m)]
  <2>1. Promise!Show(s, m)
    BY <1>1, <1>2, <1>3 DEF Promise!Show, Promise!Items, Items, Stored
  <2>2. QED
    BY <1>1, <2>1 DEF Promise!Next
<1>4. CASE UNCHANGED shown
  BY <1>2, <1>4
<1>5. QED
  BY <1>3, <1>4 DEF Receive

(* Whatever is retried, what is said is stored once, and each connection   *)
(* shows only what is stored, each message once (persist_chat_message,     *)
(* broadcast_chat_message, handle_socket).                                 *)
THEOREM KeepsPromise == Spec => KeptAndShownOnce
<1>1. Init => Promise!Init
  BY DEF Init, Promise!Init
<1>2. ChatInv /\ [Next]_vars => [Promise!Next]_(Promise!vars)
  <2> SUFFICES ASSUME ChatInv, [Next]_vars
               PROVE  Promise!Next \/ UNCHANGED <<rows, shown>>
    BY DEF Promise!vars
  <2>1. ASSUME NEW r \in Request, Commit(r)
        PROVE  Promise!Next
    BY <2>1, Says DEF Commit, pushVars
  <2>2. ASSUME NEW r \in Impatient, Cancel(r)
        PROVE  Promise!Next \/ UNCHANGED <<rows, shown>>
    BY <2>2, Says, ChatAssumption DEF Cancel, pushVars
  <2>3. ASSUME NEW s \in Socket, Receive(s)
        PROVE  Promise!Next \/ UNCHANGED <<rows, shown>>
    BY <2>3, Shows
  <2>4. \/ \E r \in Request : Commit(r)
        \/ \E r \in Impatient : Cancel(r)
        \/ \E s \in Socket : Receive(s)
        \/ UNCHANGED <<rows, shown>>
    BY DEF Next, Serve, OpenRoom, Block, Unblock, Admit, Insert, InsertAfterWait, Relay, Lose,
           BusDeliver, Connect, Close, FindMessage, MarkRead, vars, sendVars, pushVars
  <2>5. QED
    BY <2>1, <2>2, <2>3, <2>4
<1>3. QED
  BY <1>1, <1>2, ChatInvariant, PTL DEF Spec, KeptAndShownOnce, Promise!Spec
=============================================================================
