------------------------- MODULE PostCreationProofs -------------------------
(***************************************************************************)
(* The creation of posts, proved for any requests, keys and uploads.       *)
(***************************************************************************)
EXTENDS PostCreation, TLAPS

Holding == {"media", "insert", "commit"}

(* What a request is bound to by where it is.                              *)
PlaceOK(r) ==
  /\ req[r].pc \notin Holding => req[r].used = 0
  /\ req[r].pc \in {"insert", "commit"} => req[r].used = Len(Uses[r])
  /\ answer[r] # "none" => req[r].pc = "done"
  /\ r \in posts => answer[r] = "created"

(* A request that has inserted its post has the key for itself.            *)
KeyOK(r) ==
  At(r, "commit") =>
    /\ Published(r) = {}
    /\ \A s \in Namesakes(r) : At(s, "commit") => s = r

(* What it has consumed is its own.                                        *)
HeldOK(r) ==
  /\ Held(r) \cap consumed = {}
  /\ \A s \in Request : s # r => Held(r) \cap Held(s) = {}

IInv ==
  /\ TypeOK
  /\ \A r \in Request : PlaceOK(r) /\ KeyOK(r) /\ HeldOK(r)
  /\ OnePostPerKey
  /\ MediaUsedOnce
  /\ ConsumedIsShown

LEMMA UsesType ==
  ASSUME NEW r \in Request
  PROVE  /\ Uses[r] \in Seq(Media)
         /\ Len(Uses[r]) \in Nat
         /\ DOMAIN Uses[r] = 1 .. Len(Uses[r])
         /\ \A i \in 1 .. Len(Uses[r]) : Uses[r][i] \in Media
<1>1. Uses[r] \in Seq(Media)
  BY PostAssumption
<1>2. QED
  BY <1>1

LEMMA HeldInMedia ==
  ASSUME NEW r \in Request, req[r].used \in Nat, req[r].used <= Len(Uses[r])
  PROVE  Held(r) \subseteq Media
<1>1. \A i \in 1 .. req[r].used : i \in 1 .. Len(Uses[r])
  BY UsesType
<1>2. QED
  BY <1>1, UsesType DEF Held

LEMMA HeldAll ==
  ASSUME NEW r \in Request, req[r].used = Len(Uses[r])
  PROVE  Held(r) = MediaOf(r)
BY UsesType DEF Held, MediaOf

(***************************************************************************)
(* How a step of one request changes what it holds.                        *)
(***************************************************************************)
LEMMA GoToHeld ==
  ASSUME TypeOK, NEW r \in Request, NEW pc \in Place, GoTo(r, pc)
  PROVE  /\ req' \in [Request -> Progress]
         /\ req'[r].pc = pc /\ req'[r].used = req[r].used
         /\ \A s \in Request : s # r => req'[s] = req[s]
         /\ \A s \in Request : Held(s)' = Held(s)
<1>1. /\ req' \in [Request -> Progress]
      /\ req'[r].pc = pc /\ req'[r].used = req[r].used
      /\ \A s \in Request : s # r => req'[s] = req[s]
  BY DEF TypeOK, GoTo, Progress
<1>2. QED
  BY <1>1 DEF Held

LEMMA CloseHeld ==
  ASSUME TypeOK, NEW r \in Request, Close(r)
  PROVE  /\ req' \in [Request -> Progress]
         /\ req'[r].pc = "done" /\ req'[r].used = 0
         /\ \A s \in Request : s # r => req'[s] = req[s]
         /\ Held(r)' = {}
         /\ \A s \in Request : s # r => Held(s)' = Held(s)
<1>1. /\ req' \in [Request -> Progress]
      /\ req'[r].pc = "done" /\ req'[r].used = 0
      /\ \A s \in Request : s # r => req'[s] = req[s]
  BY DEF TypeOK, Close, Progress, Place
<1>2. Held(r)' = {}
  BY <1>1 DEF Held
<1>3. QED
  BY <1>1, <1>2 DEF Held

LEMMA ConsumeHeld ==
  ASSUME TypeOK, NEW r \in Request, Needs(r), req' = [req EXCEPT ![r].used = @ + 1]
  PROVE  /\ req' \in [Request -> Progress]
         /\ req'[r].pc = "media" /\ req'[r].used = req[r].used + 1
         /\ req'[r].used <= Len(Uses[r])
         /\ \A s \in Request : s # r => req'[s] = req[s]
         /\ Held(r)' = Held(r) \cup {Needed(r)}
         /\ \A s \in Request : s # r => Held(s)' = Held(s)
<1>1. /\ req' \in [Request -> Progress]
      /\ req'[r].pc = "media" /\ req'[r].used = req[r].used + 1
      /\ \A s \in Request : s # r => req'[s] = req[s]
      /\ req[r].used \in Nat
  <2>1. req[r] \in Progress /\ req[r].used \in Nat /\ req[r].pc = "media"
    BY DEF TypeOK, Needs, At, Progress
  <2>2. [req[r] EXCEPT !.used = @ + 1] \in Progress
    BY <2>1 DEF Progress
  <2>3. req' = [req EXCEPT ![r] = [req[r] EXCEPT !.used = @ + 1]]
    OBVIOUS
  <2>4. req'[r] = [req[r] EXCEPT !.used = @ + 1]
    BY <2>3 DEF TypeOK
  <2>5. req'[r].pc = "media" /\ req'[r].used = req[r].used + 1
    BY <2>1, <2>4 DEF Progress
  <2>6. QED
    BY <2>1, <2>2, <2>3, <2>5 DEF TypeOK
<1>2. req'[r].used <= Len(Uses[r])
  BY <1>1, UsesType DEF Needs
<1>3. Held(r)' = Held(r) \cup {Needed(r)}
  BY <1>1 DEF Held, Needed
<1>4. QED
  BY <1>1, <1>2, <1>3 DEF Held

(***************************************************************************)
(* A request that is answered without having created anything.             *)
(***************************************************************************)
LEMMA ReplyKeeps ==
  ASSUME IInv, NEW r \in Request, req[r].pc # "done",
         NEW a \in {"replayed", "refused", "invalid", "error"}, Reply(r, a),
         UNCHANGED <<posts, consumed, expired>>,
         fanned' \subseteq posts, geocode' \subseteq posts, recent' \subseteq Limited
  PROVE  IInv'
<1>1. /\ req' \in [Request -> Progress]
      /\ req'[r].pc = "done" /\ req'[r].used = 0
      /\ \A s \in Request : s # r => req'[s] = req[s]
      /\ Held(r)' = {}
      /\ \A s \in Request : s # r => Held(s)' = Held(s)
  BY CloseHeld DEF IInv, Reply
<1>2. /\ answer' \in [Request -> Answer]
      /\ answer'[r] = a
      /\ \A s \in Request : s # r => answer'[s] = answer[s]
  BY DEF IInv, TypeOK, Reply, Answer
<1>3. r \notin posts /\ answer[r] # "created"
  BY DEF IInv, PlaceOK
<1>4. Created' = Created
  BY <1>2, <1>3 DEF Created
<1>5. TypeOK'
  BY <1>1, <1>2, UsesType DEF IInv, TypeOK
<1>6. ASSUME NEW s \in Request PROVE (PlaceOK(s) /\ KeyOK(s) /\ HeldOK(s))'
  <2>1. PlaceOK(s)'
    BY <1>1, <1>2, <1>3 DEF IInv, PlaceOK, Holding
  <2>2. KeyOK(s)'
    BY <1>1 DEF IInv, KeyOK, At, Published, Namesakes
  <2>3. HeldOK(s)'
    BY <1>1 DEF IInv, HeldOK
  <2>4. QED
    BY <2>1, <2>2, <2>3
<1>7. OnePostPerKey' /\ MediaUsedOnce' /\ ConsumedIsShown'
  BY <1>4 DEF IInv, OnePostPerKey, MediaUsedOnce, ConsumedIsShown, MediaOf
<1>8. QED
  BY <1>5, <1>6, <1>7 DEF IInv

(* A request that goes on without having created anything.                 *)
LEMMA StepKeeps ==
  ASSUME IInv, NEW r \in Request, req[r].pc # "done",
         UNCHANGED <<answer, posts, consumed, expired, fanned, geocode>>,
         recent' \subseteq Limited,
         req' \in [Request -> Progress],
         req'[r].used <= Len(Uses[r]),
         req'[r].pc \notin Holding => req'[r].used = 0,
         req'[r].pc \in {"insert", "commit"} => req'[r].used = Len(Uses[r]),
         req'[r].pc = "commit" =>
           /\ Published(r) = {}
           /\ \A s \in Namesakes(r) : ~At(s, "commit"),
         \A s \in Request : s # r => req'[s] = req[s],
         Held(r)' \cap consumed = {},
         \A s \in Request : s # r => Held(s)' = Held(s) /\ Held(r)' \cap Held(s) = {}
  PROVE  IInv'
<1>1. TypeOK'
  BY DEF IInv, TypeOK
<1>2. answer[r] = "none"
  BY DEF IInv, PlaceOK
<1>3. ASSUME NEW s \in Request PROVE (PlaceOK(s) /\ KeyOK(s) /\ HeldOK(s))'
  <2>1. PlaceOK(s)'
    BY <1>2 DEF IInv, PlaceOK
  <2>2. KeyOK(s)'
    <3> SUFFICES ASSUME req'[s].pc = "commit"
                 PROVE  /\ Published(s) = {}
                        /\ \A t \in Namesakes(s) : req'[t].pc = "commit" => t = s
      BY DEF KeyOK, At, Published, Namesakes
    <3>1. CASE s = r
      BY <3>1 DEF At, Namesakes
    <3>2. CASE s # r
      <4>1. /\ Published(s) = {}
            /\ \A t \in Namesakes(s) : At(t, "commit") => t = s
        BY <3>2 DEF IInv, KeyOK, At
      <4>2. ~(r \in Namesakes(s) /\ req'[r].pc = "commit")
        BY <3>2 DEF At, Namesakes
      <4>3. QED
        BY <4>1, <4>2 DEF At, Namesakes
    <3>3. QED
      BY <3>1, <3>2
  <2>3. HeldOK(s)'
    BY DEF IInv, HeldOK
  <2>4. QED
    BY <2>1, <2>2, <2>3
<1>4. OnePostPerKey' /\ MediaUsedOnce' /\ ConsumedIsShown'
  <2>1. Created' = Created
    BY DEF Created
  <2>2. QED
    BY <2>1 DEF IInv, OnePostPerKey, MediaUsedOnce, ConsumedIsShown, MediaOf
<1>5. QED
  BY <1>1, <1>3, <1>4 DEF IInv

LEMMA GoToKeeps ==
  ASSUME IInv, NEW r \in Request, req[r].pc # "done", NEW pc \in Place, GoTo(r, pc),
         UNCHANGED <<answer, posts, consumed, expired, fanned, geocode, recent>>,
         pc \notin Holding => req[r].used = 0,
         pc \in {"insert", "commit"} => req[r].used = Len(Uses[r]),
         pc = "commit" =>
           /\ Published(r) = {}
           /\ \A s \in Namesakes(r) : ~At(s, "commit")
  PROVE  IInv'
<1>1. /\ req' \in [Request -> Progress]
      /\ req'[r].pc = pc /\ req'[r].used = req[r].used
      /\ \A s \in Request : s # r => req'[s] = req[s]
      /\ \A s \in Request : Held(s)' = Held(s)
  BY GoToHeld DEF IInv
<1>2. /\ req[r].used <= Len(Uses[r])
      /\ Held(r) \cap consumed = {}
      /\ \A s \in Request : s # r => Held(r) \cap Held(s) = {}
      /\ recent \subseteq Limited
  BY DEF IInv, TypeOK, HeldOK
<1>3. QED
  BY <1>1, <1>2, StepKeeps

(***************************************************************************)
(* One lemma for every action of a request.                                *)
(***************************************************************************)
LEMMA LookupKeeps == ASSUME IInv, NEW r \in Request, Lookup(r) PROVE IInv'
<1>1. CASE Published(r) # {}
  BY <1>1, ReplyKeeps DEF Lookup, At, IInv, TypeOK
<1>2. CASE Published(r) = {}
  <2>1. req[r].used = 0
    BY DEF Lookup, At, IInv, PlaceOK, Holding
  <2>2. GoTo(r, "text") /\ UNCHANGED answer
    BY <1>2 DEF Lookup
  <2>3. QED
    BY <2>1, <2>2, GoToKeeps DEF Lookup, At, Place
<1>3. QED
  BY <1>1, <1>2

LEMMA TextKeeps == ASSUME IInv, NEW r \in Request, Text(r) PROVE IInv'
<1>1. recent' \subseteq Limited
  BY DEF Text, IInv, TypeOK
<1>2. CASE KeyOf[r] \in recent
  BY <1>1, <1>2, ReplyKeeps DEF Text, At, IInv, TypeOK
<1>3. CASE KeyOf[r] \notin recent
  <2> DEFINE x == [req[r] EXCEPT !.pc = "media", !.live = Media \ expired]
  <2>1. req[r] \in Progress /\ req[r].pc = "text" /\ req[r].used = 0
    BY DEF Text, At, IInv, TypeOK, PlaceOK, Holding
  <2>2. x \in Progress /\ x.pc = "media" /\ x.used = 0
    BY <2>1 DEF Progress, Place
  <2>3. req' = [req EXCEPT ![r] = x] /\ UNCHANGED answer
    BY <1>3 DEF Text
  <2> HIDE DEF x
  <2>4. /\ req' \in [Request -> Progress]
        /\ req'[r] = x
        /\ \A s \in Request : s # r => req'[s] = req[s]
    BY <2>2, <2>3 DEF IInv, TypeOK
  <2>5. Held(r)' = {} /\ \A s \in Request : s # r => Held(s)' = Held(s)
    BY <2>2, <2>4 DEF Held
  <2>6. req'[r].used <= Len(Uses[r])
    BY <2>2, <2>4, UsesType
  <2>7. QED
    BY <1>1, <2>1, <2>2, <2>3, <2>4, <2>5, <2>6, StepKeeps DEF Text, Holding
<1>4. QED
  BY <1>2, <1>3

LEMMA ConsumeKeeps == ASSUME IInv, NEW r \in Request, Consume(r) PROVE IInv'
<1>0. /\ Needs(r) /\ TypeOK /\ req[r].pc = "media"
      /\ recent \subseteq Limited
  BY DEF Consume, Needs, At, IInv, TypeOK
<1>1. CASE Needed(r) \in req[r].live \ (consumed \cup Held(r))
  <2>1. /\ req' \in [Request -> Progress]
        /\ req'[r].pc = "media"
        /\ req'[r].used <= Len(Uses[r])
        /\ \A s \in Request : s # r => req'[s] = req[s]
        /\ Held(r)' = Held(r) \cup {Needed(r)}
        /\ \A s \in Request : s # r => Held(s)' = Held(s)
    BY <1>0, <1>1, ConsumeHeld DEF Consume
  <2>2. Held(r)' \cap consumed = {}
    BY <1>1, <2>1 DEF IInv, HeldOK
  <2>3. ASSUME NEW s \in Request, s # r PROVE Held(r)' \cap Held(s) = {}
    <3>1. Held(r) \cap Held(s) = {}
      BY <2>3 DEF IInv, HeldOK
    <3>2. Needed(r) \notin Held(s)
      BY <1>0, <2>3 DEF Consume, WaitsFor
    <3>3. QED
      BY <2>1, <3>1, <3>2
  <2>4. QED
    BY <1>0, <1>1, <2>1, <2>2, <2>3, StepKeeps DEF Consume, Holding
<1>2. CASE Needed(r) \notin req[r].live \ (consumed \cup Held(r))
  BY <1>0, <1>2, ReplyKeeps DEF Consume, TypeOK
<1>3. QED
  BY <1>1, <1>2

LEMMA InsertKeeps == ASSUME IInv, NEW r \in Request, Insert(r) PROVE IInv'
<1>0. /\ req[r].pc = "insert" /\ req[r].used = Len(Uses[r])
      /\ recent \subseteq Limited /\ req[r] \in Progress
  BY DEF Insert, At, IInv, TypeOK, PlaceOK
<1>1. CASE Published(r) # {}
  <2> DEFINE x == [req[r] EXCEPT !.pc = "replay", !.used = 0]
  <2>1. x \in Progress /\ x.pc = "replay" /\ x.used = 0
    BY <1>0 DEF Progress, Place
  <2>2. req' = [req EXCEPT ![r] = x]
    BY <1>1 DEF Insert
  <2> HIDE DEF x
  <2>3. /\ req' \in [Request -> Progress]
        /\ req'[r] = x
        /\ \A s \in Request : s # r => req'[s] = req[s]
    BY <2>1, <2>2 DEF IInv, TypeOK
  <2>4. Held(r)' = {} /\ \A s \in Request : s # r => Held(s)' = Held(s)
    BY <2>1, <2>3 DEF Held
  <2>5. req'[r].used <= Len(Uses[r])
    BY <2>1, <2>3, UsesType
  <2>6. QED
    BY <1>0, <2>1, <2>3, <2>4, <2>5, StepKeeps DEF Insert
<1>2. CASE Published(r) = {}
  <2>1. GoTo(r, "commit") /\ \A s \in Namesakes(r) : ~At(s, "commit")
    BY <1>2 DEF Insert
  <2>2. QED
    BY <1>0, <1>2, <2>1, GoToKeeps DEF Insert, Place, Holding
<1>3. QED
  BY <1>1, <1>2

LEMMA CommitKeeps == ASSUME IInv, NEW r \in Request, Commit(r) PROVE IInv'
<1>1. /\ req' \in [Request -> Progress]
      /\ req'[r].pc = "done" /\ req'[r].used = 0
      /\ \A s \in Request : s # r => req'[s] = req[s]
      /\ Held(r)' = {}
      /\ \A s \in Request : s # r => Held(s)' = Held(s)
  BY CloseHeld DEF IInv, Commit, Reply
<1>2. /\ answer' \in [Request -> Answer]
      /\ answer'[r] = "created"
      /\ \A s \in Request : s # r => answer'[s] = answer[s]
  BY DEF IInv, TypeOK, Commit, Reply, Answer
<1>3. /\ req[r].pc = "commit" /\ req[r].used = Len(Uses[r])
      /\ answer[r] = "none" /\ r \notin posts
      /\ Published(r) = {}
      /\ \A s \in Namesakes(r) : At(s, "commit") => s = r
  BY DEF IInv, Commit, At, PlaceOK, KeyOK
<1>4. Held(r) = MediaOf(r) /\ Held(r) \subseteq Media
  BY <1>3, HeldAll, HeldInMedia, UsesType
<1>5. Created' = Created \cup {r} /\ r \notin Created
  BY <1>2, <1>3 DEF Created
<1>6. posts' = posts \cup {r} /\ consumed' = consumed \cup Held(r)
  BY DEF Commit
<1>7. TypeOK'
  BY <1>1, <1>2, <1>4, <1>6, UsesType DEF IInv, TypeOK, Commit
<1>8. ASSUME NEW s \in Request PROVE (PlaceOK(s) /\ KeyOK(s) /\ HeldOK(s))'
  <2>1. PlaceOK(s)'
    BY <1>1, <1>2, <1>6 DEF IInv, PlaceOK, Holding
  <2>2. KeyOK(s)'
    <3>1. ASSUME req'[s].pc = "commit"
          PROVE  s # r /\ s \notin Namesakes(r) /\ r \notin Namesakes(s)
      BY <1>1, <1>3, <3>1 DEF At, Namesakes
    <3>2. QED
      BY <1>1, <1>6, <3>1 DEF IInv, KeyOK, At, Published, Namesakes
  <2>3. HeldOK(s)'
    BY <1>1, <1>6 DEF IInv, HeldOK
  <2>4. QED
    BY <2>1, <2>2, <2>3
<1>9. OnePostPerKey'
  BY <1>3, <1>6 DEF IInv, TypeOK, OnePostPerKey, Published, Namesakes
<1>10. MediaUsedOnce'
  <2>1. \A s \in Created : MediaOf(s) \cap MediaOf(r) = {}
    BY <1>4 DEF IInv, ConsumedIsShown, HeldOK
  <2>2. QED
    BY <1>5, <2>1 DEF IInv, MediaUsedOnce, MediaOf
<1>11. ConsumedIsShown'
  BY <1>4, <1>5, <1>6 DEF IInv, ConsumedIsShown, MediaOf
<1>12. QED
  BY <1>7, <1>8, <1>9, <1>10, <1>11 DEF IInv

LEMMA ReplayKeeps == ASSUME IInv, NEW r \in Request, Replay(r) PROVE IInv'
<1>1. /\ req[r].pc # "done"
      /\ fanned' \subseteq posts /\ geocode' \subseteq posts /\ recent' \subseteq Limited
      /\ UNCHANGED <<posts, consumed, expired>>
  BY DEF Replay, At, Published, IInv, TypeOK
<1>2. Reply(r, "replayed") \/ Reply(r, "error")
  BY DEF Replay
<1>3. QED
  BY <1>1, <1>2, ReplyKeeps

LEMMA AbortKeeps == ASSUME IInv, NEW r \in Request, Abort(r) PROVE IInv'
BY ReplyKeeps DEF Abort, IInv, TypeOK

LEMMA AllConsumedKeeps == ASSUME IInv, NEW r \in Request, AllConsumed(r) PROVE IInv'
<1>1. /\ req[r].pc = "media" /\ req[r].used = Len(Uses[r]) /\ GoTo(r, "insert")
      /\ UNCHANGED <<answer, posts, consumed, expired, fanned, geocode, recent>>
  BY DEF AllConsumed, At
<1>2. QED
  BY <1>1, GoToKeeps DEF Place, Holding

LEMMA DeleteKeeps == ASSUME IInv, NEW r \in Request, Delete(r) PROVE IInv'
<1>1. /\ posts' = posts \ {r}
      /\ UNCHANGED <<req, answer, consumed, expired, recent>>
  BY DEF Delete
<1>2. TypeOK'
  BY <1>1 DEF Delete, IInv, TypeOK
<1>3. ASSUME NEW s \in Request PROVE (PlaceOK(s) /\ KeyOK(s) /\ HeldOK(s))'
  BY <1>1 DEF IInv, PlaceOK, KeyOK, HeldOK, Held, At, Published, Namesakes
<1>4. Created' = Created
  BY <1>1 DEF Created
<1>5. QED
  BY <1>1, <1>2, <1>3, <1>4
     DEF IInv, OnePostPerKey, MediaUsedOnce, ConsumedIsShown, MediaOf

(* The clock, and steps that change nothing.                               *)
LEMMA ClockKeeps ==
  ASSUME IInv, UNCHANGED <<req, answer, posts, consumed, fanned, geocode>>,
         expired' \subseteq Media, recent' \subseteq Limited
  PROVE  IInv'
<1>1. TypeOK'
  BY DEF IInv, TypeOK
<1>2. ASSUME NEW s \in Request PROVE (PlaceOK(s) /\ KeyOK(s) /\ HeldOK(s))'
  BY DEF IInv, PlaceOK, KeyOK, HeldOK, Held, At, Published, Namesakes
<1>3. Created' = Created
  BY DEF Created
<1>4. QED
  BY <1>1, <1>2, <1>3 DEF IInv, OnePostPerKey, MediaUsedOnce, ConsumedIsShown, MediaOf

LEMMA InitIInv == Init => IInv
<1> SUFFICES ASSUME Init PROVE IInv
  OBVIOUS
<1>1. TypeOK
  <2>1. \A r \in Request : req[r].used = 0
    BY DEF Init
  <2>2. ASSUME NEW r \in Request PROVE req[r].used <= Len(Uses[r])
    <3>1. Len(Uses[r]) \in Nat
      BY UsesType
    <3>2. QED
      BY <2>1, <3>1
  <2>3. QED
    BY <2>2 DEF Init, TypeOK, Progress, Place, Answer
<1>2. ASSUME NEW r \in Request PROVE PlaceOK(r) /\ KeyOK(r) /\ HeldOK(r)
  <2>1. Held(r) = {}
    BY DEF Init, Held
  <2>2. QED
    BY <2>1 DEF Init, PlaceOK, KeyOK, HeldOK, At
<1>3. Created = {}
  BY DEF Init, Created
<1>4. QED
  BY <1>1, <1>2, <1>3 DEF Init, IInv, OnePostPerKey, MediaUsedOnce, ConsumedIsShown

LEMMA NextIInv == IInv /\ [Next]_vars => IInv'
<1> SUFFICES ASSUME IInv, [Next]_vars PROVE IInv'
  OBVIOUS
<1>1. ASSUME NEW r \in Request, Lookup(r) \/ Serve(r) \/ Abort(r) PROVE IInv'
  BY <1>1, LookupKeeps, TextKeeps, ConsumeKeeps, AllConsumedKeeps, InsertKeeps,
     CommitKeeps, ReplayKeeps, AbortKeeps DEF Serve, AbortDeadlocked
<1>2. ASSUME NEW r \in Request, Delete(r) PROVE IInv'
  BY <1>2, DeleteKeeps
<1>3. ASSUME NEW m \in Media, Expire(m) PROVE IInv'
  BY <1>3, ClockKeeps DEF Expire, IInv, TypeOK
<1>4. ASSUME NEW k \in Key, WindowPasses(k) PROVE IInv'
  BY <1>4, ClockKeeps DEF WindowPasses, IInv, TypeOK
<1>5. CASE UNCHANGED vars
  BY <1>5, ClockKeeps DEF vars, IInv, TypeOK
<1>6. QED
  BY <1>1, <1>2, <1>3, <1>4, <1>5 DEF Next

LEMMA Invariant == Spec => []IInv
BY InitIInv, NextIInv, PTL DEF Spec

(* The state keeps its type.                                               *)
THEOREM PostTypeCorrect == Spec => []TypeOK
<1>1. IInv => TypeOK
  BY DEF IInv
<1>2. QED
  BY <1>1, Invariant, PTL

(* However requests overlap, are retried, aborted or refused, a key never  *)
(* has two posts.                                                          *)
THEOREM KeysAreUnique == Spec => []OnePostPerKey
<1>1. IInv => OnePostPerKey
  BY DEF IInv
<1>2. QED
  BY <1>1, Invariant, PTL

(* An upload goes into one post, whatever requests compete for it and in   *)
(* whatever order.                                                         *)
THEOREM UploadsAreUsedOnce == Spec => []MediaUsedOnce
<1>1. IInv => MediaUsedOnce
  BY DEF IInv
<1>2. QED
  BY <1>1, Invariant, PTL

(* And it is used up by nothing but the creation of that post.             *)
THEOREM UploadsAreNotLost == Spec => []ConsumedIsShown
<1>1. IInv => ConsumedIsShown
  BY DEF IInv
<1>2. QED
  BY <1>1, Invariant, PTL

(* A post that is visible has its fan-out row and its geocoding job, if it *)
(* needs them (create_post, delete_post).                                  *)
THEOREM PostsFollowedUp == Spec => []PostsAreFollowedUp
<1>1. Init => PostsAreFollowedUp
  BY DEF Init, PostsAreFollowedUp
<1>2. ASSUME PostsAreFollowedUp, [Next]_vars PROVE PostsAreFollowedUp'
  <2>1. ASSUME NEW r \in Request, Commit(r) PROVE PostsAreFollowedUp'
    BY <1>2, <2>1 DEF Commit, PostsAreFollowedUp
  <2>2. ASSUME NEW r \in Request, Replay(r) PROVE PostsAreFollowedUp'
    BY <1>2, <2>2 DEF Replay, PostsAreFollowedUp
  <2>3. ASSUME NEW r \in Request, Delete(r) PROVE PostsAreFollowedUp'
    BY <1>2, <2>3 DEF Delete, PostsAreFollowedUp
  <2>4. \/ \E r \in Request : Commit(r) \/ Replay(r) \/ Delete(r)
        \/ UNCHANGED <<posts, fanned, geocode>>
    BY <1>2 DEF Next, Serve, Lookup, Text, Consume, AllConsumed, Insert, Abort,
                AbortDeadlocked, Expire, WindowPasses, vars
  <2>5. QED
    BY <1>2, <2>1, <2>2, <2>3, <2>4 DEF PostsAreFollowedUp
<1>3. QED
  BY <1>1, <1>2, PTL DEF Spec
=============================================================================
