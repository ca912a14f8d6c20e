------------------------- MODULE PushDeliveryProofs -------------------------
(***************************************************************************)
(* The push worker, proved for any number of jobs, tokens and replicas.    *)
(***************************************************************************)
EXTENDS PushDelivery, FiniteSetTheorems, TLAPS

(* Writing the fate of a message leaves a sequence of fates as long.       *)
LEMMA FateSeq ==
  ASSUME NEW s \in Seq(Fate), NEW n, NEW f \in Fate
  PROVE  /\ [s EXCEPT ![n] = f] \in Seq(Fate)
         /\ Len([s EXCEPT ![n] = f]) = Len(s)
<1> DEFINE t == [s EXCEPT ![n] = f]
<1>1. DOMAIN t = 1 .. Len(s) /\ Len(s) \in Nat
  OBVIOUS
<1>2. \A i \in 1 .. Len(s) : t[i] \in Fate
  OBVIOUS
<1>3. t \in [1 .. Len(s) -> Fate]
  BY <1>1, <1>2
<1>4. QED
  BY <1>1, <1>3

LEMMA SetFateType ==
  ASSUME message \in [Job -> Seq(Fate)], NEW j \in Job, NEW n, NEW f \in Fate,
         SetFate(j, n, f)
  PROVE  /\ message' \in [Job -> Seq(Fate)]
         /\ \A i \in Job : Len(message'[i]) = Len(message[i])
<1>1. message'[j] = [message[j] EXCEPT ![n] = f]
  BY DEF SetFate
<1>2. \A i \in Job : i # j => message'[i] = message[i]
  BY DEF SetFate
<1>3. message'[j] \in Seq(Fate) /\ Len(message'[j]) = Len(message[j])
  <2>1. message[j] \in Seq(Fate)
    OBVIOUS
  <2>2. /\ [message[j] EXCEPT ![n] = f] \in Seq(Fate)
        /\ Len([message[j] EXCEPT ![n] = f]) = Len(message[j])
    BY ONLY <2>1, FateSeq, f \in Fate
  <2>3. QED
    BY ONLY <1>1, <2>2
<1>4. QED
  BY <1>2, <1>3 DEF SetFate

(***************************************************************************)
(* Type correctness.                                                       *)
(***************************************************************************)
LEMMA InitType == Init => TypeOK
BY PushAssumption
   DEF Init, TypeOK, JobRow, Status, Flight, Stage, Landed, Fate

LEMMA LandedType == Landed \in Flight
BY DEF Landed, Flight, Stage

LEMMA FlightUpdate ==
  ASSUME TypeOK, NEW w \in Worker, NEW j \in Job, NEW f \in Flight
  PROVE  [flight EXCEPT ![w][j] = f] \in [Worker -> [Job -> Flight]]
<1>1. [flight[w] EXCEPT ![j] = f] \in [Job -> Flight]
  BY DEF TypeOK
<1>2. QED
  BY <1>1 DEF TypeOK

LEMMA FlightType ==
  ASSUME TypeOK, NEW w \in Worker, NEW j \in Job
  PROVE  /\ \A s \in Stage : MoveTo(w, j, s) => flight' \in [Worker -> [Job -> Flight]]
         /\ Land(w, j) => flight' \in [Worker -> [Job -> Flight]]
<1>1. flight[w][j] \in Flight
  BY DEF TypeOK
<1>2. ASSUME NEW s \in Stage, MoveTo(w, j, s)
      PROVE  flight' \in [Worker -> [Job -> Flight]]
  <2>1. [flight[w][j] EXCEPT !.stage = s] \in Flight
    BY <1>1 DEF Flight
  <2>2. QED
    BY <1>2, <2>1, FlightUpdate DEF MoveTo
<1>3. ASSUME Land(w, j)
      PROVE  flight' \in [Worker -> [Job -> Flight]]
  BY <1>3, LandedType, FlightUpdate DEF Land
<1>4. QED
  BY <1>2, <1>3

LEMMA DeliverType ==
  ASSUME TypeOK, NEW w \in Worker, NEW j \in Job, Deliver(w, j)
  PROVE  TypeOK'
<1> USE DEF TypeOK
<1>0. flight[w][j] \in Flight /\ job[j] \in JobRow
  OBVIOUS
<1>1. CASE Accept(w, j)
  <2>1. message' \in [Job -> Seq(Fate)]
    BY <1>1 DEF Accept, Fate
  <2>2. Len(message[j]) + 1 \in Nat
    OBVIOUS
  <2>3. flight' \in [Worker -> [Job -> Flight]]
    <3>1. [flight[w][j] EXCEPT !.stage = "ticket", !.msg = Len(message[j]) + 1]
            \in Flight
      BY <1>0, <2>2 DEF Flight, Stage
    <3>2. QED
      BY <1>1, <3>1, FlightUpdate DEF Accept
  <2>4. QED
    BY <1>1, <2>1, <2>3 DEF Accept
<1>2. CASE LoseAnswer(w, j)
  BY <1>2, SetFateType, FlightType DEF LoseAnswer, Fate, Stage
<1>3. CASE Refuse(w, j)
  BY <1>3, FlightType DEF Refuse, Stage
<1>4. CASE RecordTicket(w, j)
  <2>1. message' \in [Job -> Seq(Fate)]
    BY <1>4, SetFateType DEF RecordTicket, Fate
  <2>2. job' \in [Job -> JobRow]
    BY <1>0, <1>4 DEF RecordTicket, JobRow, Status, Flight
  <2>3. QED
    BY <1>4, <2>1, <2>2, FlightType DEF RecordTicket
<1>5. CASE InvalidateOnSend(w, j)
  BY <1>5, FlightType, PushAssumption DEF InvalidateOnSend, Stage
<1>6. CASE Defer(w, j)
  <2>1. job' \in [Job -> JobRow]
    BY <1>0, <1>6 DEF Defer, JobRow, Status
  <2>2. QED
    BY <1>6, <2>1, FlightType DEF Defer
<1>7. QED
  BY <1>1, <1>2, <1>3, <1>4, <1>5, <1>6 DEF Deliver

LEMMA CheckType ==
  ASSUME TypeOK, NEW w \in Worker, NEW j \in Job, Check(w, j)
  PROVE  TypeOK'
<1> USE DEF TypeOK
<1>1. CASE ReceiptPending(w, j)
  <2>1. job' \in [Job -> JobRow]
    BY <1>1 DEF ReceiptPending, JobRow
  <2>2. QED
    BY <1>1, <2>1, FlightType DEF ReceiptPending
<1>2. CASE ReceiptOk(w, j)
  <2>1. job' \in [Job -> JobRow]
    BY <1>2 DEF ReceiptOk, JobRow, Status
  <2>2. message' \in [Job -> Seq(Fate)]
    BY <1>2, SetFateType DEF ReceiptOk, Fate
  <2>3. QED
    BY <1>2, <2>1, <2>2, FlightType DEF ReceiptOk
<1>3. CASE ReceiptError(w, j)
  <2>1. job' \in [Job -> JobRow]
    BY <1>3 DEF ReceiptError, JobRow, Status
  <2>2. message' \in [Job -> Seq(Fate)]
    BY <1>3, SetFateType DEF ReceiptError, Fate
  <2>3. QED
    BY <1>3, <2>1, <2>2, FlightType DEF ReceiptError, Stage
<1>4. CASE InvalidateOnReceipt(w, j)
  BY <1>4, FlightType, PushAssumption DEF InvalidateOnReceipt
<1>5. QED
  BY <1>1, <1>2, <1>3, <1>4 DEF Check

LEMMA FaultType ==
  ASSUME TypeOK, NEW w \in Worker, Fault(w)
  PROVE  /\ TypeOK'
         /\ \A j \in Job : Len(message'[j]) = Len(message[j])
         /\ \A v \in Worker, j \in Job : flight'[v][j] \in {flight[v][j], Landed}
<1> USE DEF TypeOK
<1>1. PICK dropped \in SUBSET InFlight(w) :
        /\ flight' = [flight EXCEPT ![w] = [j \in Job |->
             IF j \in dropped THEN Landed ELSE flight[w][j]]]
        /\ message' = [j \in Job |->
             IF j \in dropped /\ At(w, j, "ticket")
             THEN [message[j] EXCEPT ![flight[w][j].msg] = "lost"]
             ELSE message[j]]
        /\ UNCHANGED turn \/ turn' = [turn EXCEPT ![w] = "batch"]
  BY DEF Fault
<1>2. \A j \in Job : message'[j] \in Seq(Fate) /\ Len(message'[j]) = Len(message[j])
  <2> TAKE j \in Job
  <2>1. "lost" \in Fate /\ message[j] \in Seq(Fate)
    BY DEF Fate
  <2>2. \/ message'[j] = message[j]
        \/ message'[j] = [message[j] EXCEPT ![flight[w][j].msg] = "lost"]
    BY <1>1
  <2>3. QED
    BY <2>1, <2>2, FateSeq
<1>3. message' \in [Job -> Seq(Fate)]
  BY <1>1, <1>2
<1>5. flight' \in [Worker -> [Job -> Flight]]
  BY <1>1, LandedType
<1>6. faults' \in 0 .. MaxFaults
  BY PushAssumption DEF Fault
<1>7. \A v \in Worker, j \in Job : flight'[v][j] \in {flight[v][j], Landed}
  BY <1>1
<1>8. QED
  BY <1>1, <1>2, <1>3, <1>5, <1>6, <1>7 DEF Fault

LEMMA NextType == TypeOK /\ [Next]_vars => TypeOK'
<1> SUFFICES ASSUME TypeOK, [Next]_vars PROVE TypeOK'
  OBVIOUS
<1>1. ASSUME NEW w \in Worker, Claim(w) PROVE TypeOK'
  <2>0. \A j \in Job : job[j] \in JobRow /\ job[j].attempts + 1 \in Nat
    BY DEF TypeOK, JobRow
  <2>1. \A j \in Job :
          [job[j] EXCEPT !.status = "failed", !.attempts = @ + 1] \in JobRow
    BY <2>0 DEF JobRow, Status
  <2>2. job' \in [Job -> JobRow]
    BY <1>1, <2>0, <2>1 DEF Claim
  <2>3. \A j \in Job :
          [stage |-> "send", tries |-> job[j].attempts + 1, msg |-> 0] \in Flight
    BY <2>0 DEF Flight, Stage
  <2>4. flight' \in [Worker -> [Job -> Flight]]
    BY <1>1, <2>3, LandedType DEF TypeOK, Claim
  <2>5. QED
    BY <1>1, <2>2, <2>4 DEF TypeOK, Claim
<1>2. ASSUME NEW w \in Worker, SelectReceipts(w) PROVE TypeOK'
  <2>1. \A j \in Job :
          [stage |-> "check", tries |-> 0, msg |-> job[j].ticket] \in Flight
    BY DEF TypeOK, JobRow, Flight, Stage
  <2>2. flight' \in [Worker -> [Job -> Flight]]
    BY <1>2, <2>1, LandedType DEF TypeOK, SelectReceipts
  <2>3. QED
    BY <1>2, <2>2 DEF TypeOK, SelectReceipts
<1>3. ASSUME NEW j \in Job, Retry(j) PROVE TypeOK'
  <2>0. job \in [Job -> JobRow] /\ job[j] \in JobRow
    BY DEF TypeOK
  <2>1. job' \in [Job -> JobRow]
    BY <1>3, <2>0 DEF Retry, JobRow, Status
  <2>2. QED
    BY <1>3, <2>1, PushAssumption DEF TypeOK, Retry
<1>4. ASSUME NEW j \in Job, TimePasses(j) PROVE TypeOK'
  BY <1>4 DEF TypeOK, TimePasses, JobRow
<1>5. CASE UNCHANGED vars
  BY <1>5 DEF TypeOK, vars
<1>6. QED
  BY <1>1, <1>2, <1>3, <1>4, <1>5, DeliverType, CheckType, FaultType DEF Next

(* Every reachable state is well-typed.                                    *)
THEOREM PushTypeCorrect == Spec => []TypeOK
BY InitType, NextType, PTL DEF Spec

(***************************************************************************)
(* Attempts pay for messages.  A claim pays for one message in advance, so *)
(* what is inductive counts the workers that may still send theirs.        *)
(***************************************************************************)
Sending(j) == {w \in Worker : At(w, j, "send")}

PaidFor ==
  \A j \in Job : Len(message[j]) + Cardinality(Sending(j)) <= job[j].attempts

LEMMA SendingFacts ==
  \A j : IsFiniteSet(Sending(j)) /\ Cardinality(Sending(j)) \in Nat
<1> TAKE j
<1>1. IsFiniteSet(Sending(j))
  BY PushAssumption, FS_Subset DEF Sending
<1>2. QED
  BY <1>1, FS_CardinalityType

(* A step after which no one new may send, and that neither adds a message *)
(* nor takes an attempt back.                                              *)
LEMMA NoNewSender ==
  ASSUME TypeOK, TypeOK', PaidFor, NEW j \in Job,
         Len(message'[j]) = Len(message[j]),
         job'[j].attempts = job[j].attempts,
         \A w \in Worker : flight'[w][j].stage = "send" => flight[w][j].stage = "send"
  PROVE  Len(message'[j]) + Cardinality(Sending(j)') <= job'[j].attempts
<1>1. Sending(j)' \subseteq Sending(j)
  BY DEF Sending, At
<1>2. Cardinality(Sending(j)') <= Cardinality(Sending(j))
  BY <1>1, SendingFacts, FS_Subset
<1>3. Cardinality(Sending(j)') \in Nat /\ Cardinality(Sending(j)) \in Nat
  BY <1>1, SendingFacts, FS_Subset, FS_CardinalityType
<1>4. Len(message[j]) \in Nat /\ job[j].attempts \in Nat
  BY DEF TypeOK, JobRow
<1>5. QED
  BY <1>2, <1>3, <1>4 DEF PaidFor

(* Where flights are after a move or a landing.                            *)
LEMMA StageAfter ==
  ASSUME TypeOK, NEW w \in Worker, NEW k \in Job, NEW s \in Stage,
         MoveTo(w, k, s) \/ (s = "none" /\ Land(w, k))
  PROVE  \A v \in Worker, j \in Job :
           flight'[v][j].stage = IF v = w /\ j = k THEN s ELSE flight[v][j].stage
<1>1. flight[w][k] \in Flight
  BY DEF TypeOK
<1>2. [flight[w][k] EXCEPT !.stage = s].stage = s
  BY <1>1 DEF Flight
<1>3. CASE MoveTo(w, k, s)
  BY <1>2, <1>3 DEF MoveTo, TypeOK
<1>4. CASE s = "none" /\ Land(w, k)
  BY <1>4 DEF Land, Landed, TypeOK
<1>5. QED
  BY <1>3, <1>4

LEMMA DeliverPaid ==
  ASSUME TypeOK, TypeOK', PaidFor, NEW w \in Worker, NEW k \in Job, Deliver(w, k)
  PROVE  PaidFor'
<1> SUFFICES ASSUME NEW j \in Job
             PROVE  Len(message'[j]) + Cardinality(Sending(j)') <= job'[j].attempts
  BY DEF PaidFor
<1>1. CASE Accept(w, k) /\ j = k
  <2>1. Sending(j)' = Sending(j) \ {w} /\ w \in Sending(j)
    BY <1>1 DEF Accept, Sending, At, TypeOK, Flight
  <2>2. Cardinality(Sending(j)') = Cardinality(Sending(j)) - 1
    BY <2>1, SendingFacts, FS_RemoveElement
  <2>3. message[j] \in Seq(Fate) /\ job[j].attempts \in Nat
    BY DEF TypeOK, JobRow
  <2>4. Len(message'[j]) = Len(message[j]) + 1 /\ UNCHANGED job
    BY <1>1, <2>3 DEF Accept, TypeOK
  <2>5. QED
    BY <2>2, <2>3, <2>4, SendingFacts DEF PaidFor
<1>2. CASE ~(Accept(w, k) /\ j = k)
  <2>0. job \in [Job -> JobRow] /\ job[k] \in JobRow
    BY DEF TypeOK
  <2>1. Len(message'[j]) = Len(message[j])
    BY <1>2, SetFateType
       DEF Deliver, Accept, LoseAnswer, Refuse, RecordTicket, InvalidateOnSend,
           Defer, TypeOK, Fate
  <2>2. job'[j].attempts = job[j].attempts
    <3>1. CASE RecordTicket(w, k)
      BY <2>0, <3>1 DEF RecordTicket, JobRow
    <3>2. CASE Defer(w, k)
      BY <2>0, <3>2 DEF Defer, JobRow
    <3>3. CASE ~RecordTicket(w, k) /\ ~Defer(w, k)
      BY <3>3 DEF Deliver, Accept, LoseAnswer, Refuse, InvalidateOnSend
    <3>4. QED
      BY <3>1, <3>2, <3>3
  <2>3. \A v \in Worker : flight'[v][j].stage = "send" => flight[v][j].stage = "send"
    <3>1. CASE Accept(w, k)
      BY <1>2, <3>1 DEF Accept, TypeOK
    <3>2. CASE ~Accept(w, k)
      BY <3>2, StageAfter
         DEF Deliver, LoseAnswer, Refuse, RecordTicket, InvalidateOnSend, Defer,
             Stage
    <3>3. QED
      BY <3>1, <3>2
  <2>4. QED
    BY <2>1, <2>2, <2>3, NoNewSender
<1>3. QED
  BY <1>1, <1>2

LEMMA CheckPaid ==
  ASSUME TypeOK, TypeOK', PaidFor, NEW w \in Worker, NEW k \in Job, Check(w, k)
  PROVE  PaidFor'
<1> SUFFICES ASSUME NEW j \in Job
             PROVE  Len(message'[j]) + Cardinality(Sending(j)') <= job'[j].attempts
  BY DEF PaidFor
<1>1. Len(message'[j]) = Len(message[j])
  BY SetFateType DEF Check, ReceiptPending, ReceiptOk, ReceiptError,
                     InvalidateOnReceipt, TypeOK, Fate
<1>0. job \in [Job -> JobRow] /\ job[k] \in JobRow
  BY DEF TypeOK
<1>2. job'[j].attempts = job[j].attempts
  BY <1>0 DEF Check, ReceiptPending, ReceiptOk, ReceiptError,
              InvalidateOnReceipt, JobRow
<1>3. \A v \in Worker : flight'[v][j].stage = "send" => flight[v][j].stage = "send"
  BY StageAfter DEF Check, ReceiptPending, ReceiptOk, ReceiptError,
                    InvalidateOnReceipt, Stage
<1>4. QED
  BY <1>1, <1>2, <1>3, NoNewSender

LEMMA ClaimPaid ==
  ASSUME TypeOK, TypeOK', PaidFor, NEW w \in Worker, Claim(w)
  PROVE  PaidFor'
<1> SUFFICES ASSUME NEW j \in Job
             PROVE  Len(message'[j]) + Cardinality(Sending(j)') <= job'[j].attempts
  BY DEF PaidFor
<1>0. Len(message[j]) \in Nat /\ job[j].attempts \in Nat /\ job[j] \in JobRow
  BY DEF TypeOK, JobRow
<1>1. CASE j \in Claimable
  <2>1. w \notin Sending(j) /\ Sending(j)' = Sending(j) \cup {w}
    BY <1>1 DEF Claim, InFlight, Sending, At, TypeOK
  <2>2. Cardinality(Sending(j)') = Cardinality(Sending(j)) + 1
    BY <2>1, SendingFacts, FS_AddElement
  <2>3. job'[j].attempts = job[j].attempts + 1 /\ UNCHANGED message
    BY <1>0, <1>1 DEF Claim, JobRow
  <2>4. QED
    BY <1>0, <2>2, <2>3, SendingFacts DEF PaidFor
<1>2. CASE j \notin Claimable
  BY <1>2, NoNewSender DEF Claim, TypeOK, Landed
<1>3. QED
  BY <1>1, <1>2

LEMMA NextPaid == TypeOK /\ PaidFor /\ [Next]_vars => PaidFor'
<1> SUFFICES ASSUME TypeOK, PaidFor, [Next]_vars PROVE PaidFor'
  OBVIOUS
<1>0. TypeOK'
  BY NextType
<1>1. ASSUME NEW w \in Worker, SelectReceipts(w) PROVE PaidFor'
  BY <1>0, <1>1, NoNewSender DEF PaidFor, SelectReceipts, TypeOK, Landed
<1>2. ASSUME NEW w \in Worker, Fault(w) PROVE PaidFor'
  <2>1. UNCHANGED job
    BY <1>2 DEF Fault
  <2>2. \A v \in Worker, j \in Job :
          flight'[v][j].stage = "send" => flight[v][j].stage = "send"
    BY <1>2, FaultType DEF Landed
  <2>3. QED
    BY <1>0, <1>2, <2>1, <2>2, FaultType, NoNewSender DEF PaidFor
<1>3. ASSUME NEW k \in Job, Retry(k) \/ TimePasses(k) PROVE PaidFor'
  <2>0. job \in [Job -> JobRow] /\ job[k] \in JobRow
    BY DEF TypeOK
  <2>1. \A j \in Job : job'[j].attempts = job[j].attempts
    BY <1>3, <2>0 DEF Retry, TimePasses, JobRow
  <2>2. UNCHANGED <<message, flight>>
    BY <1>3 DEF Retry, TimePasses
  <2>3. QED
    BY <1>0, <2>1, <2>2, NoNewSender DEF PaidFor
<1>4. CASE UNCHANGED vars
  BY <1>4 DEF PaidFor, vars, Sending, At
<1>5. QED
  BY <1>0, <1>1, <1>2, <1>3, <1>4, DeliverPaid, CheckPaid, ClaimPaid DEF Next

(* However many replicas race for a job, it is never sent more often than  *)
(* its attempts say.                                                       *)
THEOREM AttemptsPayForMessages == Spec => []MessagesAreCounted
<1>1. Init => PaidFor
  <2> SUFFICES ASSUME Init, NEW j \in Job
               PROVE  Len(message[j]) + Cardinality(Sending(j)) <= job[j].attempts
    BY DEF PaidFor
  <2>1. Sending(j) = {}
    BY DEF Init, Sending, At, Landed
  <2>2. QED
    BY <2>1, FS_EmptySet DEF Init
<1>2. TypeOK /\ PaidFor => MessagesAreCounted
  <2> SUFFICES ASSUME TypeOK, PaidFor, NEW j \in Job
               PROVE  Len(message[j]) <= job[j].attempts
    BY DEF MessagesAreCounted
  <2>1. Len(message[j]) \in Nat /\ job[j].attempts \in Nat
    BY DEF TypeOK, JobRow
  <2>2. QED
    BY <2>1, SendingFacts DEF PaidFor
<1>3. QED
  BY <1>1, <1>2, PushTypeCorrect, NextPaid, PTL DEF Spec

(***************************************************************************)
(* One replica.  Between its claim and its last statement the job stays    *)
(* waiting, so nothing it writes is stale: a live message is the one whose *)
(* answer it holds, or the one the accepted job has the ticket of.         *)
(***************************************************************************)
LiveSet(j) == {n \in DOMAIN message[j] : message[j][n] \in Live}

Waiting == {"queued", "failed"}
Taken == {"provider_accepted", "delivered"}

OrderlyJob(r, j) ==
  /\ flight[r][j].stage \in {"send", "ticket", "refused", "unregistered", "drop"}
       => job[j].status \in Waiting
  /\ flight[r][j].stage = "check"
       => job[j].status = "provider_accepted" /\ flight[r][j].msg = job[j].ticket
  /\ flight[r][j].stage = "ticket" => LiveSet(j) \subseteq {flight[r][j].msg}
  /\ job[j].status \in Taken => LiveSet(j) \subseteq {job[j].ticket}
  /\ job[j].status \notin Taken /\ flight[r][j].stage # "ticket" => LiveSet(j) = {}

Orderly(r) == \A j \in Job : OrderlyJob(r, j)

LEMMA LiveAfterFate ==
  ASSUME TypeOK, NEW k \in Job, NEW n, NEW f \in Fate, SetFate(k, n, f)
  PROVE  /\ \A j \in Job : j # k => LiveSet(j)' = LiveSet(j)
         /\ LiveSet(k)' \subseteq LiveSet(k) \cup {n}
         /\ f \notin Live => LiveSet(k)' \subseteq LiveSet(k) \ {n}
<1>1. message'[k] = [message[k] EXCEPT ![n] = f]
  BY DEF SetFate, TypeOK
<1>2. \A j \in Job : j # k => message'[j] = message[j]
  BY DEF SetFate, TypeOK
<1>3. DOMAIN message'[k] = DOMAIN message[k]
  BY <1>1
<1>4. \A i \in DOMAIN message[k] : message'[k][i] = IF i = n THEN f ELSE message[k][i]
  BY <1>1
<1>5. QED
  BY <1>2, <1>3, <1>4 DEF LiveSet

(* A step that keeps everything of a job keeps it orderly.                 *)
LEMMA OtherJobs ==
  ASSUME NEW r, NEW j, OrderlyJob(r, j), LiveSet(j)' = LiveSet(j),
         job'[j] = job[j], flight'[r][j] = flight[r][j]
  PROVE  OrderlyJob(r, j)'
BY DEF OrderlyJob

LEMMA DeliverOrderly ==
  ASSUME NEW r \in Worker, TypeOK, Orderly(r), NEW k \in Job, Deliver(r, k)
  PROVE  Orderly(r)'
<1> SUFFICES ASSUME NEW j \in Job PROVE OrderlyJob(r, j)'
  BY DEF Orderly
<1>0. /\ OrderlyJob(r, j) /\ OrderlyJob(r, k)
      /\ job \in [Job -> JobRow] /\ job[k] \in JobRow
      /\ flight[r] \in [Job -> Flight] /\ flight[r][k] \in Flight
      /\ message[k] \in Seq(Fate)
  BY DEF Orderly, TypeOK
<1>1. CASE j # k
  <2>1. job'[j] = job[j] /\ flight'[r][j] = flight[r][j]
    BY <1>0, <1>1 DEF Deliver, Accept, LoseAnswer, Refuse, RecordTicket,
          InvalidateOnSend, Defer, MoveTo, Land, TypeOK
  <2>2. LiveSet(j)' = LiveSet(j)
    <3>1. CASE Accept(r, k)
      BY <1>1, <3>1 DEF Accept, LiveSet, TypeOK
    <3>2. CASE LoseAnswer(r, k) \/ RecordTicket(r, k)
      BY <1>1, <3>2, LiveAfterFate DEF LoseAnswer, RecordTicket, Fate
    <3>3. CASE Refuse(r, k) \/ InvalidateOnSend(r, k) \/ Defer(r, k)
      BY <3>3 DEF Refuse, InvalidateOnSend, Defer, LiveSet
    <3>4. QED
      BY <3>1, <3>2, <3>3 DEF Deliver
  <2>3. QED
    BY <1>0, <2>1, <2>2, OtherJobs
<1>2. CASE j = k
  <2>1. CASE Accept(r, k)
    <3>1. /\ flight'[r][k].stage = "ticket"
          /\ flight'[r][k].msg = Len(message[k]) + 1
          /\ UNCHANGED job
      BY <1>0, <2>1 DEF Accept, TypeOK, Flight
    <3>2. job[k].status \in Waiting /\ LiveSet(k) = {}
      BY <1>0, <2>1 DEF OrderlyJob, Accept, At, Waiting, Taken
    <3>3. message'[k] = Append(message[k], "unread")
      BY <2>1 DEF Accept, TypeOK
    <3>4. LiveSet(k)' \subseteq {Len(message[k]) + 1}
      BY <1>0, <3>2, <3>3 DEF LiveSet
    <3>5. QED
      BY <1>2, <3>1, <3>2, <3>4 DEF OrderlyJob, Waiting, Taken
  <2>2. CASE LoseAnswer(r, k)
    <3>1. flight'[r][k].stage = "refused" /\ UNCHANGED job
      BY <2>2, StageAfter DEF LoseAnswer, Stage
    <3>2. job[k].status \in Waiting /\ LiveSet(k) \subseteq {flight[r][k].msg}
      BY <1>0, <2>2 DEF OrderlyJob, LoseAnswer, At
    <3>3. LiveSet(k)' = {}
      BY <2>2, <3>2, LiveAfterFate DEF LoseAnswer, Fate, Live
    <3>4. QED
      BY <1>2, <3>1, <3>2, <3>3 DEF OrderlyJob, Waiting, Taken
  <2>3. CASE Refuse(r, k) \/ InvalidateOnSend(r, k)
    <3>1. /\ flight'[r][k].stage \in {"refused", "unregistered"}
          /\ UNCHANGED <<job, message>>
      BY <2>3, StageAfter DEF Refuse, InvalidateOnSend, Stage
    <3>2. job[k].status \in Waiting /\ LiveSet(k) = {}
      BY <1>0, <2>3 DEF OrderlyJob, Refuse, InvalidateOnSend, At, Waiting, Taken
    <3>3. QED
      BY <1>2, <3>1, <3>2 DEF OrderlyJob, Waiting, Taken, LiveSet
  <2>4. CASE RecordTicket(r, k)
    <3>1. /\ flight'[r][k].stage = "none"
          /\ job'[k].status = "provider_accepted"
          /\ job'[k].ticket = flight[r][k].msg
      BY <1>0, <2>4, StageAfter DEF RecordTicket, Stage, JobRow
    <3>2. LiveSet(k) \subseteq {flight[r][k].msg}
      BY <1>0, <2>4 DEF OrderlyJob, RecordTicket, At
    <3>3. LiveSet(k)' \subseteq {flight[r][k].msg}
      BY <2>4, <3>2, LiveAfterFate DEF RecordTicket, Fate
    <3>4. QED
      BY <1>2, <3>1, <3>3 DEF OrderlyJob, Taken
  <2>5. CASE Defer(r, k)
    <3>1. /\ flight'[r][k].stage = "none" /\ UNCHANGED message
          /\ job'[k].status \in {"failed", "dead_letter"}
      BY <1>0, <2>5, StageAfter DEF Defer, Stage, JobRow
    <3>2. LiveSet(k) = {}
      BY <1>0, <2>5 DEF OrderlyJob, Defer, At, Waiting, Taken
    <3>3. QED
      BY <1>2, <3>1, <3>2 DEF OrderlyJob, Taken, LiveSet
  <2>6. QED
    BY <2>1, <2>2, <2>3, <2>4, <2>5 DEF Deliver
<1>3. QED
  BY <1>1, <1>2

LEMMA CheckOrderly ==
  ASSUME NEW r \in Worker, TypeOK, Orderly(r), NEW k \in Job, Check(r, k)
  PROVE  Orderly(r)'
<1> SUFFICES ASSUME NEW j \in Job PROVE OrderlyJob(r, j)'
  BY DEF Orderly
<1>0. /\ OrderlyJob(r, j) /\ OrderlyJob(r, k)
      /\ job \in [Job -> JobRow] /\ job[k] \in JobRow
      /\ flight[r] \in [Job -> Flight] /\ flight[r][k] \in Flight
  BY DEF Orderly, TypeOK
<1>1. CASE j # k
  <2>1. job'[j] = job[j] /\ flight'[r][j] = flight[r][j]
    BY <1>0, <1>1 DEF Check, ReceiptPending, ReceiptOk, ReceiptError,
          InvalidateOnReceipt, MoveTo, Land, TypeOK
  <2>2. LiveSet(j)' = LiveSet(j)
    <3>1. CASE ReceiptOk(r, k) \/ ReceiptError(r, k)
      BY <1>1, <3>1, LiveAfterFate DEF ReceiptOk, ReceiptError, Fate
    <3>2. CASE ReceiptPending(r, k) \/ InvalidateOnReceipt(r, k)
      BY <3>2 DEF ReceiptPending, InvalidateOnReceipt, LiveSet
    <3>3. QED
      BY <3>1, <3>2 DEF Check
  <2>3. QED
    BY <1>0, <2>1, <2>2, OtherJobs
<1>2. CASE j = k
  <2>1. CASE ReceiptPending(r, k)
    <3>1. /\ flight'[r][k].stage = "none" /\ UNCHANGED message
          /\ job'[k].status = job[k].status /\ job'[k].ticket = job[k].ticket
      BY <1>0, <2>1, StageAfter DEF ReceiptPending, Stage, JobRow
    <3>2. job[k].status \in Taken /\ LiveSet(k) \subseteq {job[k].ticket}
      BY <1>0, <2>1 DEF OrderlyJob, ReceiptPending, At, Taken
    <3>3. QED
      BY <1>2, <3>1, <3>2 DEF OrderlyJob, LiveSet
  <2>2. CASE ReceiptOk(r, k)
    <3>1. /\ flight'[r][k].stage = "none"
          /\ job'[k].status = "delivered" /\ job'[k].ticket = job[k].ticket
      BY <1>0, <2>2, StageAfter DEF ReceiptOk, Stage, JobRow
    <3>2. /\ LiveSet(k) \subseteq {job[k].ticket}
          /\ flight[r][k].msg = job[k].ticket
      BY <1>0, <2>2 DEF OrderlyJob, ReceiptOk, At, Taken
    <3>3. LiveSet(k)' \subseteq {job[k].ticket}
      BY <2>2, <3>2, LiveAfterFate DEF ReceiptOk, Fate
    <3>4. QED
      BY <1>2, <3>1, <3>3 DEF OrderlyJob, Taken
  <2>3. CASE ReceiptError(r, k)
    <3>1. /\ flight'[r][k].stage \in {"none", "drop"}
          /\ job'[k].status = "failed"
      BY <1>0, <2>3, StageAfter DEF ReceiptError, Stage, JobRow
    <3>2. LiveSet(k) \subseteq {flight[r][k].msg}
      BY <1>0, <2>3 DEF OrderlyJob, ReceiptError, At, Taken
    <3>3. LiveSet(k)' = {}
      BY <2>3, <3>2, LiveAfterFate DEF ReceiptError, Fate, Live
    <3>4. QED
      BY <1>2, <3>1, <3>3 DEF OrderlyJob, Waiting, Taken
  <2>4. CASE InvalidateOnReceipt(r, k)
    <3>1. flight'[r][k].stage = "none" /\ UNCHANGED <<job, message>>
      BY <2>4, StageAfter DEF InvalidateOnReceipt, Stage
    <3>2. flight[r][k].stage = "drop"
      BY <2>4 DEF InvalidateOnReceipt, At
    <3>3. QED
      BY <1>0, <1>2, <3>1, <3>2 DEF OrderlyJob, LiveSet
  <2>5. QED
    BY <2>1, <2>2, <2>3, <2>4 DEF Check
<1>3. QED
  BY <1>1, <1>2

LEMMA BatchOrderly ==
  ASSUME NEW r \in Worker, TypeOK, Orderly(r), Claim(r) \/ SelectReceipts(r)
  PROVE  Orderly(r)'
<1> SUFFICES ASSUME NEW j \in Job PROVE OrderlyJob(r, j)'
  BY DEF Orderly
<1>0. OrderlyJob(r, j) /\ job[j] \in JobRow
  BY DEF Orderly, TypeOK
<1>1. flight[r][j].stage = "none" /\ LiveSet(j)' = LiveSet(j)
  BY DEF Claim, SelectReceipts, InFlight, LiveSet
<1>2. CASE Claim(r) /\ j \in Claimable
  <2>1. job'[j].status = "failed" /\ flight'[r][j].stage = "send"
    BY <1>0, <1>2 DEF Claim, JobRow, TypeOK
  <2>2. job[j].status \in Waiting
    BY <1>2 DEF Claimable, Waiting
  <2>3. QED
    BY <1>0, <1>1, <2>1, <2>2 DEF OrderlyJob, Waiting, Taken
<1>3. CASE Claim(r) /\ j \notin Claimable
  <2>1. job'[j] = job[j] /\ flight'[r][j].stage = "none"
    BY <1>3 DEF Claim, TypeOK, Landed
  <2>2. QED
    BY <1>0, <1>1, <2>1 DEF OrderlyJob
<1>4. CASE SelectReceipts(r)
  <2>1. job'[j] = job[j]
    BY <1>4 DEF SelectReceipts
  <2>2. \/ flight'[r][j].stage = "none"
        \/ /\ flight'[r][j].stage = "check" /\ flight'[r][j].msg = job[j].ticket
           /\ job[j].status = "provider_accepted"
    BY <1>4 DEF SelectReceipts, TypeOK, Landed
  <2>3. QED
    BY <1>0, <1>1, <2>1, <2>2 DEF OrderlyJob, Taken
<1>5. QED
  BY <1>2, <1>3, <1>4

LEMMA FaultOrderly ==
  ASSUME NEW r \in Worker, TypeOK, Orderly(r), Fault(r)
  PROVE  Orderly(r)'
<1> SUFFICES ASSUME NEW j \in Job PROVE OrderlyJob(r, j)'
  BY DEF Orderly
<1>0. OrderlyJob(r, j) /\ UNCHANGED job
  BY DEF Orderly, Fault
<1>1. CASE message'[j] = message[j] /\ flight'[r][j] = flight[r][j]
  BY <1>0, <1>1, OtherJobs DEF LiveSet
<1>2. CASE message'[j] = message[j] /\ flight'[r][j] = Landed
           /\ flight[r][j].stage # "ticket"
  BY <1>0, <1>2 DEF OrderlyJob, LiveSet, Landed
<1>3. CASE /\ flight[r][j].stage = "ticket" /\ flight'[r][j] = Landed
           /\ message'[j] = [message[j] EXCEPT ![flight[r][j].msg] = "lost"]
  <2>1. LiveSet(j) \subseteq {flight[r][j].msg} /\ job[j].status \in Waiting
    BY <1>0, <1>3 DEF OrderlyJob
  <2>2. LiveSet(j)' = {}
    BY <1>3, <2>1 DEF LiveSet, Live
  <2>3. QED
    BY <1>0, <1>3, <2>1, <2>2 DEF OrderlyJob, Landed, Waiting, Taken
<1>4. \/ message'[j] = message[j] /\ flight'[r][j] = flight[r][j]
      \/ message'[j] = message[j] /\ flight'[r][j] = Landed
           /\ flight[r][j].stage # "ticket"
      \/ /\ flight[r][j].stage = "ticket" /\ flight'[r][j] = Landed
         /\ message'[j] = [message[j] EXCEPT ![flight[r][j].msg] = "lost"]
  BY DEF Fault, At, TypeOK
<1>5. QED
  BY <1>1, <1>2, <1>3, <1>4

LEMMA QueueOrderly ==
  ASSUME NEW r \in Worker, TypeOK, Orderly(r), NEW k \in Job,
         Retry(k) \/ TimePasses(k)
  PROVE  Orderly(r)'
<1> SUFFICES ASSUME NEW j \in Job PROVE OrderlyJob(r, j)'
  BY DEF Orderly
<1>0. /\ OrderlyJob(r, j) /\ job \in [Job -> JobRow] /\ job[k] \in JobRow
      /\ UNCHANGED <<message, flight>>
  BY DEF Orderly, TypeOK, Retry, TimePasses
<1>1. CASE job'[j].status = job[j].status /\ job'[j].ticket = job[j].ticket
  BY <1>0, <1>1 DEF OrderlyJob, LiveSet
<1>2. CASE job[j].status \in {"failed", "dead_letter"} /\ job'[j].status = "queued"
  BY <1>0, <1>2 DEF OrderlyJob, LiveSet, Waiting, Taken
<1>3. \/ job'[j].status = job[j].status /\ job'[j].ticket = job[j].ticket
      \/ job[j].status \in {"failed", "dead_letter"} /\ job'[j].status = "queued"
  BY <1>0 DEF Retry, TimePasses, JobRow
<1>4. QED
  BY <1>1, <1>2, <1>3

LEMMA OrderlyInvariant ==
  ASSUME NEW r, Worker = {r}
  PROVE  Spec => [](TypeOK /\ Orderly(r))
<1>1. Init => Orderly(r)
  BY DEF Init, Orderly, OrderlyJob, LiveSet, Landed, Taken
<1>2. TypeOK /\ Orderly(r) /\ [Next]_vars => Orderly(r)'
  <2> SUFFICES ASSUME TypeOK, Orderly(r), [Next]_vars PROVE Orderly(r)'
    OBVIOUS
  <2>1. CASE UNCHANGED vars
    BY <2>1 DEF vars, Orderly, OrderlyJob, LiveSet
  <2>2. CASE Next
    BY <2>2, DeliverOrderly, CheckOrderly, BatchOrderly, FaultOrderly,
       QueueOrderly DEF Next
  <2>3. QED
    BY <2>1, <2>2
<1>3. QED
  BY <1>1, <1>2, PushTypeCorrect, PTL DEF Spec

(* With a single replica of the worker a device is never sent a job again  *)
(* while an earlier message of it may still be delivered.                  *)
THEOREM SoleReplicaSendsOnce ==
  ASSUME NEW r, Worker = {r}
  PROVE  Spec => []OneLiveMessage
<1>1. Orderly(r) => OneLiveMessage
  <2> SUFFICES ASSUME Orderly(r), NEW j \in Job,
                      NEW m \in LiveSet(j), NEW n \in LiveSet(j)
               PROVE  m = n
    BY DEF OneLiveMessage, LiveSet
  <2>1. OrderlyJob(r, j)
    BY DEF Orderly
  <2>2. QED
    BY <2>1 DEF OrderlyJob
<1>2. QED
  BY <1>1, OrderlyInvariant, PTL

(* And what it has seen delivered stays delivered.                         *)
THEOREM SoleReplicaKeepsDelivered ==
  ASSUME NEW r, Worker = {r}
  PROVE  Spec => DeliveredIsFinal
<1> DEFINE Final ==
      \A j \in Job : job[j].status = "delivered" => job'[j].status = "delivered"
<1>1. TypeOK /\ Orderly(r) /\ [Next]_vars => [Final]_vars
  <2> SUFFICES ASSUME TypeOK, Orderly(r), Next,
                      NEW j \in Job, job[j].status = "delivered"
               PROVE  job'[j].status = "delivered"
    OBVIOUS
  <2>0. /\ flight[r][j].stage = "none"
        /\ job \in [Job -> JobRow] /\ job[j] \in JobRow
    <3>1. flight[r][j] \in Flight /\ OrderlyJob(r, j)
      BY DEF TypeOK, Orderly
    <3>2. flight[r][j].stage \in Stage
      BY <3>1 DEF Flight
    <3>3. flight[r][j].stage = "none"
      BY <3>1, <3>2 DEF OrderlyJob, Stage, Waiting
    <3>4. QED
      BY <3>3 DEF TypeOK
  <2>1. ASSUME NEW k \in Job, Deliver(r, k) \/ Check(r, k)
        PROVE  job'[j] = job[j]
    <3>1. j # k
      BY <2>0, <2>1 DEF Deliver, Accept, LoseAnswer, Refuse, RecordTicket,
         InvalidateOnSend, Defer, Check, ReceiptPending, ReceiptOk, ReceiptError,
         InvalidateOnReceipt, At
    <3>2. QED
      BY <2>0, <2>1, <3>1 DEF Deliver, Accept, LoseAnswer, Refuse, RecordTicket,
         InvalidateOnSend, Defer, Check, ReceiptPending, ReceiptOk, ReceiptError,
         InvalidateOnReceipt
  <2>2. CASE Claim(r) \/ SelectReceipts(r) \/ Fault(r)
    BY <2>2 DEF Claim, Claimable, SelectReceipts, Fault
  <2>3. ASSUME NEW k \in Job, Retry(k) \/ TimePasses(k)
        PROVE  job'[j] = job[j]
    BY <2>0, <2>3 DEF Retry, TimePasses
  <2>4. QED
    BY <2>1, <2>2, <2>3 DEF Next
<1>2. QED
  BY <1>1, OrderlyInvariant, PTL DEF Spec, DeliveredIsFinal
=============================================================================
