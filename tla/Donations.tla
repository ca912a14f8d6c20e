------------------------------- MODULE Donations -------------------------------
(***************************************************************************)
(* Donations: intents with an idempotency key, the webhook the payment     *)
(* provider calls about them, possibly more than once per event, and the   *)
(* ledger.                                                                 *)
(***************************************************************************)
EXTENDS Naturals

CONSTANTS
  Donation,   \* idempotency keys of a donor's intents, and the donations
              \* they make; an intent without a key has one of its own
  Event,      \* the provider's event ids
  About,      \* the donation each is about
  Outcome,    \* the status each announces
  Delivery    \* calls of the webhook that may run at the same time

VARIABLES
  status,    \* donations.status, "none" if there is no such row
  purpose,   \* donations.purpose
  opened,    \* ..._intent_created rows of the ledger for each donation
  entries,   \* provider_... rows of the ledger for each event
  recorded,  \* rows of payment_webhook_events
  processed, \* those with processed_at
  call       \* what each call of the webhook is at

donationVars == <<status, purpose, opened>>
eventVars == <<recorded, processed>>
vars == <<donationVars, entries, eventVars, call>>
-----------------------------------------------------------------------------
(* normalize_payment_status takes other words for these, and refuses the   *)
(* rest, of which unsupported stands for.                                  *)
Settled == {"paid", "failed", "refunded", "chargeback", "pending_provider"}
Announced == Settled \cup {"unsupported"}

DonationsAssumption ==
  /\ About \in [Event -> Donation]
  /\ Outcome \in [Event -> Announced]

Purpose == {"ong_donation", "platform_maintenance"}
Waiting == [pc : {"found", "settle"}, event : Event]
Idle == [pc |-> "idle"]

TypeOK ==
  /\ status \in [Donation -> Settled \cup {"none"}]
  /\ purpose \in [Donation -> Purpose \cup {"none"}]
  /\ opened \in [Donation -> [Purpose -> Nat]]
  /\ entries \in [Event -> Nat]
  /\ recorded \subseteq Event
  /\ processed \subseteq recorded
  /\ call \in [Delivery -> Waiting \cup {Idle}]

Init ==
  /\ status = [d \in Donation |-> "none"]
  /\ purpose = [d \in Donation |-> "none"]
  /\ opened = [d \in Donation |-> [p \in Purpose |-> 0]]
  /\ entries = [e \in Event |-> 0]
  /\ recorded = {}
  /\ processed = {}
  /\ call = [c \in Delivery |-> Idle]

-----------------------------------------------------------------------------
Exists(d) == status[d] # "none"
GoTo(c, pc, e) == call' = [call EXCEPT ![c] = [pc |-> pc, event |-> e]]
Finish(c) == call' = [call EXCEPT ![c] = Idle]

(* INSERT ... ON CONFLICT (donor_id, idempotency_key) finds the donation   *)
(* whatever its purpose; the ledger only if that inserted.                 *)
Intend(d, p) ==
  /\ IF Exists(d) THEN UNCHANGED donationVars ELSE
       /\ status' = [status EXCEPT ![d] = "pending_provider"]
       /\ purpose' = [purpose EXCEPT ![d] = p]
       /\ opened' = [opened EXCEPT ![d][p] = @ + 1]
  /\ UNCHANGED <<entries, eventVars, call>>

CreateIntent(d) == Intend(d, "ong_donation")
CreateMaintenanceIntent(d) == Intend(d, "platform_maintenance")

(* insert_webhook_event commits by itself; a repeated event is a duplicate.*)
Insert(e) == recorded' = recorded \cup {e}

(* payment_webhook about a reference it does not know: the event is kept,  *)
(* and ignored also when it comes again.                                   *)
Ignore(e) ==
  /\ ~Exists(About[e])
  /\ Insert(e)
  /\ UNCHANGED <<donationVars, entries, processed, call>>

Find(c, e) ==
  /\ call[c] = Idle
  /\ Exists(About[e])
  /\ GoTo(c, "found", e)
  /\ UNCHANGED <<donationVars, entries, eventVars>>

(* Defect: an event is a duplicate only once it has been processed.        *)
RecordOpen(c) ==
  /\ call[c].pc = "found"
  /\ Insert(call[c].event)
  /\ IF call[c].event \in processed \/ Outcome[call[c].event] = "unsupported"
     THEN Finish(c) ELSE GoTo(c, "settle", call[c].event)
  /\ UNCHANGED <<donationVars, entries, processed>>
(* The first to insert the event goes on.  What it announces is looked at  *)
(* after that.                                                             *)
Record(c) ==
  /\ call[c].pc = "found"
  /\ Insert(call[c].event)
  /\ IF call[c].event \in recorded \/ Outcome[call[c].event] = "unsupported"
     THEN Finish(c) ELSE GoTo(c, "settle", call[c].event)
  /\ UNCHANGED <<donationVars, entries, processed>>

(* One transaction: the donation, the ledger, the event.  Whatever status  *)
(* the donation is in is replaced.                                         *)
Settle(c) ==
  /\ call[c].pc = "settle"
  /\ LET e == call[c].event IN
       /\ status' = [status EXCEPT ![About[e]] = Outcome[e]]
       /\ entries' = [entries EXCEPT ![e] = @ + 1]
       /\ processed' = processed \cup {e}
  /\ Finish(c)
  /\ UNCHANGED <<purpose, opened, recorded>>

(* The process stops or a statement fails; the event stays recorded.       *)
Abort(c) ==
  /\ call[c] # Idle
  /\ Finish(c)
  /\ UNCHANGED <<donationVars, entries, eventVars>>

Next ==
  \/ \E d \in Donation : CreateIntent(d) \/ CreateMaintenanceIntent(d)
  \/ \E e \in Event : Ignore(e)
  \/ \E c \in Delivery :
       \/ \E e \in Event : Find(c, e)
       \/ Record(c) \/ Settle(c) \/ Abort(c)
-----------------------------------------------------------------------------
(* payment_webhook, create_intent and create_maintenance_intent: the ledger*)
(* opens a donation once, for the purpose it has, however often and for    *)
(* what its key is repeated; an event is entered once however often it is  *)
(* delivered; and the donation is in the state the intent or one of the    *)
(* entered events gave it.                                                 *)
LedgerAgrees ==
  /\ \A d \in Donation :
       /\ \A p \in Purpose : opened[d][p] = IF purpose[d] = p THEN 1 ELSE 0
       /\ Exists(d) <=> purpose[d] \in Purpose
       /\ Exists(d) /\ status[d] # "pending_provider" =>
            \E e \in processed : About[e] = d /\ Outcome[e] = status[d]
  /\ \A e \in Event : entries[e] = IF e \in processed THEN 1 ELSE 0
=============================================================================
