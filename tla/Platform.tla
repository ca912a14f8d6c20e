-------------------------------- MODULE Platform --------------------------------
(***************************************************************************)
(* Parts of the platform that do not touch each other: credentials,        *)
(* verification of an ONG, donations, rescue sessions, reactions to a post *)
(* and the limits on alerts.  No step of one reads or writes what          *)
(* another's steps write, but for the deletion of an account, which is a   *)
(* step of both Credentials and Verification.  A behaviour of all of them  *)
(* is, seen from any, a behaviour of it alone; each is therefore explored  *)
(* by itself, and focus says which.                                        *)
(***************************************************************************)
EXTENDS Naturals

CONSTANTS
  Caller, Reset, Original, MaxTokens,  \* Credentials
  Handler,                             \* requests of the others
  Document, Kind, KindOf,              \* Verification
  Donation, Event, About, Outcome,     \* Donations
  MaxSessions, MaxTexts,               \* RescueSessions
  Row, RowKind,                        \* Reactions
  Case, User, Specialist, Standard, Escalation,
  Short, Long, MaxShort, MaxLong, Horizon  \* AlertFatigue

VARIABLES
  focus,  \* the component that runs
  password, deleted, token, mailed, used, login,
  closed, verified, status, document, review, owed,
  donated, purpose, opened, entries, recorded, processed, call,
  post, session, report, texts, job, told, lost,
  rows, count, waited, reacting,
  now, phase, notes, sending

credentialVars == <<password, deleted, token, mailed, used, login>>
ngoVars == <<closed, verified, status, document, review, owed>>
moneyVars == <<donated, purpose, opened, entries, recorded, processed, call>>
rescueVars == <<post, session, report, texts, job, told, lost>>
reactionVars == <<rows, count, waited, reacting>>
alertVars == <<now, phase, notes, sending>>
vars == <<focus, credentialVars, ngoVars, moneyVars, rescueVars, reactionVars, alertVars>>

C == INSTANCE Credentials WITH
  Handler <- Caller, MaxSessions <- MaxTokens, job <- login
V == INSTANCE Verification WITH deleted <- closed, job <- review
D == INSTANCE Donations WITH status <- donated, Delivery <- Handler
S == INSTANCE RescueSessions
R == INSTANCE Reactions WITH KindOf <- RowKind, job <- reacting
A == INSTANCE AlertFatigue WITH Worker <- Handler, job <- sending

ASSUME PlatformAssumption ==
  /\ C!CredentialsAssumption
  /\ D!DonationsAssumption
  /\ S!RescueSessionsAssumption
  /\ A!AlertFatigueAssumption

Init ==
  /\ focus \in {"credentials", "verification", "donations", "rescue",
                "reactions", "alerts"}
  /\ C!Init /\ V!Init /\ D!Init /\ S!Init /\ R!Init /\ A!Init

Next ==
  /\ UNCHANGED focus
  /\ \/ /\ focus = "credentials"
        /\ C!Next
        /\ UNCHANGED <<ngoVars, moneyVars, rescueVars, reactionVars, alertVars>>
     \/ /\ focus = "verification"
        /\ V!Next
        /\ UNCHANGED <<credentialVars, moneyVars, rescueVars, reactionVars, alertVars>>
     \/ /\ focus = "donations"
        /\ D!Next
        /\ UNCHANGED <<credentialVars, ngoVars, rescueVars, reactionVars, alertVars>>
     \/ /\ focus = "rescue"
        /\ S!Next
        /\ UNCHANGED <<credentialVars, ngoVars, moneyVars, reactionVars, alertVars>>
     \/ /\ focus = "reactions"
        /\ R!Next
        /\ UNCHANGED <<credentialVars, ngoVars, moneyVars, rescueVars, alertVars>>
     \/ /\ focus = "alerts"
        /\ A!Next
        /\ UNCHANGED <<credentialVars, ngoVars, moneyVars, rescueVars, reactionVars>>

Spec == Init /\ [][Next]_vars
FairSpec == Spec /\ V!Fairness /\ S!Fairness
-----------------------------------------------------------------------------
(* Every component's state keeps its type.                                 *)
TypeOK ==
  C!TypeOK /\ V!TypeOK /\ D!TypeOK /\ S!TypeOK /\ R!TypeOK /\ A!TypeOK

(* refresh: a refresh token is exchanged once, however many requests       *)
(* present it, and never when the account is deleted (Credentials).        *)
RotatesOnce == C!RotatesOnce

(* confirm_password_reset: a reset ends the sessions begun with an earlier *)
(* password, those being rotated meanwhile included (Credentials).         *)
ResetEndsSessions == C!ResetEndsSessions

(* refresh and confirm_password_reset, which lock tokens and account in    *)
(* opposite orders, are all that requests can deadlock by (Credentials).   *)
OnlyRotationsDeadlock == C!OnlyRotationsDeadlock

(* An ONG's live account is verified exactly when its profile is approved  *)
(* (Verification).                                                         *)
VerifiedIsApproved == V!VerifiedIsApproved

(* The last required document that is approved gets the ONG approved       *)
(* (Verification).                                                         *)
CompleteIsApproved == V!CompleteIsApproved

(* Donations, ledger and recorded events agree however often an intent or  *)
(* an event is repeated (Donations).                                       *)
LedgerAgrees == D!LedgerAgrees

(* A report under review or published is not rewritten by a slower draft   *)
(* (RescueSessions).                                                       *)
ReviewedTextStays == S!ReviewedTextStays

(* The end of a session is reported and its watchers are told              *)
(* (RescueSessions).                                                       *)
EndIsFollowedUp == S!EndIsFollowedUp

(* The counters of a post agree with its likes, comments and shares unless *)
(* who counted last had to wait (Reactions).                               *)
CountsCatchUp == R!CountsCatchUp

(* Nobody is notified more often than the limits allow, but for one more   *)
(* per replica (AlertFatigue).                                             *)
NobodyIsFlooded == A!NobodyIsFlooded
=============================================================================
