--------------------------- MODULE CredentialsProofs ---------------------------
(***************************************************************************)
(* The credentials of an account, proved for any requests and resets.      *)
(***************************************************************************)
EXTENDS Platform, Sequences, WellFoundedInduction, TLAPS

(***************************************************************************)
(* The inductive invariant.  Nobody holds a row another holds, so what a   *)
(* rotation or a reset has seen stays so until it commits.                 *)
(***************************************************************************)
TokensApart == \A g, h \in Caller : g # h =>
  \A t \in DOMAIN token : ~(C!HoldsToken(g, t) /\ C!HoldsToken(h, t))

AccountApart == ~deleted =>
  \A g, h \in Caller : g # h => ~(C!HoldsUser(g) /\ C!HoldsUser(h))

(* Who has not begun to lock tokens has locked none, and a deletion comes  *)
(* to them when the account is deleted.                                    *)
InOrder == \A h \in Caller :
  /\ login[h].pc \in {"claimed", "changed", "deleted"} => login[h].token = 0
  /\ login[h].pc \in {"deleted", "forgetting"} => deleted

(* A token about to be rotated is live, and so is its account.             *)
RotatesLive == \A h \in Caller :
  C!At(h, "rotate") => ~deleted /\ token[login[h].token].live

(* What a reset does not revoke was stored after it began to.              *)
RestIsLate == ~deleted => \A h \in Caller :
  C!At(h, "revoking") => \A t \in C!Live \ login[h].sees : token[t].late

(* A token that was replaced is dead.                                      *)
ReplacedIsDead == \A s \in DOMAIN token :
  LET p == token[s].parent
  IN  p # 0 => p \in DOMAIN token /\ ~token[p].live

CredentialsInv ==
  /\ C!TypeOK
  /\ TokensApart
  /\ AccountApart
  /\ InOrder
  /\ RotatesLive
  /\ RestIsLate
  /\ ReplacedIsDead
  /\ ResetEndsSessions

LEMMA CredentialsBounds ==
  /\ Original \in C!Password
  /\ MaxTokens \in Nat \ {0}
  /\ C!Idle \in C!Task
BY PlatformAssumption DEF C!CredentialsAssumption, C!Password, C!Idle, C!Task, C!Step

(* What a request becomes, and that the others stay.                       *)
LEMMA Becomes ==
  ASSUME C!TypeOK, NEW h \in Caller, NEW task \in C!Task, C!Become(h, task)
  PROVE  /\ login' \in [Caller -> C!Task]
         /\ login'[h] = task
         /\ \A g \in Caller \ {h} : login'[g] = login[g]
BY DEF C!TypeOK, C!Become

LEMMA CredentialsTypeInit == C!Init => C!TypeOK
<1>1. C!FirstToken \in C!RefreshToken
  BY CredentialsBounds DEF C!FirstToken, C!RefreshToken
<1>2. ASSUME C!Init
      PROVE  C!TypeOK
  <2>1. token \in Seq(C!RefreshToken) /\ Len(token) = 1
    BY <1>1, <1>2 DEF C!Init
  <2>2. \A h \in Caller : login[h] = C!Idle
    BY <1>2 DEF C!Init
  <2>3. login \in [Caller -> C!Task]
    BY <1>2, CredentialsBounds DEF C!Init
  <2>4. C!Idle.token = 0 /\ C!Idle.sees = {} /\ C!Idle.pc = "idle"
    BY DEF C!Idle
  <2>5. DOMAIN token = 1 .. 1
    BY <2>1
  <2>6. \A h \in Caller :
          /\ login[h].token \in 0 .. Len(token)
          /\ login[h].sees \subseteq DOMAIN token
          /\ login[h].pc = "idle"
    <3> SUFFICES ASSUME NEW h \in Caller
                 PROVE  /\ login[h].token \in 0 .. Len(token)
                        /\ login[h].sees \subseteq DOMAIN token
                        /\ login[h].pc = "idle"
      OBVIOUS
    <3>1. login[h].token = 0 /\ login[h].sees = {} /\ login[h].pc = "idle"
      BY <2>2, <2>4, Zenon
    <3>2. QED
      BY <2>1, <3>1
  <2>7. Len(token) <= MaxTokens
    BY <2>1, CredentialsBounds
  <2>8. QED
    BY <1>2, <2>1, <2>3, <2>6, <2>7, CredentialsBounds DEF C!Init, C!TypeOK, C!Resetting
<1>3. QED
  BY <1>2

LEMMA RevokedType ==
  ASSUME C!TypeOK, NEW gone
  PROVE  /\ C!Revoke(gone) \in Seq(C!RefreshToken)
         /\ Len(C!Revoke(gone)) = Len(token)
         /\ DOMAIN C!Revoke(gone) = DOMAIN token
         /\ \A t \in DOMAIN token :
              /\ C!Revoke(gone)[t].live <=> token[t].live /\ t \notin gone
              /\ C!Revoke(gone)[t].parent = token[t].parent
              /\ C!Revoke(gone)[t].proof = token[t].proof
              /\ C!Revoke(gone)[t].late = token[t].late
<1>1. token \in Seq(C!RefreshToken) /\ Len(token) \in Nat /\ DOMAIN token = 1 .. Len(token)
  BY DEF C!TypeOK
<1>2. \A t \in DOMAIN token : token[t] \in C!RefreshToken
  BY <1>1
<1>3. \A t \in DOMAIN token :
        [token[t] EXCEPT !.live = FALSE] \in C!RefreshToken
  BY <1>2 DEF C!RefreshToken
<1>4. C!Revoke(gone) \in [1 .. Len(token) -> C!RefreshToken]
  BY <1>1, <1>2, <1>3 DEF C!Revoke
<1>5. \A t \in DOMAIN token :
        C!Revoke(gone)[t] = IF t \in gone THEN [token[t] EXCEPT !.live = FALSE] ELSE token[t]
  BY DEF C!Revoke
<1>6. \A t \in DOMAIN token :
        /\ C!Revoke(gone)[t].live <=> token[t].live /\ t \notin gone
        /\ C!Revoke(gone)[t].parent = token[t].parent
        /\ C!Revoke(gone)[t].proof = token[t].proof
        /\ C!Revoke(gone)[t].late = token[t].late
  BY <1>2, <1>5 DEF C!RefreshToken
<1>7. C!Revoke(gone) \in Seq(C!RefreshToken) /\ Len(C!Revoke(gone)) = Len(token)
  BY <1>1, <1>4, SMT
<1>8. QED
  BY <1>1, <1>6, <1>7 DEF C!Revoke

(* One request moves on, and nothing else changes.                         *)
Fits(task) ==
  /\ task.token \in 0 .. Len(token)
  /\ task.sees \subseteq DOMAIN token
  /\ task.pc \in {"lookup", "rotate"} => task.token \in DOMAIN token
  /\ task.pc \in C!Resetting => task.key \in mailed

LEMMA FitsNow ==
  ASSUME C!TypeOK, NEW h \in Caller
  PROVE  login[h] \in C!Task /\ Fits(login[h])
BY DEF C!TypeOK, Fits

LEMMA MoveType ==
  ASSUME C!TypeOK, NEW h \in Caller, NEW task \in C!Task, C!Become(h, task), Fits(task),
         UNCHANGED <<password, deleted, token, mailed, used>>
  PROVE  C!TypeOK'
<1>1. \A g \in Caller : login'[g] = IF g = h THEN task ELSE login[g]
  BY Becomes
<1>2. QED
  BY <1>1, Becomes, FitsNow DEF C!TypeOK, Fits, C!Resetting

LEMMA IdleFits == ASSUME C!TypeOK PROVE Fits(C!Idle)
BY DEF C!TypeOK, Fits, C!Idle, C!Resetting

(***************************************************************************)
(* A step that only moves one request on: what it may come to hold and to  *)
(* be at.                                                                  *)
(***************************************************************************)
TaskHolds(task, t) ==
  \/ task.pc \in {"lookup", "rotate"} /\ task.token = t
  \/ task.pc \in {"revoking", "forgetting"} /\ t \in task.sees /\ t <= task.token

Safe(h, task) ==
  /\ Fits(task)
  /\ \A t \in DOMAIN token : TaskHolds(task, t) => C!HoldsToken(h, t) \/ C!TokenFree(h, t)
  /\ ~deleted /\ task.pc \in {"rotate", "changed", "revoking"} =>
       C!HoldsUser(h) \/ C!UserFree(h)
  /\ task.pc \in {"claimed", "changed", "deleted"} => task.token = 0
  /\ task.pc \in {"deleted", "forgetting"} => deleted
  /\ task.pc = "rotate" => ~deleted /\ token[task.token].live
  /\ ~deleted /\ task.pc = "revoking" => \A t \in C!Live \ task.sees : token[t].late

Quietly(h, task) ==
  C!Become(h, task) /\ Safe(h, task) /\ UNCHANGED <<password, deleted, token, mailed, used>>

LEMMA QuietInv ==
  ASSUME CredentialsInv, NEW h \in Caller, NEW task \in C!Task, Quietly(h, task)
  PROVE  CredentialsInv'
<1>0. /\ \A g \in Caller : login'[g] = IF g = h THEN task ELSE login[g]
      /\ UNCHANGED <<password, deleted, token, mailed, used>>
  BY Becomes DEF CredentialsInv, Quietly
<1>1. C!TypeOK'
  BY MoveType DEF CredentialsInv, Quietly, Safe
<1>2. \A g \in Caller, t \in DOMAIN token :
        C!HoldsToken(g, t)' <=> IF g = h THEN TaskHolds(task, t) ELSE C!HoldsToken(g, t)
  BY <1>0 DEF C!HoldsToken, TaskHolds
<1>3. TokensApart'
  BY <1>0, <1>2 DEF CredentialsInv, TokensApart, Quietly, Safe, C!TokenFree
<1>4. ~deleted => \A g \in Caller :
        C!HoldsUser(g)' <=> IF g = h THEN task.pc \in {"rotate", "changed", "revoking"}
                                     ELSE C!HoldsUser(g)
  BY <1>0 DEF C!HoldsUser, C!At
<1>5. AccountApart'
  BY <1>0, <1>4 DEF CredentialsInv, AccountApart, Quietly, Safe, C!UserFree
<1>6. InOrder'
  BY <1>0 DEF CredentialsInv, InOrder, Quietly, Safe
<1>7. RotatesLive'
  BY <1>0 DEF CredentialsInv, RotatesLive, Quietly, Safe, C!At
<1>8. RestIsLate'
  BY <1>0 DEF CredentialsInv, RestIsLate, Quietly, Safe, C!At, C!Live
<1>9. ReplacedIsDead' /\ ResetEndsSessions'
  BY <1>0 DEF CredentialsInv, ReplacedIsDead, ResetEndsSessions, C!ResetEndsSessions, C!Live
<1>10. QED
  BY <1>1, <1>3, <1>5, <1>6, <1>7, <1>8, <1>9 DEF CredentialsInv

LEMMA IdleSafe == ASSUME C!TypeOK, NEW h \in Caller PROVE Safe(h, C!Idle)
BY IdleFits DEF Safe, TaskHolds, C!Idle

LEMMA TokenDomain ==
  ASSUME C!TypeOK
  PROVE  /\ Len(token) \in Nat /\ Len(token) <= MaxTokens
         /\ DOMAIN token = 1 .. Len(token)
         /\ DOMAIN token \subseteq 1 .. MaxTokens
         /\ C!Live \subseteq DOMAIN token
         /\ \A t \in DOMAIN token : token[t] \in C!RefreshToken
<1>1. token \in Seq(C!RefreshToken) /\ Len(token) <= MaxTokens
  BY DEF C!TypeOK
<1>2. Len(token) \in Nat /\ DOMAIN token = 1 .. Len(token)
  BY <1>1
<1>3. \A t \in DOMAIN token : token[t] \in C!RefreshToken
  BY <1>1
<1>4. QED
  BY <1>1, <1>2, <1>3, CredentialsBounds DEF C!Live

(* One lemma for each such step.                                           *)
LEMMA LoginSafe ==
  ASSUME CredentialsInv, NEW h \in Caller, C!Login(h)
  PROVE  \E task \in C!Task : Quietly(h, task)
<1> DEFINE task == [C!Idle EXCEPT !.pc = "issue", !.key = password]
<1>1. C!TypeOK
  BY DEF CredentialsInv
<1>2. task \in C!Task /\ Fits(task)
  <2>1. C!Idle \in C!Task /\ Fits(C!Idle) /\ password \in C!Password
    BY <1>1, CredentialsBounds, IdleFits DEF C!TypeOK
  <2>2. QED
    BY <2>1 DEF C!Task, C!Step, Fits, C!Resetting
<1>3. task.pc = "issue"
  BY CredentialsBounds DEF C!Task
<1>4. Safe(h, task)
  BY <1>2, <1>3 DEF Safe, TaskHolds
<1>5. QED
  BY <1>2, <1>4 DEF C!Login, Quietly

LEMMA LockTokenSafe ==
  ASSUME CredentialsInv, NEW h \in Caller, NEW t \in DOMAIN token, C!LockToken(h, t)
  PROVE  \E task \in C!Task : Quietly(h, task)
<1> DEFINE task == [C!Idle EXCEPT !.pc = "lookup", !.token = t]
<1>1. C!TypeOK
  BY DEF CredentialsInv
<1>2. C!Idle \in C!Task /\ Fits(C!Idle)
  BY <1>1, CredentialsBounds, IdleFits
<1>3. t \in 0 .. MaxTokens /\ t \in 0 .. Len(token)
  BY <1>1, TokenDomain
<1>4. task \in C!Task /\ task.pc = "lookup" /\ task.token = t /\ task.sees = C!Idle.sees
  BY <1>2, <1>3 DEF C!Task, C!Step
<1>5. Fits(task)
  BY <1>2, <1>3, <1>4 DEF Fits, C!Resetting
<1>6. Safe(h, task)
  BY <1>4, <1>5 DEF Safe, TaskHolds, C!LockToken
<1>7. QED
  BY <1>4, <1>6 DEF C!LockToken, Quietly

LEMMA LockAccountSafe ==
  ASSUME CredentialsInv, NEW h \in Caller, C!LockAccount(h)
  PROVE  \E task \in C!Task : Quietly(h, task)
<1> DEFINE task == [login[h] EXCEPT !.pc = "rotate"]
<1>1. C!TypeOK /\ login[h].pc = "lookup"
  BY DEF CredentialsInv, C!LockAccount, C!At
<1>2. login[h] \in C!Task /\ Fits(login[h])
  BY <1>1, FitsNow
<1>3. task \in C!Task /\ task.pc = "rotate" /\ task.token = login[h].token
  BY <1>2 DEF C!Task, C!Step
<1>4. Fits(task)
  BY <1>1, <1>2 DEF Fits, C!Task, C!Resetting
<1>5. CASE token[login[h].token].live /\ ~deleted
  <2>1. Safe(h, task)
    BY <1>1, <1>3, <1>4, <1>5 DEF Safe, TaskHolds, C!HoldsToken, C!LockAccount
  <2>2. C!Become(h, task)
    BY <1>5 DEF C!LockAccount, C!GoTo, C!Become
  <2>3. QED
    BY <1>3, <2>1, <2>2 DEF C!LockAccount, Quietly
<1>6. CASE ~(token[login[h].token].live /\ ~deleted)
  BY <1>1, <1>6, IdleSafe, CredentialsBounds DEF C!LockAccount, C!Finish, Quietly
<1>7. QED
  BY <1>5, <1>6

LEMMA ClaimResetSafe ==
  ASSUME CredentialsInv, NEW h \in Caller, NEW r \in Reset, C!ClaimReset(h, r)
  PROVE  \E task \in C!Task : Quietly(h, task)
<1> DEFINE task == [C!Idle EXCEPT !.pc = "claimed", !.key = r]
<1>1. C!TypeOK /\ r \in mailed
  BY DEF CredentialsInv, C!ClaimReset
<1>2. task \in C!Task /\ Fits(task)
  <2>1. C!Idle \in C!Task /\ Fits(C!Idle)
    BY <1>1, CredentialsBounds, IdleFits
  <2>2. QED
    BY <1>1, <2>1 DEF C!Task, C!Step, Fits, C!Password
<1>3. task.pc = "claimed" /\ task.token = 0
  BY DEF C!Idle
<1>4. Safe(h, task)
  BY <1>2, <1>3 DEF Safe, TaskHolds
<1>5. QED
  BY <1>2, <1>4 DEF C!ClaimReset, Quietly

LEMMA ChangePasswordSafe ==
  ASSUME CredentialsInv, NEW h \in Caller, C!ChangePassword(h)
  PROVE  \E task \in C!Task : Quietly(h, task)
<1> DEFINE task == [login[h] EXCEPT !.pc = "changed"]
<1>1. C!TypeOK /\ login[h].pc = "claimed" /\ login[h].token = 0
  BY DEF CredentialsInv, C!ChangePassword, C!At, InOrder
<1>2. login[h] \in C!Task /\ Fits(login[h])
  BY <1>1, FitsNow
<1>3. task \in C!Task /\ task.pc = "changed" /\ task.token = 0
  BY <1>1, <1>2 DEF C!Task, C!Step
<1>4. Fits(task)
  BY <1>1, <1>2 DEF Fits, C!Task, C!Resetting
<1>5. Safe(h, task)
  BY <1>3, <1>4 DEF Safe, TaskHolds, C!ChangePassword
<1>6. QED
  BY <1>3, <1>5 DEF C!ChangePassword, C!GoTo, C!Become, Quietly

LEMMA SurveySafe ==
  ASSUME CredentialsInv, NEW h \in Caller, C!Survey(h)
  PROVE  \E task \in C!Task : Quietly(h, task)
<1> DEFINE reset == [login[h] EXCEPT !.pc = "revoking", !.sees = C!Live]
           removal == [login[h] EXCEPT !.pc = "forgetting", !.sees = DOMAIN token]
<1>1. C!TypeOK /\ login[h].token = 0
  BY DEF CredentialsInv, C!Survey, C!At, InOrder
<1>2. login[h] \in C!Task /\ Fits(login[h])
  BY <1>1, FitsNow
<1>3. CASE C!At(h, "changed") /\ C!Become(h, reset)
  <2>1. /\ reset \in C!Task /\ reset.pc = "revoking" /\ reset.token = 0
        /\ reset.sees = C!Live /\ reset.key = login[h].key
    BY <1>1, <1>2, TokenDomain DEF C!Task, C!Step
  <2>2. Fits(reset)
    BY <1>1, <1>2, <1>3, <2>1, TokenDomain DEF Fits, C!At, C!Resetting
  <2>3. \A t \in DOMAIN token : ~TaskHolds(reset, t)
    BY <1>1, <2>1, TokenDomain DEF TaskHolds
  <2>4. Safe(h, reset)
    BY <1>3, <2>1, <2>2, <2>3 DEF Safe, C!HoldsUser, C!At
  <2>5. QED
    BY <1>3, <2>1, <2>4 DEF C!Survey, Quietly
<1>4. CASE C!At(h, "deleted") /\ C!Become(h, removal)
  <2>1. /\ removal \in C!Task /\ removal.pc = "forgetting" /\ removal.token = 0
        /\ removal.sees = DOMAIN token
    BY <1>1, <1>2, TokenDomain DEF C!Task, C!Step
  <2>2. Fits(removal)
    BY <1>1, <1>2, <2>1, TokenDomain DEF Fits, C!Resetting
  <2>3. \A t \in DOMAIN token : ~TaskHolds(removal, t)
    BY <1>1, <2>1, TokenDomain DEF TaskHolds
  <2>4. Safe(h, removal)
    BY <1>4, <2>1, <2>2, <2>3 DEF CredentialsInv, InOrder, Safe, C!At
  <2>5. QED
    BY <1>4, <2>1, <2>4 DEF C!Survey, Quietly
<1>5. QED
  BY <1>3, <1>4 DEF C!Survey

LEMMA SeizeSafe ==
  ASSUME CredentialsInv, NEW h \in Caller, C!Seize(h)
  PROVE  \E task \in C!Task : Quietly(h, task)
<1>1. C!TypeOK /\ login[h].pc \in {"revoking", "forgetting"}
  BY DEF CredentialsInv, C!Seize
<1>2. login[h] \in C!Task /\ Fits(login[h])
  BY <1>1, FitsNow
<1>3. PICK t \in C!Ahead(h) :
        C!NextIs(h, t) /\ C!TokenFree(h, t) /\ login' = [login EXCEPT ![h].token = t]
  BY DEF C!Seize
<1> DEFINE task == [login[h] EXCEPT !.token = t]
<1>4. t \in DOMAIN token /\ t \in 0 .. MaxTokens /\ t \in login[h].sees
  BY <1>1, <1>2, TokenDomain DEF C!Ahead, Fits
<1>5. /\ task \in C!Task
      /\ task.pc = login[h].pc /\ task.token = t
      /\ task.key = login[h].key /\ task.sees = login[h].sees
  BY <1>2, <1>4 DEF C!Task
<1>6. Fits(task)
  BY <1>1, <1>2, <1>4, <1>5, TokenDomain DEF Fits
<1>7. ASSUME NEW s \in DOMAIN token, TaskHolds(task, s), s # t
      PROVE  C!HoldsToken(h, s)
  <2>1. s \in login[h].sees /\ s <= t /\ s \in Nat /\ t \in Nat /\ login[h].token \in Nat
    BY <1>1, <1>2, <1>4, <1>5, <1>7, TokenDomain DEF TaskHolds, C!Task
  <2>2. s <= login[h].token
    BY <1>3, <1>7, <2>1 DEF C!NextIs, C!Ahead
  <2>3. QED
    BY <1>1, <2>1, <2>2 DEF C!HoldsToken
<1>8. Safe(h, task)
  <2>1. \A s \in DOMAIN token : TaskHolds(task, s) => C!HoldsToken(h, s) \/ C!TokenFree(h, s)
    BY <1>3, <1>7
  <2>2. ~deleted /\ task.pc = "revoking" => C!HoldsUser(h)
    BY <1>5 DEF C!HoldsUser
  <2>3. ~deleted /\ task.pc = "revoking" => \A s \in C!Live \ task.sees : token[s].late
    BY <1>5 DEF CredentialsInv, RestIsLate, C!At
  <2>4. task.pc = "forgetting" => deleted
    BY <1>5 DEF CredentialsInv, InOrder
  <2>5. QED
    BY <1>1, <1>5, <1>6, <2>1, <2>2, <2>3, <2>4 DEF Safe
<1>9. QED
  BY <1>3, <1>5, <1>8 DEF C!Seize, C!Become, Quietly

LEMMA AbortSafe ==
  ASSUME CredentialsInv, NEW h \in Caller, C!Abort(h)
  PROVE  \E task \in C!Task : Quietly(h, task)
BY IdleSafe, CredentialsBounds DEF CredentialsInv, C!Abort, C!Finish, Quietly

(***************************************************************************)
(* The steps that write.                                                   *)
(***************************************************************************)
LEMMA QuietCases ==
  ASSUME CredentialsInv, NEW h \in Caller,
         \/ C!Login(h) \/ C!LockAccount(h) \/ C!ChangePassword(h) \/ C!Survey(h)
         \/ C!Seize(h) \/ C!Abort(h)
         \/ \E t \in DOMAIN token : C!LockToken(h, t)
         \/ \E r \in Reset : C!ClaimReset(h, r)
  PROVE  CredentialsInv'
<1>1. \E task \in C!Task : Quietly(h, task)
  BY LoginSafe, LockAccountSafe, ChangePasswordSafe, SurveySafe, SeizeSafe, AbortSafe,
     LockTokenSafe, ClaimResetSafe
<1>2. QED
  BY <1>1, QuietInv

LEMMA AppendedType ==
  ASSUME C!TypeOK, NEW kept \in Seq(C!RefreshToken), Len(kept) = Len(token),
         NEW row \in C!RefreshToken, Len(token) < MaxTokens, token' = Append(kept, row)
  PROVE  /\ token' \in Seq(C!RefreshToken)
         /\ Len(token') = Len(token) + 1 /\ Len(token') <= MaxTokens
         /\ DOMAIN token' = DOMAIN token \cup {Len(token) + 1}
         /\ Len(token) + 1 \notin DOMAIN token
         /\ token'[Len(token) + 1] = row
         /\ \A t \in DOMAIN token : token'[t] = kept[t]
<1>1. Len(token) \in Nat /\ DOMAIN token = 1 .. Len(token) /\ DOMAIN kept = 1 .. Len(token)
  BY TokenDomain
<1>2. token' \in Seq(C!RefreshToken) /\ Len(token') = Len(token) + 1
  BY <1>1
<1>3. DOMAIN token' = 1 .. Len(token) + 1
  BY <1>1, <1>2
<1>4. \A t \in 1 .. Len(token) : token'[t] = kept[t]
  BY <1>1
<1>5. token'[Len(token) + 1] = row
  BY <1>1
<1>6. QED
  BY <1>1, <1>2, <1>3, <1>4, <1>5, CredentialsBounds

(* h is done, and the table grew or tokens died.                           *)
LEMMA FinishType ==
  ASSUME C!TypeOK, NEW h \in Caller, C!Finish(h),
         token' \in Seq(C!RefreshToken), Len(token') \in Nat,
         Len(token) <= Len(token'), Len(token') <= MaxTokens,
         password' \in C!Password, deleted' \in BOOLEAN, UNCHANGED mailed,
         used' \subseteq mailed
  PROVE  /\ C!TypeOK'
         /\ \A g \in Caller : login'[g] = IF g = h THEN C!Idle ELSE login[g]
<1>1. login' \in [Caller -> C!Task]
      /\ \A g \in Caller : login'[g] = IF g = h THEN C!Idle ELSE login[g]
  BY Becomes, CredentialsBounds DEF C!Finish
<1>2. DOMAIN token = 1 .. Len(token) /\ DOMAIN token' = 1 .. Len(token') /\ Len(token) \in Nat
  BY TokenDomain
<1>3. \A g \in Caller :
        /\ login'[g].token \in 0 .. Len(token')
        /\ login'[g].sees \subseteq DOMAIN token'
        /\ login'[g].pc \in {"lookup", "rotate"} => login'[g].token \in DOMAIN token'
        /\ login'[g].pc \in C!Resetting => login'[g].key \in mailed
  <2> TAKE g \in Caller
  <2>1. CASE g = h
    <3>1. Fits(C!Idle) /\ login'[g] = C!Idle /\ C!Idle \in C!Task
      BY <1>1, <2>1, IdleFits, CredentialsBounds
    <3>2. QED
      BY <1>2, <3>1 DEF Fits, C!Task
  <2>2. CASE g # h
    <3>1. Fits(login[g]) /\ login'[g] = login[g] /\ login[g] \in C!Task
      BY <1>1, <2>2, FitsNow
    <3>2. QED
      BY <1>2, <3>1 DEF Fits, C!Task
  <2>3. QED
    BY <2>1, <2>2
<1>4. QED
  BY <1>1, <1>3 DEF C!TypeOK

LEMMA IssueInv ==
  ASSUME CredentialsInv, NEW h \in Caller, C!Issue(h)
  PROVE  CredentialsInv'
<1> DEFINE n == Len(token) + 1
           row == [live |-> TRUE, parent |-> 0, proof |-> login[h].key, late |-> C!Overtaken(h)]
<1>0. C!TypeOK /\ login[h] \in C!Task /\ C!At(h, "issue")
  BY DEF CredentialsInv, C!TypeOK, C!Issue
<1>1. row \in C!RefreshToken
  BY <1>0, CredentialsBounds DEF C!RefreshToken, C!Overtaken, C!Task
<1>2. /\ token' \in Seq(C!RefreshToken)
      /\ Len(token') = n /\ n <= MaxTokens
      /\ DOMAIN token' = DOMAIN token \cup {n} /\ n \notin DOMAIN token
      /\ token'[n] = row
      /\ \A t \in DOMAIN token : token'[t] = token[t]
  BY <1>0, <1>1, AppendedType DEF C!Issue, C!TypeOK
<1>3. /\ C!TypeOK'
      /\ \A g \in Caller : login'[g] = IF g = h THEN C!Idle ELSE login[g]
  <2>1. C!Finish(h) /\ UNCHANGED <<password, deleted, mailed, used>>
    BY DEF C!Issue
  <2>2. /\ password \in C!Password /\ deleted \in BOOLEAN /\ used \subseteq mailed
        /\ Len(token) \in Nat
    BY <1>0, TokenDomain DEF C!TypeOK
  <2>3. Len(token') \in Nat /\ Len(token) <= Len(token') /\ Len(token') <= MaxTokens
    BY <1>2, <2>2
  <2>4. QED
    BY <1>0, <1>2, <2>1, <2>2, <2>3, FinishType
<1>4. C!Idle.pc = "idle"
  BY DEF C!Idle
<1>5. \A g \in Caller : Fits(login[g])
  BY <1>0, FitsNow
<1>6. TokensApart'
  <2>1. \A g \in Caller, t \in DOMAIN token' :
          C!HoldsToken(g, t)' => t \in DOMAIN token /\ C!HoldsToken(g, t)
    BY <1>3, <1>4, <1>5 DEF C!HoldsToken, Fits
  <2>2. QED
    BY <2>1 DEF CredentialsInv, TokensApart
<1>7. AccountApart'
  BY <1>3, <1>4 DEF CredentialsInv, AccountApart, C!HoldsUser, C!At, C!Issue
<1>8. InOrder'
  BY <1>3, <1>4 DEF CredentialsInv, InOrder, C!Issue
<1>9. RotatesLive'
  BY <1>2, <1>3, <1>4, <1>5 DEF CredentialsInv, RotatesLive, C!At, C!Issue, Fits
<1>10. C!Live' = C!Live \cup {n}
  BY <1>2 DEF C!Live
<1>11. RestIsLate'
  <2>1. ASSUME NEW g \in Caller, login'[g].pc = "revoking"
        PROVE  row.late /\ login[g].pc = "revoking" /\ login'[g] = login[g]
    BY <1>3, <1>4, <2>1 DEF C!Overtaken, C!At
  <2>2. C!Live \subseteq DOMAIN token
    BY DEF C!Live
  <2>3. QED
    BY <1>2, <1>10, <2>1, <2>2 DEF CredentialsInv, RestIsLate, C!At, C!Issue
<1>12. ReplacedIsDead'
  BY <1>2 DEF CredentialsInv, ReplacedIsDead
<1>13. ResetEndsSessions'
  BY <1>2, <1>10 DEF CredentialsInv, ResetEndsSessions, C!ResetEndsSessions, C!Overtaken,
                     C!Issue, C!Live
<1>14. QED
  BY <1>3, <1>6, <1>7, <1>8, <1>9, <1>11, <1>12, <1>13 DEF CredentialsInv

LEMMA RotateInv ==
  ASSUME CredentialsInv, NEW h \in Caller, C!Rotate(h)
  PROVE  /\ CredentialsInv'
         /\ ~deleted
         /\ DOMAIN token' = DOMAIN token \cup {Len(token) + 1}
         /\ token'[Len(token) + 1].parent = login[h].token
         /\ \A s \in DOMAIN token : token[s].parent # login[h].token
<1> DEFINE n == Len(token) + 1
           p == login[h].token
           row == C!Replacement(h)
<1>0. /\ C!TypeOK /\ login[h] \in C!Task /\ login[h].pc = "rotate"
      /\ p \in DOMAIN token /\ p \in 1 .. MaxTokens
      /\ ~deleted /\ token[p].live /\ token[p] \in C!RefreshToken
  <2>1. C!TypeOK /\ login[h].pc = "rotate" /\ ~deleted /\ token[p].live
    BY DEF CredentialsInv, C!Rotate, C!At, RotatesLive
  <2>2. QED
    BY <2>1, TokenDomain, FitsNow DEF Fits
<1>1. /\ row \in C!RefreshToken /\ row.live /\ row.parent = p
      /\ row.proof = token[p].proof /\ row.late = token[p].late
  <2>1. row = [token[p] EXCEPT !.live = TRUE, !.parent = p]
    BY DEF C!Replacement
  <2>2. p \in 0 .. MaxTokens
    BY <1>0, CredentialsBounds
  <2> HIDE DEF p, row
  <2>3. QED
    BY <1>0, <2>1, <2>2 DEF C!RefreshToken
<1>2. /\ token' \in Seq(C!RefreshToken)
      /\ Len(token') = n /\ n <= MaxTokens
      /\ DOMAIN token' = DOMAIN token \cup {n} /\ n \notin DOMAIN token
      /\ token'[n] = row
      /\ \A t \in DOMAIN token : token'[t] = C!Revoke({p})[t]
  <2>1. C!Revoke({p}) \in Seq(C!RefreshToken) /\ Len(C!Revoke({p})) = Len(token)
    BY <1>0, RevokedType
  <2>2. token' = Append(C!Revoke({p}), row) /\ Len(token) < MaxTokens
    BY DEF C!Rotate
  <2> HIDE DEF p, row
  <2>3. QED
    BY <1>0, <1>1, <2>1, <2>2, AppendedType
<1>3. \A t \in DOMAIN token :
        /\ token'[t].live <=> token[t].live /\ t # p
        /\ token'[t].parent = token[t].parent
        /\ token'[t].proof = token[t].proof
        /\ token'[t].late = token[t].late
  BY <1>0, <1>2, RevokedType
<1>4. /\ C!TypeOK'
      /\ \A g \in Caller : login'[g] = IF g = h THEN C!Idle ELSE login[g]
  <2>1. C!Finish(h) /\ UNCHANGED <<password, deleted, mailed, used>>
    BY DEF C!Rotate
  <2>2. /\ password \in C!Password /\ deleted \in BOOLEAN /\ used \subseteq mailed
        /\ Len(token) \in Nat
    BY <1>0, TokenDomain DEF C!TypeOK
  <2>3. Len(token') \in Nat /\ Len(token) <= Len(token') /\ Len(token') <= MaxTokens
    BY <1>2, <2>2
  <2>4. QED
    BY <1>0, <1>2, <2>1, <2>2, <2>3, FinishType
<1>5. C!Idle.pc = "idle"
  BY DEF C!Idle
<1>6. \A g \in Caller : Fits(login[g])
  BY <1>0, FitsNow
<1>7. TokensApart'
  <2>1. \A g \in Caller, t \in DOMAIN token' :
          C!HoldsToken(g, t)' => t \in DOMAIN token /\ C!HoldsToken(g, t)
    BY <1>4, <1>5, <1>6 DEF C!HoldsToken, Fits
  <2>2. QED
    BY <2>1 DEF CredentialsInv, TokensApart
<1>8. AccountApart'
  BY <1>4, <1>5 DEF CredentialsInv, AccountApart, C!HoldsUser, C!At, C!Rotate
<1>9. InOrder'
  BY <1>4, <1>5 DEF CredentialsInv, InOrder, C!Rotate
<1>10. RotatesLive'
  <2>1. ASSUME NEW g \in Caller, login'[g].pc = "rotate"
        PROVE  g # h /\ login'[g] = login[g] /\ login[g].token \in DOMAIN token
               /\ login[g].token # p
    <3>1. g # h /\ login'[g] = login[g] /\ login[g].token \in DOMAIN token
      BY <1>4, <1>5, <1>6, <2>1 DEF Fits
    <3>2. C!HoldsToken(h, p)
      BY <1>0 DEF C!HoldsToken
    <3>3. C!HoldsToken(g, login[g].token)
      BY <2>1, <3>1 DEF C!HoldsToken
    <3>4. QED
      BY <1>0, <3>1, <3>2, <3>3 DEF CredentialsInv, TokensApart
  <2>2. QED
    BY <1>0, <1>3, <2>1 DEF CredentialsInv, RotatesLive, C!At, C!Rotate
<1>11. RestIsLate'
  <2>1. ASSUME NEW g \in Caller, login'[g].pc = "revoking"
        PROVE  FALSE
    <3>1. g # h /\ C!HoldsUser(g) /\ C!HoldsUser(h)
      BY <1>0, <1>4, <1>5, <2>1 DEF C!HoldsUser, C!At
    <3>2. QED
      BY <1>0, <3>1 DEF CredentialsInv, AccountApart
  <2>2. QED
    BY <2>1 DEF RestIsLate, C!At
<1>12. ReplacedIsDead'
  BY <1>0, <1>1, <1>2, <1>3 DEF CredentialsInv, ReplacedIsDead
<1>13. ResetEndsSessions'
  <2>1. ~deleted' /\ password' = password
    BY <1>0 DEF C!Rotate
  <2>2. \A t \in DOMAIN token : token[t].live /\ token[t].proof # password => token[t].late
    BY <1>0 DEF CredentialsInv, ResetEndsSessions, C!ResetEndsSessions, C!Live
  <2>3. ASSUME NEW t \in DOMAIN token', token'[t].live, token'[t].proof # password
        PROVE  token'[t].late
    <3>1. CASE t = n
      BY <1>0, <1>1, <1>2, <2>2, <2>3, <3>1
    <3>2. CASE t # n
      BY <1>2, <1>3, <2>2, <2>3, <3>2
    <3>3. QED
      BY <3>1, <3>2
  <2>4. QED
    BY <2>1, <2>3 DEF ResetEndsSessions, C!ResetEndsSessions, C!Live
<1>14. \A s \in DOMAIN token : token[s].parent # p
  BY <1>0 DEF CredentialsInv, ReplacedIsDead
<1>15. CredentialsInv'
  BY <1>4, <1>7, <1>8, <1>9, <1>10, <1>11, <1>12, <1>13 DEF CredentialsInv
<1>16. QED
  BY <1>0, <1>1, <1>2, <1>14, <1>15

(* h has all it saw and revokes it: it was the only one to hold it.        *)
LEMMA RevokeInv ==
  ASSUME CredentialsInv, NEW h \in Caller,
         login[h].pc \in {"revoking", "forgetting"}, C!Ahead(h) = {},
         token' = C!Revoke(login[h].sees), C!Finish(h), UNCHANGED <<deleted, mailed>>,
         password' \in C!Password, used' \subseteq mailed
  PROVE  /\ C!TypeOK' /\ TokensApart' /\ AccountApart' /\ InOrder'
         /\ RotatesLive' /\ ReplacedIsDead'
         /\ \A g \in Caller : login'[g] = IF g = h THEN C!Idle ELSE login[g]
         /\ C!Idle.pc = "idle"
         /\ DOMAIN token' = DOMAIN token
         /\ C!Live' = C!Live \ login[h].sees
         /\ \A t \in DOMAIN token :
              token'[t].proof = token[t].proof /\ token'[t].late = token[t].late
<1>0. C!TypeOK /\ login[h] \in C!Task /\ \A g \in Caller : Fits(login[g])
  BY FitsNow DEF CredentialsInv
<1>1. /\ token' \in Seq(C!RefreshToken)
      /\ Len(token') = Len(token)
      /\ DOMAIN token' = DOMAIN token
      /\ \A t \in DOMAIN token :
           /\ token'[t].live <=> token[t].live /\ t \notin login[h].sees
           /\ token'[t].parent = token[t].parent
           /\ token'[t].proof = token[t].proof
           /\ token'[t].late = token[t].late
  BY <1>0, RevokedType
<1>2. /\ C!TypeOK'
      /\ \A g \in Caller : login'[g] = IF g = h THEN C!Idle ELSE login[g]
  <2>1. /\ Len(token) \in Nat /\ Len(token) <= MaxTokens /\ deleted' \in BOOLEAN
    BY <1>0, TokenDomain DEF C!TypeOK
  <2>2. Len(token') \in Nat /\ Len(token) <= Len(token') /\ Len(token') <= MaxTokens
    BY <1>1, <2>1
  <2>3. QED
    BY <1>0, <1>1, <2>1, <2>2, FinishType
<1>3. C!Idle.pc = "idle"
  BY DEF C!Idle
<1>4. TokensApart'
  <2>1. \A g \in Caller, t \in DOMAIN token : C!HoldsToken(g, t)' => C!HoldsToken(g, t)
    BY <1>2, <1>3 DEF C!HoldsToken
  <2>2. QED
    BY <1>1, <2>1 DEF CredentialsInv, TokensApart
<1>5. AccountApart'
  BY <1>2, <1>3 DEF CredentialsInv, AccountApart, C!HoldsUser, C!At
<1>6. InOrder'
  BY <1>2, <1>3 DEF CredentialsInv, InOrder
<1>7. ASSUME NEW t \in login[h].sees
      PROVE  C!HoldsToken(h, t)
  <2>1. t \in Nat /\ login[h].token \in Nat
    BY <1>0 DEF C!Task
  <2>2. t <= login[h].token
    BY <2>1 DEF C!Ahead
  <2>3. QED
    BY <2>2 DEF C!HoldsToken
<1>8. RotatesLive'
  <2>1. ASSUME NEW g \in Caller, login'[g].pc = "rotate"
        PROVE  ~deleted' /\ token'[login'[g].token].live
    <3>1. g # h /\ login'[g] = login[g] /\ login[g].token \in DOMAIN token
      BY <1>0, <1>2, <1>3, <2>1 DEF Fits
    <3>2. C!HoldsToken(g, login[g].token)
      BY <2>1, <3>1 DEF C!HoldsToken
    <3>3. login[g].token \notin login[h].sees
      BY <1>7, <3>1, <3>2 DEF CredentialsInv, TokensApart
    <3>4. QED
      BY <1>1, <2>1, <3>1, <3>3 DEF CredentialsInv, RotatesLive, C!At
  <2>2. QED
    BY <2>1 DEF RotatesLive, C!At
<1>9. ReplacedIsDead'
  BY <1>1 DEF CredentialsInv, ReplacedIsDead
<1>10. C!Live' = C!Live \ login[h].sees
  BY <1>1 DEF C!Live
<1>11. QED
  BY <1>1, <1>2, <1>3, <1>4, <1>5, <1>6, <1>8, <1>9, <1>10

LEMMA CommitResetInv ==
  ASSUME CredentialsInv, NEW h \in Caller, C!CommitReset(h)
  PROVE  CredentialsInv'
<1>0. login[h].pc = "revoking"
  BY DEF C!CommitReset, C!At
<1>1. login[h].key \in mailed /\ login[h].key \in C!Password
      /\ password \in C!Password /\ used \subseteq mailed
  BY <1>0 DEF CredentialsInv, C!TypeOK, C!Resetting, C!Password
<1>2. password' \in C!Password /\ used' \subseteq mailed
  BY <1>1 DEF C!CommitReset
<1>3. /\ C!TypeOK' /\ TokensApart' /\ AccountApart' /\ InOrder'
      /\ RotatesLive' /\ ReplacedIsDead'
      /\ \A g \in Caller : login'[g] = IF g = h THEN C!Idle ELSE login[g]
      /\ C!Idle.pc = "idle"
      /\ DOMAIN token' = DOMAIN token
      /\ C!Live' = C!Live \ login[h].sees
      /\ \A t \in DOMAIN token :
           token'[t].proof = token[t].proof /\ token'[t].late = token[t].late
  BY <1>0, <1>2, RevokeInv DEF C!CommitReset
<1>4. RestIsLate'
  <2>1. ASSUME NEW g \in Caller, login'[g].pc = "revoking", ~deleted
        PROVE  FALSE
    <3>1. g # h /\ C!HoldsUser(g) /\ C!HoldsUser(h)
      BY <1>0, <1>3, <2>1 DEF C!HoldsUser
    <3>2. QED
      BY <2>1, <3>1 DEF CredentialsInv, AccountApart
  <2>2. QED
    BY <2>1 DEF RestIsLate, C!At, C!CommitReset
<1>5. ResetEndsSessions'
  <2>1. ASSUME ~deleted, NEW t \in C!Live \ login[h].sees
        PROVE  token'[t].late
    BY <1>0, <1>3, <2>1 DEF CredentialsInv, RestIsLate, C!At, C!Live
  <2>2. QED
    BY <1>3, <2>1 DEF ResetEndsSessions, C!ResetEndsSessions, C!CommitReset
<1>6. QED
  BY <1>3, <1>4, <1>5 DEF CredentialsInv

LEMMA RevokeAllInv ==
  ASSUME CredentialsInv, NEW h \in Caller, C!RevokeAll(h)
  PROVE  CredentialsInv'
<1>1. password' \in C!Password /\ used' \subseteq mailed
  BY DEF CredentialsInv, C!TypeOK, C!RevokeAll
<1>2. /\ C!TypeOK' /\ TokensApart' /\ AccountApart' /\ InOrder'
      /\ RotatesLive' /\ ReplacedIsDead'
      /\ \A g \in Caller : login'[g] = IF g = h THEN C!Idle ELSE login[g]
      /\ C!Idle.pc = "idle"
      /\ DOMAIN token' = DOMAIN token
      /\ C!Live' = C!Live \ login[h].sees
      /\ \A t \in DOMAIN token :
           token'[t].proof = token[t].proof /\ token'[t].late = token[t].late
  BY <1>1, RevokeInv DEF C!RevokeAll, C!At
<1>3. RestIsLate'
  BY <1>2 DEF CredentialsInv, RestIsLate, C!At, C!RevokeAll, C!Live
<1>4. ResetEndsSessions'
  BY <1>2 DEF CredentialsInv, ResetEndsSessions, C!ResetEndsSessions, C!RevokeAll, C!Live
<1>5. QED
  BY <1>2, <1>3, <1>4 DEF CredentialsInv

LEMMA DeleteUserInv ==
  ASSUME CredentialsInv, NEW h \in Caller, C!DeleteUser(h)
  PROVE  CredentialsInv'
<1> DEFINE task == [C!Idle EXCEPT !.pc = "deleted"]
<1>0. C!TypeOK /\ C!Idle \in C!Task /\ Fits(C!Idle) /\ C!Idle.token = 0
  BY CredentialsBounds, IdleFits DEF CredentialsInv, C!Idle
<1>1. /\ task \in C!Task /\ task.pc = "deleted" /\ task.token = 0
      /\ task.sees = C!Idle.sees
  BY <1>0 DEF C!Task, C!Step
<1>2. Fits(task)
  BY <1>0, <1>1 DEF Fits, C!Resetting
<1> HIDE DEF task
<1>3. /\ login' \in [Caller -> C!Task]
      /\ \A g \in Caller : login'[g] = IF g = h THEN task ELSE login[g]
      /\ deleted' = TRUE /\ UNCHANGED <<password, token, mailed, used>>
  BY <1>0, <1>1, Becomes DEF C!DeleteUser, task
<1>4. C!TypeOK'
  <2>1. \A g \in Caller : Fits(login'[g])
    BY <1>0, <1>2, <1>3, FitsNow
  <2>2. QED
    BY <1>0, <1>3, <2>1 DEF C!TypeOK, Fits, C!Resetting
<1>5. TokensApart'
  <2>1. \A g \in Caller, t \in DOMAIN token : C!HoldsToken(g, t)' => C!HoldsToken(g, t)
    BY <1>1, <1>3 DEF C!HoldsToken
  <2>2. QED
    BY <1>3, <2>1 DEF CredentialsInv, TokensApart
<1>6. AccountApart' /\ RestIsLate' /\ ResetEndsSessions'
  BY <1>3 DEF AccountApart, RestIsLate, ResetEndsSessions, C!ResetEndsSessions
<1>7. InOrder'
  BY <1>1, <1>3 DEF CredentialsInv, InOrder
<1>8. RotatesLive'
  <2>1. \A g \in Caller \ {h} : login[g].pc # "rotate"
    BY DEF C!DeleteUser, C!UserFree, C!HoldsUser, C!At
  <2>2. QED
    BY <1>1, <1>3, <2>1 DEF RotatesLive, C!At
<1>9. ReplacedIsDead'
  BY <1>3 DEF CredentialsInv, ReplacedIsDead
<1>10. QED
  BY <1>4, <1>5, <1>6, <1>7, <1>8, <1>9 DEF CredentialsInv

LEMMA RequestResetInv ==
  ASSUME CredentialsInv, NEW r \in Reset, C!RequestReset(r)
  PROVE  CredentialsInv'
<1>1. mailed' = mailed \cup {r} /\ UNCHANGED <<password, deleted, token, used, login>>
  BY DEF C!RequestReset
<1>2. C!TypeOK'
  BY <1>1 DEF CredentialsInv, C!TypeOK
<1>3. QED
  BY <1>1, <1>2
  DEF CredentialsInv, TokensApart, AccountApart, InOrder, RotatesLive, RestIsLate,
      ReplacedIsDead, ResetEndsSessions, C!ResetEndsSessions, C!HoldsToken, C!HoldsUser,
      C!At, C!Live

LEMMA CredentialsStep == CredentialsInv /\ C!Next => CredentialsInv'
<1> SUFFICES ASSUME CredentialsInv, C!Next PROVE CredentialsInv'
  OBVIOUS
<1>1. CASE \E r \in Reset : C!RequestReset(r)
  BY <1>1, RequestResetInv
<1>2. ASSUME NEW h \in Caller,
             \/ C!Login(h) \/ C!DeleteUser(h) \/ C!Serve(h) \/ C!Abort(h)
             \/ \E t \in DOMAIN token : C!LockToken(h, t)
             \/ \E r \in Reset : C!ClaimReset(h, r)
      PROVE  CredentialsInv'
  BY <1>2, QuietCases, IssueInv, RotateInv, CommitResetInv, RevokeAllInv, DeleteUserInv
  DEF C!Serve
<1>3. QED
  BY <1>1, <1>2 DEF C!Next

LEMMA CredentialsStay == CredentialsInv /\ UNCHANGED credentialVars => CredentialsInv'
BY DEF CredentialsInv, TokensApart, AccountApart, InOrder, RotatesLive, RestIsLate,
       ReplacedIsDead, ResetEndsSessions, C!ResetEndsSessions, C!HoldsToken, C!HoldsUser,
       C!At, C!Live, C!TypeOK, credentialVars

LEMMA CredentialsInit == C!Init => CredentialsInv
<1> SUFFICES ASSUME C!Init PROVE CredentialsInv
  OBVIOUS
<1>1. C!TypeOK
  BY CredentialsTypeInit
<1>2. /\ DOMAIN token = {1} /\ token[1] = C!FirstToken /\ password = Original
      /\ \A h \in Caller : login[h] = C!Idle
  BY DEF C!Init
<1>3. C!Idle.pc = "idle" /\ C!FirstToken.parent = 0 /\ C!FirstToken.proof = Original
  BY DEF C!Idle, C!FirstToken
<1>4. \A h \in Caller : login[h].pc = "idle"
  BY <1>2, <1>3, Zenon
<1>5. TokensApart /\ AccountApart /\ InOrder /\ RotatesLive /\ RestIsLate
  BY <1>4 DEF TokensApart, AccountApart, InOrder, RotatesLive, RestIsLate,
              C!HoldsToken, C!HoldsUser, C!At
<1>6. \A t \in DOMAIN token : token[t].parent = 0 /\ token[t].proof = password
  BY <1>2, <1>3
<1>7. ReplacedIsDead /\ ResetEndsSessions
  BY <1>6 DEF ReplacedIsDead, ResetEndsSessions, C!ResetEndsSessions, C!Live
<1>8. QED
  BY <1>1, <1>5, <1>7 DEF CredentialsInv

(***************************************************************************)
(* All components at the same time, any of them or several in a step, as   *)
(* with the deletion of an account; focus is a special case of it.         *)
(***************************************************************************)
Together ==
  /\ C!Init /\ [][C!Next]_credentialVars
  /\ V!Init /\ [][V!Next]_ngoVars
  /\ D!Init /\ [][D!Next]_moneyVars
  /\ S!Init /\ [][S!Next]_rescueVars
  /\ R!Init /\ [][R!Next]_reactionVars
  /\ A!Init /\ [][A!Next]_alertVars

(* What holds of the components together holds of each that runs alone     *)
(* (Platform).                                                             *)
THEOREM FocusIsPart == Spec => Together
<1>1. Init => C!Init /\ V!Init /\ D!Init /\ S!Init /\ R!Init /\ A!Init
  BY DEF Init
<1>2. [Next]_vars => /\ [C!Next]_credentialVars
                     /\ [V!Next]_ngoVars
                     /\ [D!Next]_moneyVars
                     /\ [S!Next]_rescueVars
                     /\ [R!Next]_reactionVars
                     /\ [A!Next]_alertVars
  BY DEF Next, vars, credentialVars, ngoVars, moneyVars, rescueVars, reactionVars, alertVars
<1>3. QED
  BY <1>1, <1>2, PTL DEF Spec, Together

LEMMA CredentialsInvariant == Together => []CredentialsInv
<1>1. CredentialsInv /\ [C!Next]_credentialVars => CredentialsInv'
  BY CredentialsStep, CredentialsStay
<1>2. QED
  BY CredentialsInit, <1>1, PTL DEF Together

(***************************************************************************)
(* Requests all of which wait for others of them.  If one waits for the    *)
(* account, a reset has it, and who has the token this one wants can only  *)
(* be a rotation.  Else all wait for tokens of others that lock them in    *)
(* the same order; the one that has come furthest waits for nobody.        *)
(***************************************************************************)
Circle(Group) == Group # {} /\ \A h \in Group : \E g \in Group : C!Waits(h, g)
TokenWaits(h, g) ==
  /\ login[h].pc \in {"revoking", "forgetting"}
  /\ \E t \in C!Ahead(h) : C!NextIs(h, t) /\ C!HoldsToken(g, t)

LEMMA ResetInCircle ==
  ASSUME CredentialsInv, NEW Group \in SUBSET Caller, Circle(Group),
         NEW u \in Group, C!At(u, "revoking"), ~deleted
  PROVE  \E h, g \in Group : C!Opposed(h, g)
<1>1. PICK v \in Group : C!Waits(u, v)
  BY DEF Circle
<1>2. PICK t \in C!Ahead(u) : C!NextIs(u, t) /\ C!HoldsToken(v, t)
  BY <1>1 DEF C!Waits, C!At
<1>3. v # u /\ C!HoldsUser(u)
  BY <1>1 DEF C!Waits, C!HoldsUser, C!At
<1>4. login[v].pc # "revoking"
  BY <1>3 DEF CredentialsInv, AccountApart, C!HoldsUser
<1>5. login[v].pc # "forgetting"
  BY DEF CredentialsInv, InOrder
<1>6. \E w \in Group : C!Waits(v, w)
  BY DEF Circle
<1>7. login[v].pc # "rotate"
  BY <1>6 DEF C!Waits, C!At
<1>8. C!At(v, "lookup") /\ login[v].token = t
  BY <1>2, <1>4, <1>5, <1>7 DEF C!HoldsToken, C!At
<1>9. C!Opposed(v, u)
  BY <1>2, <1>3, <1>8 DEF C!Opposed
<1>10. QED
  BY <1>9

LEMMA TokenCircle ==
  ASSUME CredentialsInv, NEW Group \in SUBSET Caller, Group # {},
         \A h \in Group : \E g \in Group : TokenWaits(h, g)
  PROVE  FALSE
<1>1. \A h \in Group : login[h].token \in 0 .. MaxTokens /\ MaxTokens \in Nat
  BY CredentialsBounds DEF CredentialsInv, C!TypeOK, C!Task
<1>2. ASSUME NEW h \in Group
      PROVE  \E g \in Group : login[g].token > login[h].token
  <2>1. PICK g \in Group : TokenWaits(h, g)
    OBVIOUS
  <2>2. PICK t \in C!Ahead(h) : C!HoldsToken(g, t)
    BY <2>1 DEF TokenWaits
  <2>3. login[g].pc \in {"revoking", "forgetting"}
    BY DEF TokenWaits
  <2>4. t <= login[g].token /\ t \in login[h].sees /\ t > login[h].token
    BY <2>2, <2>3 DEF C!HoldsToken, C!Ahead
  <2>5. login[h].sees \subseteq 1 .. MaxTokens
    BY DEF CredentialsInv, C!TypeOK, C!Task
  <2>6. t \in Nat
    BY <1>1, <2>4, <2>5
  <2>7. QED
    BY <1>1, <2>4, <2>6
<1> DEFINE Left == {m \in Nat : \E h \in Group : m = MaxTokens - login[h].token}
<1>3. Left # {} /\ Left \subseteq Nat
  <2>1. PICK h \in Group : TRUE
    OBVIOUS
  <2>2. MaxTokens - login[h].token \in Nat
    BY <1>1
  <2>3. MaxTokens - login[h].token \in Left
    BY <2>2
  <2>4. QED
    BY <2>3
<1> HIDE DEF Left
<1>4. PICK m \in Left : \A k \in Left : <<k, m>> \notin OpToRel(<, Nat)
  BY <1>3, WFMin, NatLessThanWellFounded, Zenon
<1> USE DEF Left
<1>5. PICK h \in Group : m = MaxTokens - login[h].token
  BY <1>4
<1>6. PICK g \in Group : login[g].token > login[h].token
  BY <1>2
<1>7. MaxTokens - login[g].token \in Left /\ MaxTokens - login[g].token < m
  BY <1>1, <1>5, <1>6
<1>8. <<MaxTokens - login[g].token, m>> \in OpToRel(<, Nat)
  BY <1>3, <1>4, <1>7 DEF OpToRel
<1>9. QED
  BY <1>4, <1>7, <1>8

LEMMA CirclesFollow == CredentialsInv => OnlyRotationsDeadlock
<1> SUFFICES ASSUME CredentialsInv, NEW Group \in SUBSET Caller, Circle(Group)
             PROVE  \E h, g \in Group : C!Opposed(h, g)
  BY DEF OnlyRotationsDeadlock, C!OnlyRotationsDeadlock, Circle
<1>1. \A h \in Group : login[h].pc \in {"issue", "lookup", "claimed", "revoking", "forgetting"}
  BY DEF Circle, C!Waits, C!At
<1>2. ASSUME NEW h \in Group, NEW g \in Group, C!Waits(h, g), C!HoldsUser(g)
      PROVE  C!At(g, "revoking") /\ ~deleted
  BY <1>1, <1>2 DEF C!HoldsUser, C!At
<1>3. CASE \E h \in Group, g \in Group : C!Waits(h, g) /\ C!HoldsUser(g)
  BY <1>2, <1>3, ResetInCircle
<1>4. CASE ~ \E h \in Group, g \in Group : C!Waits(h, g) /\ C!HoldsUser(g)
  <2>1. \A h \in Group, g \in Group : C!Waits(h, g) => TokenWaits(h, g)
    BY <1>1, <1>4 DEF C!Waits, TokenWaits, C!At
  <2>2. QED
    BY <2>1, TokenCircle DEF Circle
<1>5. QED
  BY <1>3, <1>4

(* However many requests run, where all of some wait for others of them    *)
(* there are a rotation and a reset that lock each other out (refresh,     *)
(* confirm_password_reset, delete_account).                                *)
THEOREM DeadlocksAreRotations == Spec => []OnlyRotationsDeadlock
BY CirclesFollow, CredentialsInvariant, FocusIsPart, PTL

(* However many resets, rotations and log-ins run, a reset of the password *)
(* ends the sessions begun with an earlier one (confirm_password_reset).   *)
THEOREM ResetsEndSessions == Spec => []ResetEndsSessions
<1>1. CredentialsInv => ResetEndsSessions
  BY DEF CredentialsInv
<1>2. QED
  BY <1>1, CredentialsInvariant, FocusIsPart, PTL

(* What RotatesOnce says of a step.                                        *)
RotatesOnceStep == \A t \in DOMAIN token' \ DOMAIN token : token'[t].parent # 0 =>
  /\ ~deleted
  /\ \A s \in DOMAIN token : token[s].parent # token'[t].parent

LEMMA RotatesOnceNext == CredentialsInv /\ C!Next => RotatesOnceStep
<1> SUFFICES ASSUME CredentialsInv, C!Next PROVE RotatesOnceStep
  OBVIOUS
<1>0. C!TypeOK
  BY DEF CredentialsInv
<1>1. ASSUME NEW h \in Caller, C!Rotate(h)
      PROVE  RotatesOnceStep
  BY <1>1, RotateInv DEF RotatesOnceStep
<1>2. ASSUME NEW h \in Caller, C!Issue(h)
      PROVE  RotatesOnceStep
  <2> DEFINE row == [live |-> TRUE, parent |-> 0, proof |-> login[h].key,
                     late |-> C!Overtaken(h)]
  <2>1. token' = Append(token, row) /\ row.parent = 0
    BY <1>2 DEF C!Issue
  <2> HIDE DEF row
  <2>2. token \in Seq(C!RefreshToken)
    BY <1>0 DEF C!TypeOK
  <2>3. \A t \in DOMAIN token' \ DOMAIN token : token'[t] = row
    BY <2>1, <2>2
  <2>4. QED
    BY <2>1, <2>3 DEF RotatesOnceStep
<1>3. ASSUME NEW h \in Caller, C!CommitReset(h) \/ C!RevokeAll(h)
      PROVE  DOMAIN token' = DOMAIN token
  BY <1>0, <1>3, RevokedType DEF C!CommitReset, C!RevokeAll
<1>4. QED
  BY <1>1, <1>2, <1>3
  DEF RotatesOnceStep, C!Next, C!Serve, C!Login, C!DeleteUser, C!Abort,
      C!LockToken, C!ClaimReset, C!RequestReset, C!LockAccount, C!ChangePassword, C!Survey,
      C!Seize

LEMMA RotatesOnceTogether == Together => RotatesOnce
<1>1. CredentialsInv /\ [C!Next]_credentialVars => [RotatesOnceStep]_credentialVars
  BY RotatesOnceNext
<1>2. Together => [][RotatesOnceStep]_credentialVars
  BY <1>1, CredentialsInvariant, PTL DEF Together
<1>3. QED
  BY <1>2, PTL DEF RotatesOnce, C!RotatesOnce, RotatesOnceStep, C!vars, credentialVars

(* A refresh token gets one replacement, and none once the account is      *)
(* deleted, however many requests present it (refresh).                    *)
THEOREM TokensRotateOnce == Spec => RotatesOnce
BY RotatesOnceTogether, FocusIsPart, PTL
=============================================================================
