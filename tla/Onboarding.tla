----------------------------- MODULE Onboarding -----------------------------
(***************************************************************************)
(* Onboarding on the central server: invites and their revocation          *)
(* (lib/queries/invites.ts), the redemption of an invite by a machine      *)
(* (lib/queries/redeem.ts), and the first sign-in of a user                *)
(* (lib/auth/auth.ts, lib/auth/sso-auto-provision.ts).                     *)
(*                                                                         *)
(* The server is one Node process in front of PostgreSQL at READ COMMITTED. *)
(* Every action is one SQL statement, or a part of a transaction whose     *)
(* effects others cannot see: a transaction keeps its user row in "draft"  *)
(* and publishes it when it commits.  Row locks and unique indexes block   *)
(* until their holder ends.  A transaction holds one connection of the     *)
(* pool from BEGIN to COMMIT, and a statement that may block holds one     *)
(* while it waits ("conn").                                                *)
(***************************************************************************)
EXTENDS Naturals, FiniteSets

CONSTANTS
  Orgs, Teams,
  Addresses,     \* e-mail addresses as they are spelled
  Identities,    \* SSO identities, (provider, subject)
  Invites,
  Redeems,       \* calls of redeemInvite
  SignIns,       \* calls of the signIn callback
  Managers,      \* calls of revokeInviteCore
  None,
  Canon,         \* Canon[a]: a in lower case
  AddressOf,     \* AddressOf[d]: the address the provider gives for d
  OrgOf, TeamOf, \* columns of an invite
  Pattern,       \* Pattern[i]: the addresses its email_pattern matches
  Providers,     \* Providers[i]: identities its allowed_sso_providers permit
  MaxUses, ExpiresAt,
  PoolSize,      \* connections of the pg pool (10 by default)
  MaxNow,        \* bound on the clock
  Faults         \* TRUE: a statement may fail, bcrypt may throw

ASSUME TablesAssumption ==
  /\ Canon \in [Addresses -> Addresses]
  /\ AddressOf \in [Identities -> Addresses]
  /\ OrgOf \in [Invites -> Orgs]
  /\ TeamOf \in [Invites -> Teams \cup {None}]
  /\ Pattern \in [Invites -> SUBSET Addresses]
  /\ Providers \in [Invites -> SUBSET Identities]

ASSUME NumbersAssumption ==
  /\ MaxUses \in [Invites -> Nat \ {0}]
  /\ ExpiresAt \in [Invites -> Nat]
  /\ PoolSize \in Nat \ {0}
  /\ MaxNow \in Nat
  /\ Faults \in BOOLEAN

UserRows == [sso : Identities \cup {None}, team : Teams \cup {None}]

ASSUME NamesAssumption ==
  /\ Redeems \cap SignIns = {}
  /\ None \notin Invites \cup Identities \cup Teams \cup Addresses \cup UserRows

VARIABLES
  invites,        \* onboarding_invites
  users,          \* users[o][a]: the row of (org_id, email), None when absent
  machines,       \* user_machines, one row per key
  redemptionLog,  \* onboarding_redemption_log
  authEvents,     \* auth_event_log
  auditLog,       \* the invite-revoked rows of onboarding_audit_log
  redeems,        \* redeems[r]: the state of a call
  signIns,        \* signIns[b]: the state of a call
  revokes,        \* revokes[m]: the state of a call
  now

logVars == <<redemptionLog, authEvents>>
vars == <<invites, users, machines, redemptionLog, authEvents, auditLog,
          redeems, signIns, revokes, now>>

Rejections == {"token-invalid", "token-revoked", "token-expired",
               "token-exhausted", "email-mismatch"}

(* "rejected-csrf" stands for the three outcomes decided from the claims     *)
(* alone: issuer or audience, e-mail not verified, public domain.           *)
SsoRejections == {"rate-limited", "rejected-csrf", "rejected-no-match",
                  "rejected-multiple-matches", "rejected-cross-idp",
                  "rejected-pre-existing-binding", "rejected-race"}

IdleRedeem == [pc |-> "idle", invite |-> None, addr |-> None, seen |-> 0,
               found |-> None, draft |-> None, conn |-> FALSE, result |-> None]
IdleSignIn == [pc |-> "idle", id |-> None, invite |-> None, draft |-> None,
               conn |-> FALSE, outcome |-> None]
IdleRevoke == [pc |-> "idle", invite |-> None, conn |-> FALSE]

Init ==
  /\ invites = [i \in Invites |-> [created |-> FALSE, revoked |-> FALSE, used |-> 0]]
  /\ users = [o \in Orgs |-> [a \in Addresses |-> None]]
  /\ machines = {}
  /\ redemptionLog = {}
  /\ authEvents = {}
  /\ auditLog = {}
  /\ redeems = [r \in Redeems |-> IdleRedeem]
  /\ signIns = [b \in SignIns |-> IdleSignIn]
  /\ revokes = [m \in Managers |-> IdleRevoke]
  /\ now = 0

-----------------------------------------------------------------------------
(* Transactions, locks and the pool.                                        *)

RedeemInTx(r) == redeems[r].pc \in {"select", "write", "mint", "commit"}
SignInInTx(b) == signIns[b].pc \in {"insert", "event", "commit"}

InUse == Cardinality({r \in Redeems : redeems[r].conn})
           + Cardinality({b \in SignIns : signIns[b].conn})
           + Cardinality({m \in Managers : revokes[m].conn})

(* Mutant of FreeConnection: one connection is never handed out. *)
FreeConnectionOffByOne == InUse + 1 < PoolSize

(* A connection for one more statement or transaction. *)
FreeConnection == InUse < PoolSize

(* Mutant of InviteHeld: provisionInTx selects without FOR UPDATE. *)
InviteHeldByRedeem(i) == \E r \in Redeems : RedeemInTx(r) /\ redeems[r].invite = i

(* The row lock of SELECT ... FOR UPDATE on the invite. *)
InviteHeld(i) ==
  \/ \E r \in Redeems : RedeemInTx(r) /\ redeems[r].invite = i
  \/ \E b \in SignIns : SignInInTx(b) /\ signIns[b].invite = i

RedeemAddress(r) == Canon[redeems[r].addr]
SignInAddress(b) == AddressOf[signIns[b].id]

(* A transaction has written the row (o, a) and not yet ended. *)
RowHeld(o, a) ==
  \/ \E r \in Redeems : /\ redeems[r].draft # None
                        /\ OrgOf[redeems[r].invite] = o /\ RedeemAddress(r) = a
  \/ \E b \in SignIns : /\ signIns[b].draft # None
                        /\ OrgOf[signIns[b].invite] = o
                        /\ Canon[SignInAddress(b)] = a

(* A transaction has written a row of o with the identity d and not ended. *)
SsoHeld(o, d) ==
  \E b \in SignIns : /\ signIns[b].draft # None
                     /\ OrgOf[signIns[b].invite] = o /\ signIns[b].id = d

(* Mutant of Taken: the index on the SSO identity is missing. *)
TakenAddress(o, a, d) == users[o][a] # None

(* The unique indexes (org_id, email) and (org_id, sso_provider, sso_subject). *)
Taken(o, a, d) ==
  \/ users[o][a] # None
  \/ \E x \in Addresses : users[o][x] # None /\ users[o][x].sso = d

SetRedeem(r, call) == redeems' = [redeems EXCEPT ![r] = call]
SetSignIn(b, call) == signIns' = [signIns EXCEPT ![b] = call]
SetUser(o, a, row) == users' = [users EXCEPT ![o][a] = row]

-----------------------------------------------------------------------------
(* redeemInvite.                                                            *)

(* Mutant of Classify: > for >=. *)
ClassifyOffByOne(i, a) ==
  IF ~invites[i].created THEN "token-invalid"
  ELSE IF invites[i].revoked THEN "token-revoked"
  ELSE IF now > ExpiresAt[i] THEN "token-expired"
  ELSE IF invites[i].used > MaxUses[i] THEN "token-exhausted"
  ELSE IF a \notin Pattern[i] THEN "email-mismatch" ELSE "ok"

(* classifyInvite, in its order of precedence. *)
Classify(i, a) ==
  IF ~invites[i].created THEN "token-invalid"
  ELSE IF invites[i].revoked THEN "token-revoked"
  ELSE IF now > ExpiresAt[i] THEN "token-expired"
  ELSE IF invites[i].used >= MaxUses[i] THEN "token-exhausted"
  ELSE IF a \notin Pattern[i] THEN "email-mismatch" ELSE "ok"

(* A redeem request arrives and its transaction begins. *)
BeginRedeem(r, i, a) ==
  /\ redeems[r].pc = "idle"
  /\ FreeConnection
  /\ SetRedeem(r, [redeems[r] EXCEPT !.pc = "lookup", !.invite = i, !.addr = a,
                                     !.conn = TRUE])
  /\ UNCHANGED <<invites, users, machines, logVars, auditLog, signIns, revokes, now>>

(* lookupInviteForUpdate; a rejection rolls back. *)
LookupInvite(r) ==
  LET i == redeems[r].invite
      kind == Classify(i, redeems[r].addr)
  IN
  /\ redeems[r].pc = "lookup"
  /\ ~InviteHeld(i)
  /\ IF kind = "ok"
       THEN SetRedeem(r, [redeems[r] EXCEPT !.pc = "select", !.seen = invites[i].used])
       ELSE SetRedeem(r, [redeems[r] EXCEPT !.pc = "log", !.conn = FALSE, !.result = kind])
  /\ UNCHANGED <<invites, users, machines, logVars, auditLog, signIns, revokes, now>>

(* upsertUserForInvite: the SELECT. *)
SelectUser(r) ==
  /\ redeems[r].pc = "select"
  /\ SetRedeem(r, [redeems[r] EXCEPT !.pc = "write",
       !.found = users[OrgOf[redeems[r].invite]][RedeemAddress(r)]])
  /\ UNCHANGED <<invites, users, machines, logVars, auditLog, signIns, revokes, now>>

(* The transaction ends, and so does the call. *)
Answered(call, result) ==
  [call EXCEPT !.pc = "done", !.draft = None, !.conn = FALSE, !.result = result]

(* Mutant of Rollback: the name of the database enum for the error kind. *)
RollbackInfraError(r) == SetRedeem(r, Answered(redeems[r], "infra-error"))

(* The transaction rolls back and the call answers "infra". *)
Rollback(r) == SetRedeem(r, Answered(redeems[r], "infra"))

(* The call goes on with the row it has written, if any. *)
Drafted(call, row) == [call EXCEPT !.pc = "mint", !.draft = row]

(* upsertUserForInvite: INSERT when no row was found (23505 when one has     *)
(* been committed meanwhile), UPDATE of a missing team, or nothing.         *)
UpsertUser(r) ==
  LET o == OrgOf[redeems[r].invite]
      a == RedeemAddress(r)
      team == TeamOf[redeems[r].invite]
      found == redeems[r].found
  IN
  /\ redeems[r].pc = "write"
  /\ \/ /\ found = None
        /\ ~RowHeld(o, a)
        /\ IF users[o][a] # None
             THEN Rollback(r)
             ELSE SetRedeem(r, Drafted(redeems[r], [sso |-> None, team |-> team]))
     \/ /\ found # None /\ found.team = None /\ team # None
        /\ ~RowHeld(o, a)
        /\ SetRedeem(r, Drafted(redeems[r], [users[o][a] EXCEPT !.team = team]))
     \/ /\ found # None /\ (found.team # None \/ team = None)
        /\ SetRedeem(r, Drafted(redeems[r], None))
  /\ UNCHANGED <<invites, users, machines, logVars, auditLog, signIns, revokes, now>>

KeyOf(r) == [key |-> r, org |-> OrgOf[redeems[r].invite], addr |-> RedeemAddress(r)]

(* Mutant of MintKey: the row is inserted through the top-level connection. *)
MintKeyOutsideTx(r) ==
  /\ redeems[r].pc = "mint"
  /\ SetRedeem(r, [redeems[r] EXCEPT !.pc = "commit"])
  /\ machines' = machines \cup {KeyOf(r)}
  /\ UNCHANGED <<invites, users, logVars, auditLog, signIns, revokes, now>>

(* insertUserMachineWithRetry: the INSERT succeeds, in the transaction. *)
MintKey(r) ==
  /\ redeems[r].pc = "mint"
  /\ SetRedeem(r, [redeems[r] EXCEPT !.pc = "commit"])
  /\ UNCHANGED <<invites, users, machines, logVars, auditLog, signIns, revokes, now>>

(* insertUserMachineWithRetry: key_id is taken.  23505 aborts the            *)
(* transaction, so the retry gets 25P02, which is thrown.                   *)
KeyCollision(r) ==
  /\ Faults
  /\ redeems[r].pc = "mint"
  /\ SetRedeem(r, Answered(redeems[r], "collision"))
  /\ UNCHANGED <<invites, users, machines, logVars, auditLog, signIns, revokes, now>>

(* used_count, the "accepted" row, COMMIT. *)
CommitRedeem(r) ==
  LET i == redeems[r].invite IN
  /\ redeems[r].pc = "commit"
  /\ invites' = [invites EXCEPT ![i].used = redeems[r].seen + 1]
  /\ IF redeems[r].draft # None
       THEN SetUser(OrgOf[i], RedeemAddress(r), redeems[r].draft)
       ELSE UNCHANGED users
  /\ machines' = machines \cup {KeyOf(r)}
  /\ redemptionLog' = redemptionLog
       \cup {[by |-> r, invite |-> i, outcome |-> "accepted"]}
  /\ SetRedeem(r, Answered(redeems[r], "accepted"))
  /\ UNCHANGED <<authEvents, auditLog, signIns, revokes, now>>

(* A statement fails, bcrypt throws. *)
AbortRedeem(r) ==
  /\ Faults
  /\ redeems[r].conn
  /\ Rollback(r)
  /\ UNCHANGED <<invites, users, machines, logVars, auditLog, signIns, revokes, now>>

(* The rejection row, on the top-level connection; "infra" when it fails. *)
LogRejection(r) ==
  /\ redeems[r].pc = "log"
  /\ FreeConnection
  /\ \/ /\ redemptionLog' = redemptionLog \cup
             {[by |-> r, invite |-> redeems[r].invite, outcome |-> redeems[r].result]}
        /\ SetRedeem(r, [redeems[r] EXCEPT !.pc = "done"])
     \/ /\ Faults
        /\ Rollback(r)
        /\ UNCHANGED redemptionLog
  /\ UNCHANGED <<invites, users, machines, authEvents, auditLog, signIns, revokes, now>>

-----------------------------------------------------------------------------
(* The signIn callback and evaluateAutoProvision.                           *)

(* The callback ends, the step it goes on with, a rejection to be audited. *)
Ended(call, outcome) ==
  [call EXCEPT !.pc = "done", !.outcome = outcome, !.draft = None, !.conn = FALSE]
Rejected(call, outcome, i) ==
  [call EXCEPT !.pc = "audit", !.outcome = outcome, !.invite = i, !.conn = FALSE]
End(b, outcome) == SetSignIn(b, Ended(signIns[b], outcome))
Go(b, pc) == SetSignIn(b, [signIns[b] EXCEPT !.pc = pc])
Reject(b, outcome, i) == SetSignIn(b, Rejected(signIns[b], outcome, i))

OnlySignIns == UNCHANGED <<invites, users, machines, logVars, auditLog,
                           redeems, revokes, now>>

(* A connection for a statement that may have to wait for a lock. *)
Connect(b) ==
  /\ signIns[b].pc \in {"fill", "single-org", "provision"}
  /\ ~signIns[b].conn
  /\ FreeConnection
  /\ SetSignIn(b, [signIns[b] EXCEPT !.conn = TRUE])
  /\ OnlySignIns

(* The orgs that have a row for the address as it is spelled. *)
OrgsOf(a) == {o \in Orgs : users[o][a] # None}
BoundTo(d) == {k \in Orgs \X Addresses :
                 users[k[1]][k[2]] # None /\ users[k[1]][k[2]].sso = d}

(* loadUserBySsoIdentity: at most one row, or it throws. *)
LoadUserBySsoIdentity(b, d) ==
  /\ signIns[b].pc = "idle"
  /\ FreeConnection
  /\ IF BoundTo(d) = {}
       THEN SetSignIn(b, [signIns[b] EXCEPT !.pc = "email", !.id = d])
       ELSE SetSignIn(b, [signIns[b] EXCEPT !.pc = "done", !.id = d,
              !.outcome = IF Cardinality(BoundTo(d)) = 1 THEN "allow" ELSE "error"])
  /\ OnlySignIns

(* The rows of the address, and evaluateSignIn. *)
EvaluateSignIn(b) ==
  LET d == signIns[b].id
      rows == OrgsOf(SignInAddress(b))
  IN
  /\ signIns[b].pc = "email"
  /\ FreeConnection
  /\ \/ rows = {} /\ Go(b, "bootstrap")
     \/ Cardinality(rows) >= 2 /\ End(b, "ambiguous-multi-org")
     \/ \E o \in Orgs :
          /\ rows = {o}
          /\ LET sso == users[o][SignInAddress(b)].sso IN
               \/ sso = None /\ Go(b, "fill")
               \/ sso = d /\ End(b, "allow")
               \/ sso \notin {None, d} /\ End(b, "reject-mismatch")
  /\ OnlySignIns

(* UPDATE users SET sso = ... WHERE email = ...: every row of the address,   *)
(* whatever it is bound to by now.                                          *)
FillSso(b) ==
  LET d == signIns[b].id
      a == SignInAddress(b)
  IN
  /\ signIns[b].pc = "fill"
  /\ signIns[b].conn
  /\ \A o \in OrgsOf(a) : ~RowHeld(o, a) /\ ~SsoHeld(o, d)
  /\ IF \E o \in OrgsOf(a), x \in Addresses \ {a} : <<o, x>> \in BoundTo(d)
       THEN End(b, "error") /\ UNCHANGED users
       ELSE /\ users' = [o \in Orgs |-> [x \in Addresses |->
                           IF x = a /\ users[o][a] # None
                             THEN [users[o][a] EXCEPT !.sso = d] ELSE users[o][x]]]
            /\ End(b, "fill-sso")
  /\ UNCHANGED <<invites, machines, logVars, auditLog, redeems, revokes, now>>

(* matchActiveInvitesByEmail; the pattern is matched in lower case. *)
ActiveMatches(a) ==
  {i \in Invites : /\ invites[i].created /\ ~invites[i].revoked
                   /\ ExpiresAt[i] > now
                   /\ invites[i].used < MaxUses[i]
                   /\ a \in Pattern[i]}

(* signIn asks whether any invite matches. *)
FindInvites(b) ==
  /\ signIns[b].pc = "bootstrap"
  /\ FreeConnection
  /\ Go(b, IF ActiveMatches(SignInAddress(b)) # {} THEN "evaluate" ELSE "single-org")
  /\ OnlySignIns

(* Mutant of SingleOrg: the bootstrap does not count the orgs. *)
SingleOrgNotAsked == TRUE

SingleOrg == Cardinality(Orgs) = 1

(* The bootstrap of a server with one org: INSERT of the address as it is    *)
(* spelled; a unique violation leaves the callback as an exception.         *)
BootstrapInsert(b) ==
  LET d == signIns[b].id
      a == SignInAddress(b)
  IN
  /\ signIns[b].pc = "single-org"
  /\ signIns[b].conn
  /\ IF ~SingleOrg
       THEN End(b, "reject") /\ UNCHANGED users
       ELSE \E o \in Orgs :
              /\ ~RowHeld(o, a) /\ ~SsoHeld(o, d)
              /\ IF Taken(o, a, d)
                   THEN End(b, "error") /\ UNCHANGED users
                   ELSE /\ SetUser(o, a, [sso |-> d, team |-> None])
                        /\ End(b, "bootstrap")
  /\ UNCHANGED <<invites, machines, logVars, auditLog, redeems, revokes, now>>


(* allowed_sso_providers of the invite. *)
Permitted(i, d) == d \in Providers[i]

(* Steps 1 to 7 of evaluateAutoProvision: the rate limit, the claims, the   *)
(* invites again (exactly one must match) and the allowed providers.        *)
MatchInvite(b) ==
  LET matches == ActiveMatches(Canon[SignInAddress(b)]) IN
  /\ signIns[b].pc = "evaluate"
  /\ FreeConnection
  /\ \/ Reject(b, "rate-limited", None)
     \/ Reject(b, "rejected-csrf", None)
     \/ matches = {} /\ Reject(b, "rejected-no-match", None)
     \/ \E i \in matches :
          IF matches # {i} THEN Reject(b, "rejected-multiple-matches", i)
          ELSE IF ~Permitted(i, signIns[b].id) THEN Reject(b, "rejected-cross-idp", i)
          ELSE SetSignIn(b, [signIns[b] EXCEPT !.pc = "existing", !.invite = i])
  /\ OnlySignIns

(* Step 8: a user of the org without SSO is told by e-mail, and rejected. *)
FindPreExistingUser(b) ==
  LET row == users[OrgOf[signIns[b].invite]][Canon[SignInAddress(b)]] IN
  /\ signIns[b].pc = "existing"
  /\ FreeConnection
  /\ IF row # None /\ row.sso = None
       THEN Reject(b, "rejected-pre-existing-binding", signIns[b].invite)
       ELSE Go(b, "provision")
  /\ OnlySignIns

(* Mutant of Revalidate: the row read before the lock is trusted. *)
RevalidateNothing(i) == TRUE

(* revalidateInvite on the locked row. *)
Revalidate(i) ==
  /\ ~invites[i].revoked
  /\ ExpiresAt[i] > now
  /\ invites[i].used < MaxUses[i]

(* provisionInTx: SELECT ... FOR UPDATE, revalidateInvite. *)
LockInvite(b) ==
  /\ signIns[b].pc = "provision"
  /\ signIns[b].conn
  /\ ~InviteHeld(signIns[b].invite)
  /\ IF Revalidate(signIns[b].invite)
       THEN Go(b, "insert")
       ELSE Reject(b, "rejected-race", signIns[b].invite)
  /\ OnlySignIns

(* INSERT of the user in lower case; a unique violation rolls back and      *)
(* leaves evaluateAutoProvision as an exception.                            *)
InsertUser(b) ==
  LET o == OrgOf[signIns[b].invite]
      a == Canon[SignInAddress(b)]
  IN
  /\ signIns[b].pc = "insert"
  /\ ~RowHeld(o, a)
  /\ ~SsoHeld(o, signIns[b].id)
  /\ IF Taken(o, a, signIns[b].id)
       THEN End(b, "error")
       ELSE SetSignIn(b, [signIns[b] EXCEPT !.pc = "event",
              !.draft = [sso |-> signIns[b].id, team |-> TeamOf[signIns[b].invite]]])
  /\ OnlySignIns

Event(b, outcome) == [by |-> b, outcome |-> outcome]
LogRow(b, outcome) == [by |-> b, invite |-> signIns[b].invite, outcome |-> outcome]

(* Mutant of WriteAcceptedEvent: the log row goes through the same            *)
(* top-level connection.                                                    *)
WriteBothAcceptedRows(b) ==
  /\ signIns[b].pc = "event"
  /\ FreeConnection
  /\ authEvents' = authEvents \cup {Event(b, "accepted-sso-auto")}
  /\ redemptionLog' = redemptionLog \cup {LogRow(b, "accepted-sso-auto")}
  /\ Go(b, "commit")
  /\ UNCHANGED <<invites, users, machines, auditLog, redeems, revokes, now>>

(* writeAuthEvent, which takes a connection of its own: the row is committed *)
(* at once.                                                                 *)
WriteAcceptedEvent(b) ==
  /\ signIns[b].pc = "event"
  /\ FreeConnection
  /\ authEvents' = authEvents \cup {Event(b, "accepted-sso-auto")}
  /\ Go(b, "commit")
  /\ UNCHANGED <<invites, users, machines, redemptionLog, auditLog, redeems,
                 revokes, now>>

(* used_count = used_count + 1, the log row, COMMIT. *)
CommitProvision(b) ==
  LET i == signIns[b].invite IN
  /\ signIns[b].pc = "commit"
  /\ invites' = [invites EXCEPT ![i].used = @ + 1]
  /\ SetUser(OrgOf[i], Canon[SignInAddress(b)], signIns[b].draft)
  /\ redemptionLog' = redemptionLog \cup {LogRow(b, "accepted-sso-auto")}
  /\ End(b, "accepted-sso-auto")
  /\ UNCHANGED <<machines, authEvents, auditLog, redeems, revokes, now>>

(* A statement of the transaction, or the UPDATE or INSERT outside one,      *)
(* fails.                                                                   *)
AbortSignIn(b) ==
  /\ Faults
  /\ signIns[b].conn
  /\ End(b, "error")
  /\ OnlySignIns

(* writeAuditRowsForRejection: auth_event_log, except for a rate limit ... *)
AuditRejection(b) ==
  /\ signIns[b].pc = "audit"
  /\ FreeConnection
  /\ authEvents' = IF signIns[b].outcome = "rate-limited" THEN authEvents
                   ELSE authEvents \cup {Event(b, signIns[b].outcome)}
  /\ Go(b, "log")
  /\ UNCHANGED <<invites, users, machines, redemptionLog, auditLog, redeems,
                 revokes, now>>

(* ... then onboarding_redemption_log. *)
LogSsoRejection(b) ==
  /\ signIns[b].pc = "log"
  /\ FreeConnection
  /\ redemptionLog' = redemptionLog \cup {LogRow(b, signIns[b].outcome)}
  /\ Go(b, "done")
  /\ UNCHANGED <<invites, users, machines, authEvents, auditLog, redeems,
                 revokes, now>>

(* Either INSERT fails: an exception, except after a rate limit. *)
AuditFailure(b) ==
  /\ Faults
  /\ signIns[b].pc \in {"audit", "log"}
  /\ End(b, IF signIns[b].outcome = "rate-limited" THEN "rate-limited" ELSE "error")
  /\ OnlySignIns

-----------------------------------------------------------------------------
(* Invites: createInviteCore and revokeInviteCore.                          *)

OnlyInvites == UNCHANGED <<users, machines, logVars, redeems, signIns, now>>

CreateInvite(i) ==
  /\ ~invites[i].created
  /\ ExpiresAt[i] > now
  /\ FreeConnection
  /\ invites' = [invites EXCEPT ![i].created = TRUE]
  /\ OnlyInvites /\ UNCHANGED <<auditLog, revokes>>

(* revokeInviteByPrefix: the SELECT; a revoked invite ends the call. *)
ReadInvite(m, i) ==
  /\ revokes[m].pc = "idle"
  /\ invites[i].created
  /\ FreeConnection
  /\ revokes' = [revokes EXCEPT ![m] =
       [IdleRevoke EXCEPT !.pc = IF invites[i].revoked THEN "done" ELSE "update",
                          !.invite = i]]
  /\ OnlyInvites /\ UNCHANGED <<invites, auditLog>>

ConnectRevoke(m) ==
  /\ revokes[m].pc = "update"
  /\ ~revokes[m].conn
  /\ FreeConnection
  /\ revokes' = [revokes EXCEPT ![m] = [revokes[m] EXCEPT !.conn = TRUE]]
  /\ OnlyInvites /\ UNCHANGED <<invites, auditLog>>

(* revokeInviteByPrefix: the UPDATE, by token_hash alone. *)
RevokeInvite(m) ==
  /\ revokes[m].pc = "update"
  /\ revokes[m].conn
  /\ ~InviteHeld(revokes[m].invite)
  /\ invites' = [invites EXCEPT ![revokes[m].invite].revoked = TRUE]
  /\ revokes' = [revokes EXCEPT ![m] = [revokes[m] EXCEPT !.pc = "audit", !.conn = FALSE]]
  /\ OnlyInvites /\ UNCHANGED auditLog

(* writeAuditRevoke. *)
AuditRevoke(m) ==
  /\ revokes[m].pc = "audit"
  /\ FreeConnection
  /\ auditLog' = auditLog \cup {[by |-> m, invite |-> revokes[m].invite]}
  /\ revokes' = [revokes EXCEPT ![m] = [revokes[m] EXCEPT !.pc = "done"]]
  /\ OnlyInvites /\ UNCHANGED invites

Tick ==
  /\ now < MaxNow
  /\ now' = now + 1
  /\ UNCHANGED <<invites, users, machines, logVars, auditLog, redeems, signIns,
                 revokes>>

-----------------------------------------------------------------------------

RedeemStep(r) ==
  \/ LookupInvite(r) \/ SelectUser(r) \/ UpsertUser(r) \/ MintKey(r)
  \/ CommitRedeem(r) \/ LogRejection(r)

SignInStep(b) ==
  \/ Connect(b) \/ EvaluateSignIn(b) \/ FillSso(b) \/ FindInvites(b) \/ BootstrapInsert(b)
  \/ MatchInvite(b) \/ FindPreExistingUser(b) \/ LockInvite(b) \/ InsertUser(b)
  \/ WriteAcceptedEvent(b) \/ CommitProvision(b) \/ AuditRejection(b)
  \/ LogSsoRejection(b)

Next ==
  \/ \E r \in Redeems :
       \/ \E i \in Invites, a \in Addresses : BeginRedeem(r, i, a)
       \/ RedeemStep(r) \/ KeyCollision(r) \/ AbortRedeem(r)
  \/ \E b \in SignIns :
       \/ \E d \in Identities : LoadUserBySsoIdentity(b, d)
       \/ SignInStep(b) \/ AbortSignIn(b) \/ AuditFailure(b)
  \/ \E i \in Invites : CreateInvite(i)
  \/ \E m \in Managers :
       \/ \E i \in Invites : ReadInvite(m, i)
       \/ ConnectRevoke(m) \/ RevokeInvite(m) \/ AuditRevoke(m)
  \/ Tick

Spec == Init /\ [][Next]_vars

(* A request that has begun runs on: the event loop, the pool and the row    *)
(* locks are fair to whoever waits for them.                                *)
Fairness ==
  /\ \A r \in Redeems : SF_vars(RedeemStep(r))
  /\ \A b \in SignIns : SF_vars(SignInStep(b))

FairSpec == Spec /\ Fairness

-----------------------------------------------------------------------------
(* Properties.                                                              *)

InviteStates == [created : BOOLEAN, revoked : BOOLEAN, used : Nat]
Results == Rejections \cup {"accepted", "infra", "collision"}
RedeemStates ==
  [pc : {"idle", "lookup", "select", "write", "mint", "commit", "log", "done"},
   invite : Invites \cup {None}, addr : Addresses \cup {None}, seen : Nat,
   found : UserRows \cup {None}, draft : UserRows \cup {None},
   conn : BOOLEAN,
   result : Results \cup {None}]
Outcomes ==
  SsoRejections \cup {"allow", "fill-sso", "bootstrap", "reject", "reject-mismatch",
                      "ambiguous-multi-org", "accepted-sso-auto", "error"}
SignInStates ==
  [pc : {"idle", "email", "fill", "bootstrap", "single-org", "evaluate",
         "existing", "provision", "insert", "event", "commit", "audit", "log",
         "done"},
   id : Identities \cup {None}, invite : Invites \cup {None},
   draft : UserRows \cup {None}, conn : BOOLEAN,
   outcome : Outcomes \cup {None}]
RevokeStates == [pc : {"idle", "update", "audit", "done"},
                 invite : Invites \cup {None}, conn : BOOLEAN]
LogRows == [by : Redeems \cup SignIns, invite : Invites \cup {None},
            outcome : Rejections \cup SsoRejections
                        \cup {"accepted", "accepted-sso-auto"}]

(* Every table and every call in progress keeps its shape. *)
TypeOK ==
  /\ invites \in [Invites -> InviteStates]
  /\ users \in [Orgs -> [Addresses -> UserRows \cup {None}]]
  /\ machines \in SUBSET [key : Redeems, org : Orgs, addr : Addresses]
  /\ redemptionLog \in SUBSET LogRows
  /\ authEvents \in SUBSET [by : SignIns,
                            outcome : SsoRejections \cup {"accepted-sso-auto"}]
  /\ auditLog \in SUBSET [by : Managers, invite : Invites]
  /\ redeems \in [Redeems -> RedeemStates]
  /\ signIns \in [SignIns -> SignInStates]
  /\ revokes \in [Managers -> RevokeStates]
  /\ now \in 0..MaxNow

(* An invite is never over-redeemed, whoever races for its last use. *)
NeverOverRedeemed == \A i \in Invites : invites[i].used <= MaxUses[i]

(* used_count is exact: it is the number of acceptances logged for the       *)
(* invite, by token and by SSO, although one path writes used_count from    *)
(* the row it read and the other increments it in place.                    *)
Acceptances(i) ==
  {l \in redemptionLog :
     l.invite = i /\ l.outcome \in {"accepted", "accepted-sso-auto"}}
UsesAccounted == \A i \in Invites : invites[i].used = Cardinality(Acceptances(i))

(* "There must never be an accepted log without a corresponding key, or vice *)
(* versa" (redeem.ts:43), and each key has its user.                        *)
KeyIffAccepted ==
  /\ {k.key : k \in machines} =
       {l.by : l \in {x \in redemptionLog : x.outcome = "accepted"}}
  /\ \A k \in machines : users[k.org][k.addr] # None

(* An "accepted-sso-auto" row of the redemption log has its user. *)
AcceptedLogHasUser ==
  \A l \in redemptionLog :
    l.outcome = "accepted-sso-auto" =>
      users[OrgOf[l.invite]][Canon[AddressOf[signIns[l.by].id]]] # None

(* No use of an invite is granted once its revocation is committed, whatever *)
(* was read of it before.                                                   *)
RevokedAdmitsNobody ==
  [][\A i \in Invites : invites[i].revoked => invites'[i].used = invites[i].used]_vars

(* Every request that has begun is answered, whatever locks and connections  *)
(* it waits for, as long as the pool has a connection more than there are   *)
(* calls: provisionInTx asks for a second one while it holds the first.     *)
EveryCallAnswered ==
  /\ \A r \in Redeems : redeems[r].pc # "idle" ~> redeems[r].pc = "done"
  /\ \A b \in SignIns : signIns[b].pc # "idle" ~> signIns[b].pc = "done"

(* auth.ts:201: at most one row carries an SSO identity.  So it is in one    *)
(* org, although the same person may be inserted under two spellings; over  *)
(* several orgs it is not.                                                  *)
OneUserPerIdentity == \A d \in Identities : Cardinality(BoundTo(d)) <= 1

(* Onboarding as a ledger: what its tables say, without what is under way.   *)
Created == {i \in Invites : invites[i].created}
Revoked == {i \in Invites : invites[i].revoked}
UsesOf == [i \in Invites |-> {l.by : l \in Acceptances(i)}]
Present == {k \in Orgs \X Addresses : users[k[1]][k[2]] # None}
IdentityOf == [k \in Present |-> users[k[1]][k[2]].sso]

(* Onboarding implements InviteLedger: whatever races, fails or waits, each   *)
(* acceptance is one step that takes one use of an invite still good, opens  *)
(* or finds the account its pattern and its providers admit, and mints the   *)
(* key; no auto-provisioned sign-in takes over an account opened meanwhile.  *)
Ledger == INSTANCE InviteLedger WITH
            issued <- Created, revoked <- Revoked, uses <- UsesOf,
            accounts <- IdentityOf, keys <- machines
ImplementsLedger == Ledger!Spec

(* Nobody gets an account of a server of several orgs, or a key anywhere,    *)
(* without the use of an invite of that org which admits the address.       *)
OnlyInvited == Ledger!OnlyInvited
=============================================================================
