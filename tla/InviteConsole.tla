--------------------------- MODULE InviteConsole ---------------------------
(***************************************************************************)
(* The manager's side of invites: the form that creates one and the button *)
(* that revokes one (app/manager/invites/actions.ts, lib/queries/           *)
(* invites.ts), the idempotency cache of the process, and the cookie that  *)
(* carries the URL to the page that shows it (lib/auth/flash-cookie.ts).   *)
(*                                                                         *)
(* Insert, audit row and cache entry are three steps with an await between *)
(* them; nothing ties them together.  A token is the submission that       *)
(* created it: tokens never collide.  Clock is minutes.                    *)
(***************************************************************************)
EXTENDS Integers, FiniteSets

CONSTANTS
  Submissions, Revocations,     \* requests to the two server actions
  ConsoleSchedules,             \* the sets of requests that may come together
  SubmitterOf, SubmissionKey,   \* the manager of a submission, and its idempotency key
  RevokeTarget,                 \* the submission whose invite a revocation names
  ConsoleManagers,              \* who has the role (one organisation)
  CacheMinutes, CookieMinutes,  \* IDEMPOTENCY_TTL_MS, FLASH_COOKIE_MAX_AGE_SECONDS
  MaxMinute, MaxRestarts,       \* bounds
  NoInvite

ASSUME ConsoleAssumption ==
  /\ {CacheMinutes, CookieMinutes, MaxMinute, MaxRestarts} \subseteq Nat
  /\ RevokeTarget \in [Revocations -> Submissions]
  /\ ConsoleSchedules \subseteq SUBSET (Submissions \cup Revocations)
  /\ NoInvite \notin Submissions /\ Submissions \cap Revocations = {}

VARIABLES
  due,            \* the requests of this behaviour
  minute, restarts,
  invites,        \* invites[s]: "none", "live" or "revoked"
  inviteAudit,    \* the requests that left a row of onboarding_audit_log
  cache,          \* entries [by, key, invite, at] of the idempotency cache
  console,        \* console[r]: where a request is
  startedAt,      \* when a submission looked at the clock
  answer,         \* the invite a submission was answered with, and when
  answeredAt,
  remembered,     \* the submissions this process has created an invite for and answered
  before,         \*   and those of its key when a submission came
  cookie,         \* cookie[m]: the flash cookie in a manager's browser
  displayed       \* the URLs shown: [to, invite, at]

consoleVars == <<due, minute, restarts, invites, inviteAudit, cache, console, startedAt, answer,
                 answeredAt, remembered, before, cookie, displayed>>

Requests == Submissions \cup Revocations
Browsers == {SubmitterOf[s] : s \in Submissions}
NoCookie == [invite |-> NoInvite, until |-> 0]

ConsoleInit ==
  /\ due \in ConsoleSchedules
  /\ minute = 0 /\ restarts = 0
  /\ invites = [s \in Submissions |-> "none"]
  /\ inviteAudit = {} /\ cache = {}
  /\ console = [r \in Requests |-> "idle"]
  /\ startedAt = [s \in Submissions |-> 0]
  /\ answer = [s \in Submissions |-> NoInvite]
  /\ answeredAt = [s \in Submissions |-> 0]
  /\ remembered = {}
  /\ before = [s \in Submissions |-> {}]
  /\ cookie = [m \in Browsers |-> NoCookie]
  /\ displayed = {}

-----------------------------------------------------------------------------
ConsoleAt(r, pc) == console[r] = pc
ConsoleGoto(r, pc) == console' = [console EXCEPT ![r] = pc]

(* The entries of a manager's key; getCached drops one that is too old.      *)
SameForm(q, s) == SubmitterOf[q] = SubmitterOf[s] /\ SubmissionKey[q] = SubmissionKey[s]
Entries(s) == {e \in cache : e.by = SubmitterOf[s] /\ e.key = SubmissionKey[s]}

(* Mutant of Cached: < for <=. *)
CachedTooShort(s) == {e \in Entries(s) : minute - e.at < CacheMinutes}

(* Mutant of Cached: entries never get too old. *)
CachedForEver(s) == Entries(s)

Cached(s) == {e \in Entries(s) : minute - e.at <= CacheMinutes}
SetCached(s) ==
  cache' = (cache \ Entries(s)) \cup
    {[by |-> SubmitterOf[s], key |-> SubmissionKey[s], invite |-> s, at |-> startedAt[s]]}

(* The action answers and sets the flash cookie, on a hit as on a miss.      *)
SetFlashCookie(s, invite) ==
  cookie' = [cookie EXCEPT ![SubmitterOf[s]] =
               [invite |-> invite, until |-> minute + CookieMinutes]]
AnswerWith(s, invite) ==
  /\ answer' = [answer EXCEPT ![s] = invite]
  /\ answeredAt' = [answeredAt EXCEPT ![s] = minute]
  /\ SetFlashCookie(s, invite)
  /\ ConsoleGoto(s, "done")

Submit(s) ==
  /\ s \in due /\ ConsoleAt(s, "idle")
  /\ startedAt' = [startedAt EXCEPT ![s] = minute]
  /\ before' = [before EXCEPT ![s] = {q \in remembered : SameForm(q, s)}]
  /\ \/ /\ SubmitterOf[s] \notin ConsoleManagers
        /\ ConsoleGoto(s, "refused")
        /\ UNCHANGED <<cache, answer, answeredAt, cookie>>
     \/ /\ SubmitterOf[s] \in ConsoleManagers
        /\ \E e \in Cached(s) : AnswerWith(s, e.invite)
        /\ UNCHANGED cache
     \/ /\ SubmitterOf[s] \in ConsoleManagers /\ Cached(s) = {}
        /\ cache' = cache \ Entries(s)
        /\ ConsoleGoto(s, "insert")
        /\ UNCHANGED <<answer, answeredAt, cookie>>
  /\ UNCHANGED <<due, minute, restarts, invites, inviteAudit, remembered, displayed>>

CreateInviteRow(s) ==
  /\ ConsoleAt(s, "insert")
  /\ invites' = [invites EXCEPT ![s] = "live"]
  /\ ConsoleGoto(s, "audit")
  /\ UNCHANGED <<due, minute, restarts, inviteAudit, cache, startedAt, answer, answeredAt, remembered, before,
                 cookie, displayed>>

(* Mutant of WriteAuditCreate: a failure is swallowed. *)
WriteAuditCreateBestEffort(s) ==
  /\ s \in Submissions /\ ConsoleAt(s, "audit")
  /\ inviteAudit' \in {inviteAudit, inviteAudit \cup {s}}
  /\ ConsoleGoto(s, "cache")
  /\ UNCHANGED <<due, minute, restarts, invites, cache, startedAt, answer, answeredAt, remembered, before,
                 cookie, displayed>>

WriteAuditCreate(s) ==
  /\ s \in Submissions /\ ConsoleAt(s, "audit")
  /\ inviteAudit' = inviteAudit \cup {s}
  /\ ConsoleGoto(s, "cache")
  /\ UNCHANGED <<due, minute, restarts, invites, cache, startedAt, answer, answeredAt, remembered, before,
                 cookie, displayed>>

CreateInviteAnswer(s) ==
  /\ ConsoleAt(s, "cache")
  /\ SetCached(s) /\ AnswerWith(s, s)
  /\ remembered' = remembered \cup {s}
  /\ UNCHANGED <<due, minute, restarts, invites, inviteAudit, startedAt, before, displayed>>

-----------------------------------------------------------------------------
(* revokeInviteByPrefix reads, then updates whatever the row has become; the  *)
(* audit row is a third statement.                                          *)
FindInvite(r) ==
  /\ r \in due /\ ConsoleAt(r, "idle")
  /\ ConsoleGoto(r, IF invites[RevokeTarget[r]] = "live" THEN "update" ELSE "done")
  /\ UNCHANGED <<due, minute, restarts, invites, inviteAudit, cache, startedAt, answer, answeredAt,
                 remembered, before, cookie, displayed>>
RevokeInvite(r) ==
  /\ ConsoleAt(r, "update")
  /\ invites' = [invites EXCEPT ![RevokeTarget[r]] = "revoked"]
  /\ ConsoleGoto(r, "audit")
  /\ UNCHANGED <<due, minute, restarts, inviteAudit, cache, startedAt, answer, answeredAt,
                 remembered, before, cookie, displayed>>
WriteAuditRevoke(r) ==
  /\ r \in Revocations /\ ConsoleAt(r, "audit")
  /\ inviteAudit' = inviteAudit \cup {r}
  /\ ConsoleGoto(r, "done")
  /\ UNCHANGED <<due, minute, restarts, invites, cache, startedAt, answer, answeredAt,
                 remembered, before, cookie, displayed>>

(* A statement fails: the action throws, and what was committed stays.       *)
ConsoleFail(r) ==
  /\ console[r] \in {"insert", "audit", "update"}
  /\ ConsoleGoto(r, "failed")
  /\ UNCHANGED <<due, minute, restarts, invites, inviteAudit, cache, startedAt, answer, answeredAt,
                 remembered, before, cookie, displayed>>

(* The process restarts: the cache and the requests under way are lost.      *)
ConsoleRestart ==
  /\ restarts < MaxRestarts
  /\ restarts' = restarts + 1
  /\ cache' = {} /\ remembered' = {}
  /\ console' = [r \in Requests |->
                   IF console[r] \in {"idle", "done", "refused"} THEN console[r] ELSE "failed"]
  /\ UNCHANGED <<due, minute, invites, inviteAudit, startedAt, answer, answeredAt, before, cookie,
                 displayed>>

-----------------------------------------------------------------------------
(* The page shows the URL of an unexpired cookie that this server signed;    *)
(* the script it carries then asks for the cookie to be deleted, which the    *)
(* browser may or may not do.                                               *)
OpenCreatedPage(m) ==
  /\ cookie[m] # NoCookie /\ minute < cookie[m].until
  /\ displayed' = displayed \cup {[to |-> m, invite |-> cookie[m].invite, at |-> minute]}
  /\ UNCHANGED <<due, minute, restarts, invites, inviteAudit, cache, console, startedAt, answer,
                 answeredAt, remembered, before, cookie>>
ClearFlash(m) ==
  /\ \E d \in displayed : d.to = m
  /\ cookie' = [cookie EXCEPT ![m] = NoCookie]
  /\ UNCHANGED <<due, minute, restarts, invites, inviteAudit, cache, console, startedAt, answer,
                 answeredAt, remembered, before, displayed>>

NextMinute ==
  /\ minute < MaxMinute
  /\ minute' = minute + 1
  /\ UNCHANGED <<due, restarts, invites, inviteAudit, cache, console, startedAt, answer, answeredAt,
                 remembered, before, cookie, displayed>>

ConsoleNext ==
  \/ \E s \in Submissions : Submit(s) \/ CreateInviteRow(s) \/ WriteAuditCreate(s)
                            \/ CreateInviteAnswer(s)
  \/ \E r \in Revocations : FindInvite(r) \/ RevokeInvite(r) \/ WriteAuditRevoke(r)
  \/ \E r \in Requests : ConsoleFail(r)
  \/ \E m \in Browsers : OpenCreatedPage(m) \/ ClearFlash(m)
  \/ ConsoleRestart \/ NextMinute
ConsoleSpec == ConsoleInit /\ [][ConsoleNext]_consoleVars

-----------------------------------------------------------------------------
(* Properties.                                                              *)

ConsoleTypeOK ==
  /\ due \in ConsoleSchedules
  /\ minute \in 0 .. MaxMinute /\ restarts \in 0 .. MaxRestarts
  /\ invites \in [Submissions -> {"none", "live", "revoked"}] /\ inviteAudit \subseteq Requests
  /\ \A e, f \in cache : e.by = f.by /\ e.key = f.key => e = f
  /\ console \in [Requests -> {"idle", "insert", "audit", "cache", "update", "done", "refused",
                               "failed"}]
  /\ answer \in [Submissions -> Submissions \cup {NoInvite}]
  /\ DOMAIN cookie = Browsers

(* No token reaches anybody before its invite is in the audit log, whichever *)
(* step failed and whether the answer was fresh or cached; and a manager is   *)
(* never given a token another one created (invites.ts:457-478).             *)
TokensAudited ==
  /\ \A s \in Submissions : answer[s] # NoInvite =>
       /\ answer[s] \in inviteAudit
       /\ SubmitterOf[answer[s]] = SubmitterOf[s]
  /\ \A d \in displayed : d.invite \in inviteAudit /\ SubmitterOf[d.invite] = d.to
  /\ \A r \in inviteAudit \cap Revocations : invites[RevokeTarget[r]] = "revoked"

(* A form sent again after its answer creates no second invite while the      *)
(* entry lives: one of the answers the process remembers is too old          *)
(* (invites.ts:431).  Submissions that overlap are not covered.              *)
RetryIsAnswered ==
  \A s \in Submissions : invites[s] # "none" /\ before[s] # {} =>
    \E q \in before[s] : startedAt[s] - startedAt[q] > CacheMinutes

(* However often the form is sent again, a URL is last shown within the life  *)
(* of the entry and of the cookie after its first answer                     *)
(* (flash-cookie.ts:34, invites.ts:313).                                     *)
UrlShownShortly ==
  \A d \in displayed : d.at < answeredAt[d.invite] + CacheMinutes + CookieMinutes
=============================================================================
