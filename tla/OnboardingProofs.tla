-------------------------- MODULE OnboardingProofs --------------------------
(***************************************************************************)
(* Proofs about Onboarding, for every number of orgs, invites and calls,   *)
(* and every size of the pool.                                             *)
(***************************************************************************)
EXTENDS Onboarding, FiniteSetTheorems, TLAPS

(* A call that has begun knows what it is about. *)
RedeemShape ==
  \A r \in Redeems :
    /\ redeems[r].pc # "idle" => redeems[r].invite \in Invites /\ redeems[r].addr \in Addresses
    /\ redeems[r].conn => redeems[r].pc # "idle"
    /\ redeems[r].pc = "log" => redeems[r].result \in Rejections

SignInShape ==
  \A b \in SignIns :
    /\ signIns[b].conn => signIns[b].pc # "idle"
    /\ signIns[b].pc # "idle" => signIns[b].id \in Identities
    /\ signIns[b].pc \in {"existing", "provision", "insert", "event", "commit"}
         => signIns[b].invite \in Invites
    /\ signIns[b].pc \in {"event", "commit"} => signIns[b].draft \in UserRows
    /\ signIns[b].pc \in {"audit", "log"} => signIns[b].outcome \in SsoRejections

RevokeShape ==
  \A m \in Managers : revokes[m].pc # "idle" => revokes[m].invite \in Invites

(* The row upsertUserForInvite found is still there. *)
FoundShape ==
  \A r \in Redeems :
    redeems[r].pc = "write" /\ redeems[r].found # None
      => users[OrgOf[redeems[r].invite]][RedeemAddress(r)] # None

TypeInv == TypeOK /\ RedeemShape /\ SignInShape /\ RevokeShape /\ FoundShape

LEMMA ClassifyType ==
  ASSUME NEW i, NEW a
  PROVE  Classify(i, a) \in Rejections \cup {"ok"}
BY DEF Classify, Rejections

LEMMA IdleType ==
  /\ IdleRedeem \in RedeemStates /\ IdleRedeem.pc = "idle" /\ IdleRedeem.conn = FALSE
  /\ IdleSignIn \in SignInStates /\ IdleSignIn.pc = "idle" /\ IdleSignIn.conn = FALSE
  /\ IdleRevoke \in RevokeStates /\ IdleRevoke.pc = "idle" /\ IdleRevoke.conn = FALSE
BY DEF IdleRedeem, RedeemStates, IdleSignIn, SignInStates, IdleRevoke, RevokeStates

LEMMA TypeInvInit == Init => TypeInv
<1> SUFFICES ASSUME Init PROVE TypeInv
  OBVIOUS
<1>1. TypeOK
  <2>1. invites \in [Invites -> InviteStates]
    BY DEF Init, InviteStates
  <2>2. now \in 0..MaxNow
    BY NumbersAssumption DEF Init
  <2> QED BY <2>1, <2>2, IdleType DEF Init, TypeOK
<1>2. RedeemShape /\ SignInShape /\ RevokeShape /\ FoundShape
  BY IdleType DEF Init, RedeemShape, SignInShape, RevokeShape, FoundShape
<1> QED BY <1>1, <1>2 DEF TypeInv

-----------------------------------------------------------------------------
(* One call changes.                                                        *)

RedeemOK(c) ==
  /\ c \in RedeemStates
  /\ c.conn => c.pc # "idle"
  /\ c.pc # "idle" => c.invite \in Invites /\ c.addr \in Addresses
  /\ c.pc = "log" => c.result \in Rejections

SignInOK(c) ==
  /\ c \in SignInStates
  /\ c.conn => c.pc # "idle"
  /\ c.pc # "idle" => c.id \in Identities
  /\ c.pc \in {"existing", "provision", "insert", "event", "commit"} => c.invite \in Invites
  /\ c.pc \in {"event", "commit"} => c.draft \in UserRows
  /\ c.pc \in {"audit", "log"} => c.outcome \in SsoRejections

LEMMA AnsweredOK ==
  ASSUME NEW c, RedeemOK(c), c.pc # "idle", NEW k \in Results
  PROVE  RedeemOK(Answered(c, k)) /\ Answered(c, k).pc = "done"
BY DEF RedeemOK, RedeemStates, Answered

LEMMA DraftedOK ==
  ASSUME NEW c, RedeemOK(c), c.pc # "idle", NEW k \in UserRows \cup {None}
  PROVE  RedeemOK(Drafted(c, k)) /\ Drafted(c, k).pc = "mint"
BY DEF RedeemOK, RedeemStates, Drafted

LEMMA EndedOK ==
  ASSUME NEW c, SignInOK(c), c.pc # "idle", NEW k \in Outcomes
  PROVE  SignInOK(Ended(c, k))
BY DEF SignInOK, SignInStates, Ended

LEMMA RejectedOK ==
  ASSUME NEW c, SignInOK(c), c.pc # "idle", NEW k \in SsoRejections,
         NEW i \in Invites \cup {None}
  PROVE  SignInOK(Rejected(c, k, i))
BY DEF SignInOK, SignInStates, Rejected, Outcomes

LEMMA RedeemChange ==
  ASSUME TypeInv, NEW r \in Redeems, NEW c, RedeemOK(c), SetRedeem(r, c)
  PROVE  redeems' \in [Redeems -> RedeemStates] /\ RedeemShape'
BY DEF TypeInv, TypeOK, RedeemShape, RedeemOK, SetRedeem

LEMMA RedeemIsOK ==
  ASSUME TypeInv, NEW r \in Redeems
  PROVE  RedeemOK(redeems[r])
BY DEF TypeInv, TypeOK, RedeemShape, RedeemOK

LEMMA SignInChange ==
  ASSUME TypeInv, NEW b \in SignIns, NEW c, SignInOK(c), SetSignIn(b, c)
  PROVE  signIns' \in [SignIns -> SignInStates] /\ SignInShape'
BY DEF TypeInv, TypeOK, SignInShape, SignInOK, SetSignIn

LEMMA SignInIsOK ==
  ASSUME TypeInv, NEW b \in SignIns
  PROVE  SignInOK(signIns[b])
BY DEF TypeInv, TypeOK, SignInShape, SignInOK

(* The only tables that change are the call's own. *)
LEMMA RedeemOnly ==
  ASSUME TypeInv, NEW r \in Redeems, NEW c, RedeemOK(c), c.pc # "write", SetRedeem(r, c),
         UNCHANGED <<invites, users, machines, logVars, auditLog, signIns, revokes, now>>
  PROVE  TypeInv'
<1>1. redeems' \in [Redeems -> RedeemStates] /\ RedeemShape'
  BY RedeemChange
<1>2. FoundShape'
  BY DEF TypeInv, TypeOK, FoundShape, SetRedeem, RedeemAddress
<1> QED BY <1>1, <1>2 DEF TypeInv, TypeOK, logVars, SignInShape, RevokeShape

LEMMA SignInOnly ==
  ASSUME TypeInv, NEW b \in SignIns, NEW c, SignInOK(c), SetSignIn(b, c), OnlySignIns
  PROVE  TypeInv'
<1>1. signIns' \in [SignIns -> SignInStates] /\ SignInShape'
  BY SignInChange
<1> QED BY <1>1 DEF OnlySignIns, TypeInv, TypeOK, logVars, RedeemShape, RevokeShape,
                    FoundShape, RedeemAddress

-----------------------------------------------------------------------------

LEMMA RedeemStepType ==
  ASSUME TypeInv, NEW r \in Redeems,
         \/ \E i \in Invites, a \in Addresses : BeginRedeem(r, i, a)
         \/ RedeemStep(r) \/ KeyCollision(r) \/ AbortRedeem(r)
  PROVE  TypeInv'
<1> DEFINE c == redeems[r]
           i == redeems[r].invite
           a == RedeemAddress(r)
<1>0. RedeemOK(c)
  BY RedeemIsOK
<1>00. ASSUME c.pc # "idle"
       PROVE  /\ i \in Invites /\ a \in Addresses /\ OrgOf[i] \in Orgs
              /\ TeamOf[i] \in Teams \cup {None}
              /\ users[OrgOf[i]][a] \in UserRows \cup {None}
  BY <1>0, <1>00, TablesAssumption DEF RedeemOK, RedeemAddress, TypeInv, TypeOK
<1>1. ASSUME NEW j \in Invites, NEW x \in Addresses, BeginRedeem(r, j, x) PROVE TypeInv'
  <2>1. RedeemOK([c EXCEPT !.pc = "lookup", !.invite = j, !.addr = x, !.conn = TRUE])
    BY <1>0 DEF RedeemOK, RedeemStates
  <2>2. [c EXCEPT !.pc = "lookup", !.invite = j, !.addr = x, !.conn = TRUE].pc # "write"
    BY <1>0 DEF RedeemOK, RedeemStates
  <2> QED BY <1>1, <2>1, <2>2, RedeemOnly DEF BeginRedeem
<1>2. CASE LookupInvite(r)
  <2>1. CASE Classify(i, c.addr) = "ok"
    <3> DEFINE d == [c EXCEPT !.pc = "select", !.seen = invites[i].used]
    <3>1. invites[i].used \in Nat
      BY <1>2, <1>00 DEF LookupInvite, TypeInv, TypeOK, InviteStates
    <3>2. RedeemOK(d) /\ d.pc # "write"
      BY <1>0, <1>2, <3>1 DEF LookupInvite, RedeemOK, RedeemStates
    <3> QED BY <1>2, <2>1, <3>2, RedeemOnly DEF LookupInvite
  <2>2. CASE Classify(i, c.addr) # "ok"
    <3> DEFINE d == [c EXCEPT !.pc = "log", !.conn = FALSE, !.result = Classify(i, c.addr)]
    <3>1. Classify(i, c.addr) \in Rejections
      BY <2>2, ClassifyType
    <3>2. RedeemOK(d) /\ d.pc # "write"
      BY <1>0, <1>2, <3>1 DEF LookupInvite, RedeemOK, RedeemStates, Results
    <3> QED BY <1>2, <2>2, <3>2, RedeemOnly DEF LookupInvite
  <2> QED BY <2>1, <2>2
<1>3. CASE SelectUser(r)
  <2> DEFINE d == [c EXCEPT !.pc = "write", !.found = users[OrgOf[i]][a]]
  <2>1. RedeemOK(d) /\ d.found = users[OrgOf[i]][a] /\ d.invite = i /\ d.addr = c.addr
    BY <1>0, <1>00, <1>3 DEF SelectUser, RedeemOK, RedeemStates
  <2>2. SetRedeem(r, d)
    BY <1>3 DEF SelectUser
  <2>3. redeems' \in [Redeems -> RedeemStates] /\ RedeemShape'
    BY <2>1, <2>2, RedeemChange
  <2>4. redeems'[r] = d /\ \A q \in Redeems \ {r} : redeems'[q] = redeems[q]
    BY <2>2 DEF SetRedeem, TypeInv, TypeOK
  <2>5. users' = users
    BY <1>3 DEF SelectUser
  <2>6. FoundShape'
    <3> SUFFICES ASSUME NEW q \in Redeems, redeems'[q].pc = "write", redeems'[q].found # None
                 PROVE  users'[OrgOf[redeems'[q].invite]][Canon[redeems'[q].addr]] # None
      BY DEF FoundShape, RedeemAddress
    <3>1. CASE q = r
      BY <2>1, <2>4, <2>5, <3>1 DEF RedeemAddress
    <3>2. CASE q # r
      BY <2>4, <2>5, <3>2 DEF TypeInv, FoundShape, RedeemAddress
    <3> QED BY <3>1, <3>2
  <2> QED BY <1>3, <2>3, <2>6
          DEF SelectUser, TypeInv, TypeOK, logVars, SignInShape, RevokeShape
<1>4. CASE UpsertUser(r)
  <2>1. c.pc # "idle"
    BY <1>4 DEF UpsertUser
  <2>2. CASE Rollback(r)
    BY <1>0, <1>4, <2>1, <2>2, AnsweredOK, RedeemOnly DEF UpsertUser, Rollback, Results
  <2>3. ASSUME NEW row \in UserRows \cup {None}, SetRedeem(r, Drafted(c, row))
        PROVE  TypeInv'
    BY <1>0, <1>4, <2>1, <2>3, DraftedOK, RedeemOnly DEF UpsertUser
  <2>4. [sso |-> None, team |-> TeamOf[i]] \in UserRows
    BY <1>00, <2>1 DEF UserRows
  <2>5. ASSUME c.found # None, TeamOf[i] # None
        PROVE  [users[OrgOf[i]][a] EXCEPT !.team = TeamOf[i]] \in UserRows
    <3>1. users[OrgOf[i]][a] \in UserRows
      BY <1>00, <1>4, <2>1, <2>5 DEF UpsertUser, TypeInv, FoundShape
    <3> QED BY <1>00, <2>1, <2>5, <3>1 DEF UserRows
  <2> QED BY <1>4, <2>2, <2>3, <2>4, <2>5 DEF UpsertUser
<1>5. CASE MintKey(r)
  <2>1. RedeemOK([c EXCEPT !.pc = "commit"]) /\ [c EXCEPT !.pc = "commit"].pc # "write"
    BY <1>0, <1>5 DEF MintKey, RedeemOK, RedeemStates
  <2> QED BY <1>5, <2>1, RedeemOnly DEF MintKey
<1>6. CASE CommitRedeem(r)
  <2>1. c.pc = "commit"
    BY <1>6 DEF CommitRedeem
  <2>2. RedeemOK(Answered(c, "accepted")) /\ Answered(c, "accepted").pc = "done"
    BY <1>0, <2>1, AnsweredOK DEF Results
  <2>3. redeems' \in [Redeems -> RedeemStates] /\ RedeemShape'
    BY <1>6, <2>2, RedeemChange DEF CommitRedeem
  <2>4. c.draft \in UserRows \cup {None} /\ c.seen \in Nat
    BY <1>0 DEF RedeemOK, RedeemStates
  <2>5. users' \in [Orgs -> [Addresses -> UserRows \cup {None}]]
    BY <1>00, <1>6, <2>1, <2>4 DEF CommitRedeem, SetUser, TypeInv, TypeOK
  <2>6. invites' \in [Invites -> InviteStates]
    BY <1>00, <1>6, <2>1, <2>4 DEF CommitRedeem, TypeInv, TypeOK, InviteStates
  <2>7. machines' \in SUBSET [key : Redeems, org : Orgs, addr : Addresses]
    BY <1>00, <1>6, <2>1 DEF CommitRedeem, KeyOf, TypeInv, TypeOK
  <2>8. redemptionLog' \in SUBSET LogRows
    BY <1>00, <1>6, <2>1 DEF CommitRedeem, LogRows, TypeInv, TypeOK
  <2>9. FoundShape'
    <3>1. \A o \in Orgs, x \in Addresses : users[o][x] # None => users'[o][x] # None
      <4>1. CASE c.draft = None
        BY <1>6, <4>1 DEF CommitRedeem
      <4>2. CASE c.draft # None
        <5>1. users' = [users EXCEPT ![OrgOf[i]][a] = c.draft]
          BY <1>6, <4>2 DEF CommitRedeem, SetUser
        <5> QED BY <1>00, <2>1, <4>2, <5>1 DEF TypeInv, TypeOK
      <4> QED BY <4>1, <4>2
    <3>2. \A q \in Redeems : redeems'[q].pc = "write" => redeems'[q] = redeems[q]
      BY <1>6, <2>2 DEF CommitRedeem, SetRedeem, TypeInv, TypeOK
    <3>3. \A q \in Redeems : redeems[q].pc = "write" =>
            OrgOf[redeems[q].invite] \in Orgs /\ RedeemAddress(q) \in Addresses
      BY TablesAssumption DEF TypeInv, RedeemShape, RedeemAddress
    <3> QED BY <3>1, <3>2, <3>3 DEF FoundShape, TypeInv, RedeemAddress
  <2> QED BY <1>6, <2>3, <2>5, <2>6, <2>7, <2>8, <2>9
          DEF CommitRedeem, TypeInv, TypeOK, SignInShape, RevokeShape
<1>7. CASE LogRejection(r)
  <2>1. c.pc = "log" /\ c.result \in Rejections
    BY <1>0, <1>7 DEF LogRejection, RedeemOK
  <2>2. CASE Rollback(r) /\ UNCHANGED redemptionLog
    BY <1>0, <1>7, <2>1, <2>2, AnsweredOK, RedeemOnly DEF LogRejection, Rollback, Results, logVars
  <2>3. CASE /\ SetRedeem(r, [c EXCEPT !.pc = "done"])
             /\ redemptionLog' = redemptionLog \cup
                  {[by |-> r, invite |-> i, outcome |-> c.result]}
    <3>1. RedeemOK([c EXCEPT !.pc = "done"]) /\ [c EXCEPT !.pc = "done"].pc # "write"
      BY <1>0, <2>1 DEF RedeemOK, RedeemStates
    <3>2. redeems' \in [Redeems -> RedeemStates] /\ RedeemShape'
      BY <2>3, <3>1, RedeemChange
    <3>3. redemptionLog' \in SUBSET LogRows
      BY <1>00, <2>1, <2>3 DEF LogRows, TypeInv, TypeOK
    <3>4. FoundShape'
      BY <1>7, <2>3, <3>1 DEF LogRejection, TypeInv, TypeOK, FoundShape, SetRedeem, RedeemAddress
    <3> QED BY <1>7, <3>2, <3>3, <3>4
            DEF LogRejection, TypeInv, TypeOK, SignInShape, RevokeShape
  <2> QED BY <1>7, <2>2, <2>3 DEF LogRejection
<1>8. CASE KeyCollision(r)
  BY <1>0, <1>8, AnsweredOK, RedeemOnly DEF KeyCollision, Results
<1>9. CASE AbortRedeem(r)
  <2>1. c.pc # "idle"
    BY <1>0, <1>9 DEF AbortRedeem, RedeemOK
  <2> QED BY <1>0, <1>9, <2>1, AnsweredOK, RedeemOnly DEF AbortRedeem, Rollback, Results
<1> QED BY <1>1, <1>2, <1>3, <1>4, <1>5, <1>6, <1>7, <1>8, <1>9 DEF RedeemStep

(* A committed row of a sign-in: nothing found is lost. *)
LEMMA UsersChange ==
  ASSUME TypeInv, NEW b \in SignIns, NEW c, SignInOK(c), SetSignIn(b, c),
         users' \in [Orgs -> [Addresses -> UserRows \cup {None}]],
         \A o \in Orgs, x \in Addresses : users[o][x] # None => users'[o][x] # None,
         UNCHANGED <<machines, auditLog, redeems, revokes, now>>,
         invites' \in [Invites -> InviteStates],
         redemptionLog' \in SUBSET LogRows,
         authEvents' \in SUBSET [by : SignIns, outcome : SsoRejections \cup {"accepted-sso-auto"}]
  PROVE  TypeInv'
<1>1. signIns' \in [SignIns -> SignInStates] /\ SignInShape'
  BY SignInChange
<1>2. FoundShape'
  <2>1. \A q \in Redeems : redeems[q].pc = "write" =>
          OrgOf[redeems[q].invite] \in Orgs /\ RedeemAddress(q) \in Addresses
    BY TablesAssumption DEF TypeInv, RedeemShape, RedeemAddress
  <2> QED BY <2>1 DEF TypeInv, FoundShape, RedeemAddress
<1> QED BY <1>1, <1>2 DEF TypeInv, TypeOK, RedeemShape, RevokeShape

LEMMA SignInStepType ==
  ASSUME TypeInv, NEW b \in SignIns,
         \/ \E d \in Identities : LoadUserBySsoIdentity(b, d)
         \/ SignInStep(b) \/ AbortSignIn(b) \/ AuditFailure(b)
  PROVE  TypeInv'
<1> DEFINE c == signIns[b]
           i == signIns[b].invite
           a == Canon[SignInAddress(b)]
<1>0. SignInOK(c)
  BY SignInIsOK
<1>00. ASSUME c.pc # "idle"
       PROVE  c.id \in Identities /\ SignInAddress(b) \in Addresses /\ a \in Addresses
  BY <1>0, <1>00, TablesAssumption DEF SignInOK, SignInAddress
<1>e. ASSUME c.pc # "idle", NEW k \in Outcomes, End(b, k), OnlySignIns PROVE TypeInv'
  BY <1>0, <1>e, EndedOK, SignInOnly DEF End
<1>g. ASSUME c.pc # "idle", Go(b, "done") \/ Go(b, "bootstrap") \/ Go(b, "fill"), OnlySignIns
      PROVE  TypeInv'
  <2>1. \A p \in {"done", "bootstrap", "fill"} : SignInOK([c EXCEPT !.pc = p])
    BY <1>0, <1>g DEF SignInOK, SignInStates
  <2> QED BY <1>g, <2>1, SignInOnly DEF Go
<1>r. ASSUME c.pc # "idle", NEW k \in SsoRejections, NEW j \in Invites \cup {None},
             Reject(b, k, j), OnlySignIns
      PROVE  TypeInv'
  BY <1>0, <1>r, RejectedOK, SignInOnly DEF Reject
<1>1. ASSUME NEW d \in Identities, LoadUserBySsoIdentity(b, d) PROVE TypeInv'
  <2>1. SignInOK([c EXCEPT !.pc = "email", !.id = d])
    BY <1>0, <1>1 DEF LoadUserBySsoIdentity, SignInOK, SignInStates
  <2>2. \A k \in {"allow", "error"} : SignInOK([c EXCEPT !.pc = "done", !.id = d, !.outcome = k])
    BY <1>0, <1>1 DEF LoadUserBySsoIdentity, SignInOK, SignInStates, Outcomes
  <2> QED BY <1>1, <2>1, <2>2, SignInOnly DEF LoadUserBySsoIdentity
<1>2. CASE Connect(b)
  <2>1. SignInOK([c EXCEPT !.conn = TRUE])
    BY <1>0, <1>2 DEF Connect, SignInOK, SignInStates
  <2> QED BY <1>2, <2>1, SignInOnly DEF Connect
<1>3. CASE EvaluateSignIn(b)
  <2>1. c.pc # "idle"
    BY <1>3 DEF EvaluateSignIn
  <2>2. "ambiguous-multi-org" \in Outcomes /\ "allow" \in Outcomes /\ "reject-mismatch" \in Outcomes
    BY DEF Outcomes
  <2>3. \/ Go(b, "bootstrap") \/ End(b, "ambiguous-multi-org") \/ Go(b, "fill")
        \/ End(b, "allow") \/ End(b, "reject-mismatch")
    BY <1>3 DEF EvaluateSignIn
  <2>4. OnlySignIns
    BY <1>3 DEF EvaluateSignIn
  <2> QED BY <1>e, <1>g, <2>1, <2>2, <2>3, <2>4
<1>4. CASE FillSso(b)
  <2>1. c.pc # "idle" /\ "error" \in Outcomes /\ "fill-sso" \in Outcomes
    BY <1>4 DEF FillSso, Outcomes
  <2>2. CASE End(b, "error") /\ UNCHANGED users
    BY <1>4, <1>e, <2>1, <2>2 DEF FillSso, OnlySignIns
  <2>3. CASE ~(End(b, "error") /\ UNCHANGED users)
    <3>1. /\ End(b, "fill-sso")
          /\ users' = [o \in Orgs |-> [x \in Addresses |->
               IF x = SignInAddress(b) /\ users[o][SignInAddress(b)] # None
                 THEN [users[o][SignInAddress(b)] EXCEPT !.sso = c.id] ELSE users[o][x]]]
      BY <1>4, <2>3 DEF FillSso
    <3>2. \A row \in UserRows : [row EXCEPT !.sso = c.id] \in UserRows
      BY <1>00, <2>1 DEF UserRows
    <3>3. users' \in [Orgs -> [Addresses -> UserRows \cup {None}]]
      BY <1>00, <2>1, <3>1, <3>2 DEF TypeInv, TypeOK
    <3>4. \A o \in Orgs, x \in Addresses : users[o][x] # None => users'[o][x] # None
      BY <1>00, <2>1, <3>1, <3>2, NamesAssumption DEF TypeInv, TypeOK
    <3>5. SignInOK(Ended(c, "fill-sso"))
      BY <1>0, <2>1, EndedOK
    <3> QED BY <1>4, <3>1, <3>3, <3>4, <3>5, UsersChange
            DEF FillSso, End, TypeInv, TypeOK, logVars
  <2> QED BY <2>2, <2>3
<1>5. CASE FindInvites(b)
  <2>1. \A p \in {"evaluate", "single-org"} : SignInOK([c EXCEPT !.pc = p])
    BY <1>0, <1>5 DEF FindInvites, SignInOK, SignInStates
  <2> QED BY <1>5, <2>1, SignInOnly DEF FindInvites, Go
<1>6. CASE BootstrapInsert(b)
  <2>1. c.pc # "idle" /\ {"error", "reject", "bootstrap"} \subseteq Outcomes
    BY <1>6 DEF BootstrapInsert, Outcomes
  <2>2. CASE (End(b, "error") \/ End(b, "reject")) /\ UNCHANGED users
    BY <1>6, <1>e, <2>1, <2>2 DEF BootstrapInsert, OnlySignIns
  <2>3. CASE ~((End(b, "error") \/ End(b, "reject")) /\ UNCHANGED users)
    <3>1. PICK o \in Orgs : /\ SetUser(o, SignInAddress(b), [sso |-> c.id, team |-> None])
                            /\ End(b, "bootstrap")
      BY <1>6, <2>3 DEF BootstrapInsert
    <3>2. [sso |-> c.id, team |-> None] \in UserRows
      BY <1>00, <2>1 DEF UserRows
    <3>3. users' \in [Orgs -> [Addresses -> UserRows \cup {None}]]
      BY <1>00, <2>1, <3>1, <3>2 DEF SetUser, TypeInv, TypeOK
    <3>4. \A p \in Orgs, x \in Addresses : users[p][x] # None => users'[p][x] # None
      BY <1>00, <2>1, <3>1, <3>2, NamesAssumption DEF SetUser, TypeInv, TypeOK
    <3>5. SignInOK(Ended(c, "bootstrap"))
      BY <1>0, <2>1, EndedOK
    <3> QED BY <1>6, <3>1, <3>3, <3>4, <3>5, UsersChange
            DEF BootstrapInsert, End, TypeInv, TypeOK, logVars
  <2> QED BY <2>2, <2>3
<1>7. CASE MatchInvite(b)
  <2>1. c.pc # "idle" /\ OnlySignIns
    BY <1>7 DEF MatchInvite
  <2>2. {"rate-limited", "rejected-csrf", "rejected-no-match", "rejected-multiple-matches",
         "rejected-cross-idp"} \subseteq SsoRejections
    BY DEF SsoRejections
  <2>3. \A j \in Invites : SignInOK([c EXCEPT !.pc = "existing", !.invite = j])
    BY <1>0, <1>7 DEF MatchInvite, SignInOK, SignInStates
  <2>4. CASE Reject(b, "rate-limited", None)
    BY <1>r, <2>1, <2>2, <2>4
  <2>5. CASE Reject(b, "rejected-csrf", None)
    BY <1>r, <2>1, <2>2, <2>5
  <2>6. CASE Reject(b, "rejected-no-match", None)
    BY <1>r, <2>1, <2>2, <2>6
  <2>7. ASSUME NEW j \in Invites, Reject(b, "rejected-multiple-matches", j)
        PROVE  TypeInv'
    BY <1>r, <2>1, <2>2, <2>7
  <2>8. ASSUME NEW j \in Invites, Reject(b, "rejected-cross-idp", j)
        PROVE  TypeInv'
    BY <1>r, <2>1, <2>2, <2>8
  <2>9. ASSUME NEW j \in Invites, SetSignIn(b, [c EXCEPT !.pc = "existing", !.invite = j])
        PROVE  TypeInv'
    BY <2>1, <2>3, <2>9, SignInOnly
  <2> QED BY <1>7, <2>4, <2>5, <2>6, <2>7, <2>8, <2>9 DEF MatchInvite, ActiveMatches
<1>8. CASE FindPreExistingUser(b)
  <2>1. c.pc # "idle" /\ i \in Invites /\ OnlySignIns
    BY <1>0, <1>8 DEF FindPreExistingUser, SignInOK
  <2>2. CASE Reject(b, "rejected-pre-existing-binding", i)
    BY <1>r, <2>1, <2>2 DEF SsoRejections
  <2>3. CASE Go(b, "provision")
    <3>1. SignInOK([c EXCEPT !.pc = "provision"])
      BY <1>0, <1>8 DEF FindPreExistingUser, SignInOK, SignInStates
    <3> QED BY <2>1, <2>3, <3>1, SignInOnly DEF Go
  <2> QED BY <1>8, <2>2, <2>3 DEF FindPreExistingUser
<1>9. CASE LockInvite(b)
  <2>1. c.pc # "idle" /\ i \in Invites /\ OnlySignIns
    BY <1>0, <1>9 DEF LockInvite, SignInOK
  <2>2. CASE Reject(b, "rejected-race", i)
    BY <1>r, <2>1, <2>2 DEF SsoRejections
  <2>3. CASE Go(b, "insert")
    <3>1. SignInOK([c EXCEPT !.pc = "insert"])
      BY <1>0, <1>9 DEF LockInvite, SignInOK, SignInStates
    <3> QED BY <2>1, <2>3, <3>1, SignInOnly DEF Go
  <2> QED BY <1>9, <2>2, <2>3 DEF LockInvite
<1>10. CASE InsertUser(b)
  <2> DEFINE row == [sso |-> c.id, team |-> TeamOf[i]]
  <2>1. c.pc # "idle" /\ i \in Invites /\ OnlySignIns
    BY <1>0, <1>10 DEF InsertUser, SignInOK
  <2>2. CASE End(b, "error")
    BY <1>e, <2>1, <2>2 DEF Outcomes
  <2>3. CASE SetSignIn(b, [c EXCEPT !.pc = "event", !.draft = row])
    <3>1. row \in UserRows
      BY <1>00, <2>1, TablesAssumption DEF UserRows
    <3>2. SignInOK([c EXCEPT !.pc = "event", !.draft = row])
      BY <1>0, <1>10, <3>1 DEF InsertUser, SignInOK, SignInStates
    <3> QED BY <2>1, <2>3, <3>2, SignInOnly
  <2> QED BY <1>10, <2>2, <2>3 DEF InsertUser
<1>11. CASE WriteAcceptedEvent(b)
  <2>1. SignInOK([c EXCEPT !.pc = "commit"])
    BY <1>0, <1>11 DEF WriteAcceptedEvent, SignInOK, SignInStates
  <2>2. authEvents' \in SUBSET [by : SignIns, outcome : SsoRejections \cup {"accepted-sso-auto"}]
    BY <1>11 DEF WriteAcceptedEvent, Event, TypeInv, TypeOK
  <2> QED BY <1>11, <2>1, <2>2, UsersChange DEF WriteAcceptedEvent, Go, TypeInv, TypeOK
<1>12. CASE CommitProvision(b)
  <2>1. /\ c.pc = "commit" /\ i \in Invites /\ c.draft \in UserRows
        /\ OrgOf[i] \in Orgs /\ "accepted-sso-auto" \in Outcomes
    BY <1>0, <1>12, TablesAssumption DEF CommitProvision, SignInOK, Outcomes
  <2>2. users' = [users EXCEPT ![OrgOf[i]][a] = c.draft]
    BY <1>12 DEF CommitProvision, SetUser
  <2>3. users' \in [Orgs -> [Addresses -> UserRows \cup {None}]]
    BY <1>00, <2>1, <2>2 DEF TypeInv, TypeOK
  <2>4. \A p \in Orgs, x \in Addresses : users[p][x] # None => users'[p][x] # None
    BY <1>00, <2>1, <2>2, NamesAssumption DEF TypeInv, TypeOK
  <2>5. SignInOK(Ended(c, "accepted-sso-auto"))
    BY <1>0, <2>1, EndedOK
  <2>6. invites' \in [Invites -> InviteStates]
    BY <1>12, <2>1 DEF CommitProvision, TypeInv, TypeOK, InviteStates
  <2>7. redemptionLog' \in SUBSET LogRows
    BY <1>12, <2>1 DEF CommitProvision, LogRow, LogRows, TypeInv, TypeOK
  <2> QED BY <1>12, <2>3, <2>4, <2>5, <2>6, <2>7, UsersChange
          DEF CommitProvision, End, TypeInv, TypeOK
<1>13. CASE AbortSignIn(b)
  BY <1>0, <1>13, <1>e DEF AbortSignIn, SignInOK, Outcomes
<1>14. CASE AuditRejection(b)
  <2>1. SignInOK([c EXCEPT !.pc = "log"])
    BY <1>0, <1>14 DEF AuditRejection, SignInOK, SignInStates
  <2>2. authEvents' \in SUBSET [by : SignIns, outcome : SsoRejections \cup {"accepted-sso-auto"}]
    BY <1>0, <1>14 DEF AuditRejection, SignInOK, Event, TypeInv, TypeOK
  <2> QED BY <1>14, <2>1, <2>2, UsersChange DEF AuditRejection, Go, TypeInv, TypeOK
<1>15. CASE LogSsoRejection(b)
  <2>1. SignInOK([c EXCEPT !.pc = "done"])
    BY <1>0, <1>15 DEF LogSsoRejection, SignInOK, SignInStates
  <2>2. c.invite \in Invites \cup {None} /\ c.outcome \in SsoRejections
    BY <1>0, <1>15 DEF LogSsoRejection, SignInOK, SignInStates
  <2>3. redemptionLog' \in SUBSET LogRows
    BY <1>15, <2>2 DEF LogSsoRejection, LogRow, LogRows, TypeInv, TypeOK
  <2> QED BY <1>15, <2>1, <2>3, UsersChange DEF LogSsoRejection, Go, TypeInv, TypeOK
<1>16. CASE AuditFailure(b)
  BY <1>16, <1>e DEF AuditFailure, Outcomes, SsoRejections
<1> QED BY <1>1, <1>2, <1>3, <1>4, <1>5, <1>6, <1>7, <1>8, <1>9, <1>10, <1>11, <1>12,
           <1>13, <1>14, <1>15, <1>16
        DEF SignInStep

LEMMA InviteStepType ==
  ASSUME TypeInv,
         \/ \E i \in Invites : CreateInvite(i)
         \/ \E m \in Managers :
              \/ \E i \in Invites : ReadInvite(m, i)
              \/ ConnectRevoke(m) \/ RevokeInvite(m) \/ AuditRevoke(m)
         \/ Tick
  PROVE  TypeInv'
<1> USE DEF OnlyInvites, logVars
<1>1. ASSUME NEW i \in Invites, CreateInvite(i) PROVE TypeInv'
  <2>1. invites' \in [Invites -> InviteStates]
    BY <1>1 DEF CreateInvite, TypeInv, TypeOK, InviteStates
  <2> QED BY <1>1, <2>1 DEF CreateInvite, TypeInv, TypeOK, RedeemShape, SignInShape,
                            RevokeShape, FoundShape, RedeemAddress
<1>2. ASSUME NEW m \in Managers, NEW c \in RevokeStates, revokes' = [revokes EXCEPT ![m] = c],
             c.invite \in Invites, UNCHANGED <<users, machines, logVars, redeems, signIns, now>>,
             invites' \in [Invites -> InviteStates],
             auditLog' \in SUBSET [by : Managers, invite : Invites]
      PROVE  TypeInv'
  BY <1>2 DEF TypeInv, TypeOK, RedeemShape, SignInShape, RevokeShape, FoundShape, RedeemAddress
<1>3. ASSUME NEW m \in Managers, NEW i \in Invites, ReadInvite(m, i) PROVE TypeInv'
  <2>1. \A p \in {"done", "update"} : /\ [IdleRevoke EXCEPT !.pc = p, !.invite = i] \in RevokeStates
                                      /\ [IdleRevoke EXCEPT !.pc = p, !.invite = i].invite = i
    BY DEF IdleRevoke, RevokeStates
  <2> QED BY <1>2, <1>3, <2>1 DEF ReadInvite, TypeInv, TypeOK
<1>4. ASSUME NEW m \in Managers, ConnectRevoke(m) \/ RevokeInvite(m) \/ AuditRevoke(m)
      PROVE  TypeInv'
  <2>1. revokes[m] \in RevokeStates /\ revokes[m].invite \in Invites
    BY <1>4 DEF ConnectRevoke, RevokeInvite, AuditRevoke, TypeInv, TypeOK, RevokeShape
  <2>2. /\ [revokes[m] EXCEPT !.conn = TRUE] \in RevokeStates
        /\ [revokes[m] EXCEPT !.conn = TRUE].invite = revokes[m].invite
        /\ [revokes[m] EXCEPT !.pc = "audit", !.conn = FALSE] \in RevokeStates
        /\ [revokes[m] EXCEPT !.pc = "audit", !.conn = FALSE].invite = revokes[m].invite
        /\ [revokes[m] EXCEPT !.pc = "done"] \in RevokeStates
        /\ [revokes[m] EXCEPT !.pc = "done"].invite = revokes[m].invite
    BY <2>1 DEF RevokeStates
  <2>3. CASE ConnectRevoke(m)
    BY <1>2, <2>1, <2>2, <2>3 DEF ConnectRevoke, TypeInv, TypeOK
  <2>4. CASE RevokeInvite(m)
    <3>1. invites' \in [Invites -> InviteStates]
      BY <2>1, <2>4 DEF RevokeInvite, TypeInv, TypeOK, InviteStates
    <3> QED BY <1>2, <2>1, <2>2, <2>4, <3>1 DEF RevokeInvite, TypeInv, TypeOK
  <2>5. CASE AuditRevoke(m)
    <3>1. auditLog' \in SUBSET [by : Managers, invite : Invites]
      BY <2>1, <2>5 DEF AuditRevoke, TypeInv, TypeOK
    <3> QED BY <1>2, <2>1, <2>2, <2>5, <3>1 DEF AuditRevoke, TypeInv, TypeOK
  <2> QED BY <1>4, <2>3, <2>4, <2>5
<1>5. CASE Tick
  BY <1>5, NumbersAssumption
  DEF Tick, TypeInv, TypeOK, RedeemShape, SignInShape, RevokeShape, FoundShape, RedeemAddress
<1> QED BY <1>1, <1>3, <1>4, <1>5

LEMMA TypeInvStep == TypeInv /\ [Next]_vars => TypeInv'
<1> SUFFICES ASSUME TypeInv, [Next]_vars PROVE TypeInv'
  OBVIOUS
<1>1. CASE UNCHANGED vars
  BY <1>1 DEF vars, logVars, TypeInv, TypeOK, RedeemShape, SignInShape, RevokeShape,
              FoundShape, RedeemAddress
<1> QED BY <1>1, RedeemStepType, SignInStepType, InviteStepType DEF Next

(* Every table and every call keeps its shape, in particular no row of users *)
(* ever disappears between the SELECT and the UPDATE of upsertUserForInvite. *)
THEOREM TypeCorrect == Spec => []TypeOK
<1>1. TypeInv => TypeOK
  BY DEF TypeInv
<1> QED BY <1>1, TypeInvInit, TypeInvStep, PTL DEF Spec

-----------------------------------------------------------------------------
(* The row lock of an invite, and its use count.                            *)

(* Whoever holds the lock holds it alone, and what it saw of the invite      *)
(* under the lock is still so.                                              *)
LockInv ==
  /\ \A q, r \in Redeems : RedeemInTx(q) /\ RedeemInTx(r)
       /\ redeems[q].invite = redeems[r].invite => q = r
  /\ \A b, e \in SignIns : SignInInTx(b) /\ SignInInTx(e)
       /\ signIns[b].invite = signIns[e].invite => b = e
  /\ \A r \in Redeems, b \in SignIns : RedeemInTx(r) /\ SignInInTx(b)
       => redeems[r].invite # signIns[b].invite
  /\ \A r \in Redeems : RedeemInTx(r) =>
       LET invite == invites[redeems[r].invite] IN
       ~invite.revoked /\ invite.used < MaxUses[redeems[r].invite]
         /\ redeems[r].seen = invite.used
  /\ \A b \in SignIns : SignInInTx(b) =>
       LET invite == invites[signIns[b].invite] IN
       ~invite.revoked /\ invite.used < MaxUses[signIns[b].invite]

UseInv == TypeInv /\ LockInv /\ NeverOverRedeemed

(* A step of one redeem. *)
LEMMA RedeemChanges ==
  ASSUME TypeInv, NEW r \in Redeems,
         \/ \E i \in Invites, a \in Addresses : BeginRedeem(r, i, a)
         \/ RedeemStep(r) \/ KeyCollision(r) \/ AbortRedeem(r)
  PROVE  /\ \A q \in Redeems \ {r} : redeems'[q] = redeems[q]
         /\ signIns' = signIns
         /\ \/ /\ invites' = invites
               /\ \/ ~RedeemInTx(r)'
                  \/ /\ RedeemInTx(r)
                     /\ redeems'[r].invite = redeems[r].invite
                     /\ redeems'[r].addr = redeems[r].addr
                     /\ redeems'[r].seen = redeems[r].seen
                  \/ /\ LookupInvite(r) /\ Classify(redeems[r].invite, redeems[r].addr) = "ok"
                     /\ redeems'[r].invite = redeems[r].invite
                     /\ redeems'[r].addr = redeems[r].addr
            \/ CommitRedeem(r) /\ ~RedeemInTx(r)'
<1> USE DEF TypeInv, TypeOK, SetRedeem, RedeemInTx
<1>0. redeems[r] \in RedeemStates
  OBVIOUS
<1>1. \A c \in RedeemStates : \A k : /\ Answered(c, k).pc = "done"
                                     /\ Drafted(c, k).pc = "mint"
                                     /\ Drafted(c, k).invite = c.invite
                                     /\ Drafted(c, k).addr = c.addr
                                     /\ Drafted(c, k).seen = c.seen
  BY DEF Answered, Drafted, RedeemStates
<1>2. CASE \E i \in Invites, a \in Addresses : BeginRedeem(r, i, a)
  <2>1. PICK i \in Invites, a \in Addresses : BeginRedeem(r, i, a)
    BY <1>2
  <2> DEFINE c == [redeems[r] EXCEPT !.pc = "lookup", !.invite = i, !.addr = a, !.conn = TRUE]
  <2>2. c.pc = "lookup"
    BY <1>0 DEF RedeemStates
  <2>3. redeems' = [redeems EXCEPT ![r] = c] /\ invites' = invites /\ signIns' = signIns
    BY <2>1 DEF BeginRedeem
  <2> HIDE DEF c
  <2> QED BY <2>2, <2>3
<1>3. CASE LookupInvite(r)
  <2>1. CASE Classify(redeems[r].invite, redeems[r].addr) = "ok"
    <3> DEFINE c == [redeems[r] EXCEPT !.pc = "select", !.seen = invites[redeems[r].invite].used]
    <3>1. c.invite = redeems[r].invite /\ c.addr = redeems[r].addr
      BY <1>0 DEF RedeemStates
    <3>2. redeems' = [redeems EXCEPT ![r] = c] /\ invites' = invites /\ signIns' = signIns
      BY <1>3, <2>1 DEF LookupInvite
    <3> HIDE DEF c
    <3> QED BY <1>3, <2>1, <3>1, <3>2
  <2>2. CASE Classify(redeems[r].invite, redeems[r].addr) # "ok"
    <3> DEFINE c == [redeems[r] EXCEPT !.pc = "log", !.conn = FALSE,
                      !.result = Classify(redeems[r].invite, redeems[r].addr)]
    <3>1. c.pc = "log"
      BY <1>0 DEF RedeemStates
    <3>2. redeems' = [redeems EXCEPT ![r] = c] /\ invites' = invites /\ signIns' = signIns
      BY <1>3, <2>2 DEF LookupInvite
    <3> HIDE DEF c
    <3> QED BY <3>1, <3>2
  <2> QED BY <2>1, <2>2
<1>4. CASE SelectUser(r)
  BY <1>0, <1>4 DEF SelectUser, RedeemStates
<1>5. CASE UpsertUser(r)
  <2>1. /\ signIns' = signIns /\ invites' = invites /\ RedeemInTx(r)
        /\ \/ SetRedeem(r, Answered(redeems[r], "infra"))
           \/ \E row : SetRedeem(r, Drafted(redeems[r], row))
    BY <1>5 DEF UpsertUser, Rollback
  <2> QED BY <1>0, <1>1, <2>1
<1>6. CASE MintKey(r)
  BY <1>0, <1>6 DEF MintKey, RedeemStates
<1>7. CASE CommitRedeem(r)
  BY <1>0, <1>1, <1>7 DEF CommitRedeem
<1>8. CASE LogRejection(r)
  BY <1>0, <1>1, <1>8 DEF LogRejection, Rollback, RedeemStates
<1>9. CASE KeyCollision(r) \/ AbortRedeem(r)
  BY <1>0, <1>1, <1>9 DEF KeyCollision, AbortRedeem, Rollback
<1> QED BY <1>2, <1>3, <1>4, <1>5, <1>6, <1>7, <1>8, <1>9 DEF RedeemStep

(* A step of one sign-in. *)
LEMMA SignInChanges ==
  ASSUME TypeInv, NEW b \in SignIns,
         \/ \E d \in Identities : LoadUserBySsoIdentity(b, d)
         \/ SignInStep(b) \/ AbortSignIn(b) \/ AuditFailure(b)
  PROVE  /\ \A e \in SignIns \ {b} : signIns'[e] = signIns[e]
         /\ redeems' = redeems
         /\ \/ /\ invites' = invites
               /\ \/ ~SignInInTx(b)'
                  \/ SignInInTx(b) /\ signIns'[b].invite = signIns[b].invite
                  \/ /\ LockInvite(b) /\ Revalidate(signIns[b].invite)
                     /\ signIns'[b].invite = signIns[b].invite
            \/ CommitProvision(b) /\ ~SignInInTx(b)'
<1> USE DEF TypeInv, TypeOK, SetSignIn, SignInInTx
<1>0. signIns[b] \in SignInStates
  OBVIOUS
<1>1. \A c \in SignInStates : \A k, i : Ended(c, k).pc = "done" /\ Rejected(c, k, i).pc = "audit"
  BY DEF Ended, Rejected, SignInStates
<1>2. CASE \E d \in Identities : LoadUserBySsoIdentity(b, d)
  <2>1. PICK d \in Identities : LoadUserBySsoIdentity(b, d)
    BY <1>2
  <2>2. OnlySignIns
    BY <2>1 DEF LoadUserBySsoIdentity
  <2> DEFINE c == [signIns[b] EXCEPT !.pc = "email", !.id = d]
             k == IF Cardinality(BoundTo(d)) = 1 THEN "allow" ELSE "error"
             e == [signIns[b] EXCEPT !.pc = "done", !.id = d, !.outcome = k]
  <2>3. c.pc = "email" /\ e.pc = "done"
    BY <1>0 DEF SignInStates
  <2>4. signIns' = [signIns EXCEPT ![b] = c] \/ signIns' = [signIns EXCEPT ![b] = e]
    BY <2>1 DEF LoadUserBySsoIdentity
  <2> HIDE DEF c, e, k
  <2> QED BY <2>2, <2>3, <2>4 DEF OnlySignIns
<1>3. CASE Connect(b)
  BY <1>0, <1>3 DEF Connect, OnlySignIns, SignInStates
<1>4. CASE EvaluateSignIn(b)
  <2>1. \/ Go(b, "bootstrap") \/ Go(b, "fill") \/ End(b, "ambiguous-multi-org")
        \/ End(b, "allow") \/ End(b, "reject-mismatch")
    BY <1>4 DEF EvaluateSignIn
  <2>2. OnlySignIns
    BY <1>4 DEF EvaluateSignIn
  <2>3. ASSUME NEW k \in {"bootstrap", "fill"}, Go(b, k)
        PROVE  ~SignInInTx(b)' /\ \A e \in SignIns \ {b} : signIns'[e] = signIns[e]
    BY <1>0, <2>3 DEF Go, SignInStates
  <2>4. ASSUME NEW k, End(b, k)
        PROVE  ~SignInInTx(b)' /\ \A e \in SignIns \ {b} : signIns'[e] = signIns[e]
    BY <1>0, <1>1, <2>4 DEF End
  <2> QED BY <2>1, <2>2, <2>3, <2>4 DEF OnlySignIns
<1>5. CASE FillSso(b)
  <2>1. End(b, "error") \/ End(b, "fill-sso")
    BY <1>5 DEF FillSso
  <2> QED BY <1>0, <1>1, <1>5, <2>1 DEF FillSso, End
<1>6. CASE FindInvites(b)
  BY <1>0, <1>6 DEF FindInvites, Go, OnlySignIns, SignInStates
<1>7. CASE BootstrapInsert(b)
  <2>1. End(b, "error") \/ End(b, "reject") \/ End(b, "bootstrap")
    BY <1>7 DEF BootstrapInsert
  <2> QED BY <1>0, <1>1, <1>7, <2>1 DEF BootstrapInsert, End
<1>8. CASE MatchInvite(b)
  <2>1. OnlySignIns
    BY <1>8 DEF MatchInvite
  <2>2. \/ \E k, i : Reject(b, k, i)
        \/ \E i : SetSignIn(b, [signIns[b] EXCEPT !.pc = "existing", !.invite = i])
    BY <1>8 DEF MatchInvite
  <2>3. CASE \E k, i : Reject(b, k, i)
    BY <1>0, <1>1, <2>1, <2>3 DEF Reject, OnlySignIns
  <2>4. CASE \E i : SetSignIn(b, [signIns[b] EXCEPT !.pc = "existing", !.invite = i])
    BY <1>0, <2>1, <2>4 DEF OnlySignIns, SignInStates
  <2> QED BY <2>2, <2>3, <2>4
<1>9. CASE FindPreExistingUser(b)
  <2>1. /\ OnlySignIns
        /\ \/ Reject(b, "rejected-pre-existing-binding", signIns[b].invite)
           \/ Go(b, "provision")
    BY <1>9 DEF FindPreExistingUser
  <2> QED BY <1>0, <1>1, <2>1 DEF Reject, Go, OnlySignIns, SignInStates
<1>10. CASE LockInvite(b)
  BY <1>0, <1>1, <1>10 DEF LockInvite, Reject, Go, OnlySignIns, SignInStates
<1>11. CASE InsertUser(b)
  <2>1. \/ End(b, "error")
        \/ \E row : SetSignIn(b, [signIns[b] EXCEPT !.pc = "event", !.draft = row])
    BY <1>11 DEF InsertUser
  <2>2. CASE End(b, "error")
    BY <1>0, <1>1, <1>11, <2>2 DEF InsertUser, End, OnlySignIns
  <2>3. ASSUME NEW row, SetSignIn(b, [signIns[b] EXCEPT !.pc = "event", !.draft = row])
        PROVE  SignInInTx(b) /\ signIns'[b].invite = signIns[b].invite
    BY <1>0, <1>11, <2>3 DEF InsertUser, SignInStates
  <2>4. invites' = invites /\ redeems' = redeems
        /\ \A e \in SignIns \ {b} : signIns'[e] = signIns[e]
    BY <1>11, <2>1 DEF InsertUser, OnlySignIns, End
  <2> QED BY <2>1, <2>2, <2>3, <2>4
<1>12. CASE WriteAcceptedEvent(b)
  BY <1>0, <1>12 DEF WriteAcceptedEvent, Go, SignInStates
<1>13. CASE CommitProvision(b)
  BY <1>0, <1>1, <1>13 DEF CommitProvision, End
<1>14. CASE AuditRejection(b)
  BY <1>0, <1>14 DEF AuditRejection, Go, SignInStates
<1>15. CASE LogSsoRejection(b)
  BY <1>0, <1>15 DEF LogSsoRejection, Go, SignInStates
<1>16. CASE AbortSignIn(b) \/ AuditFailure(b)
  BY <1>0, <1>1, <1>16 DEF AbortSignIn, AuditFailure, End, OnlySignIns
<1> QED BY <1>2, <1>3, <1>4, <1>5, <1>6, <1>7, <1>8, <1>9, <1>10, <1>11, <1>12, <1>13,
           <1>14, <1>15, <1>16
        DEF SignInStep

LEMMA UseInvStep == UseInv /\ [Next]_vars => UseInv'
<1> SUFFICES ASSUME UseInv, [Next]_vars PROVE UseInv'
  OBVIOUS
<1>0. TypeInv'
  BY TypeInvStep DEF UseInv
<1> USE DEF UseInv
<1>1. ASSUME UNCHANGED <<invites, redeems, signIns>> PROVE UseInv'
  BY <1>0, <1>1 DEF LockInv, NeverOverRedeemed, RedeemInTx, SignInInTx
<1>2. ASSUME NEW r \in Redeems,
             \/ \E i \in Invites, a \in Addresses : BeginRedeem(r, i, a)
             \/ RedeemStep(r) \/ KeyCollision(r) \/ AbortRedeem(r)
      PROVE  UseInv'
  <2>1. /\ \A q \in Redeems \ {r} : redeems'[q] = redeems[q]
        /\ signIns' = signIns
    BY <1>2, RedeemChanges
  <2>2. CASE invites' = invites /\ ~RedeemInTx(r)'
    BY <1>0, <2>1, <2>2 DEF LockInv, NeverOverRedeemed, RedeemInTx, SignInInTx
  <2>3. CASE /\ invites' = invites /\ RedeemInTx(r)
             /\ redeems'[r].invite = redeems[r].invite /\ redeems'[r].seen = redeems[r].seen
    BY <1>0, <2>1, <2>3 DEF LockInv, NeverOverRedeemed, RedeemInTx, SignInInTx
  <2>4. CASE /\ invites' = invites /\ LookupInvite(r)
             /\ Classify(redeems[r].invite, redeems[r].addr) = "ok"
    <3> DEFINE i == redeems[r].invite
    <3>1. redeems'[r].invite = i /\ redeems'[r].seen = invites[i].used
      BY <2>4 DEF LookupInvite, SetRedeem, TypeInv, TypeOK, RedeemStates
    <3>2. ~invites[i].revoked /\ invites[i].used < MaxUses[i]
      <4>1. i \in Invites
        BY <2>4 DEF LookupInvite, TypeInv, RedeemShape
      <4>2. ~(invites[i].used >= MaxUses[i]) /\ ~invites[i].revoked
        BY <2>4 DEF Classify
      <4> QED BY <4>1, <4>2, NumbersAssumption DEF TypeInv, TypeOK, InviteStates
    <3>3. ~InviteHeld(i)
      BY <2>4 DEF LookupInvite
    <3> QED BY <1>0, <2>1, <2>4, <3>1, <3>2, <3>3
            DEF LockInv, NeverOverRedeemed, InviteHeld, RedeemInTx, SignInInTx
  <2>5. CASE CommitRedeem(r) /\ ~RedeemInTx(r)'
    <3> DEFINE i == redeems[r].invite
    <3>1. i \in Invites /\ RedeemInTx(r) /\ invites' = [invites EXCEPT ![i].used = redeems[r].seen + 1]
      BY <2>5 DEF CommitRedeem, RedeemInTx, TypeInv, RedeemShape
    <3>2. \A j \in Invites \ {i} : invites'[j] = invites[j]
      BY <3>1 DEF TypeInv, TypeOK
    <3>3. invites'[i].used = invites[i].used + 1 /\ invites'[i].used <= MaxUses[i]
      <4>1. invites[i] \in InviteStates /\ MaxUses[i] \in Nat
        BY <3>1, NumbersAssumption DEF TypeInv, TypeOK
      <4>2. invites[i].used < MaxUses[i] /\ redeems[r].seen = invites[i].used
        BY <3>1 DEF LockInv
      <4>3. invites'[i].used = redeems[r].seen + 1
        BY <3>1, <4>1 DEF TypeInv, TypeOK, InviteStates
      <4> QED BY <4>1, <4>2, <4>3 DEF InviteStates
    <3>4. \A q \in Redeems \ {r} : RedeemInTx(q) => redeems[q].invite # i
      BY <3>1 DEF LockInv
    <3>5. \A b \in SignIns : SignInInTx(b) => signIns[b].invite # i
      BY <3>1 DEF LockInv
    <3>6. \A q \in Redeems \ {r} : RedeemInTx(q) => redeems[q].invite \in Invites
      BY DEF RedeemInTx, TypeInv, RedeemShape
    <3>7. \A b \in SignIns : SignInInTx(b) => signIns[b].invite \in Invites
      BY DEF SignInInTx, TypeInv, SignInShape
    <3>8. LockInv'
      BY <2>1, <2>5, <3>2, <3>4, <3>5, <3>6, <3>7 DEF LockInv, RedeemInTx, SignInInTx
    <3> QED BY <1>0, <3>2, <3>3, <3>8 DEF NeverOverRedeemed
  <2> QED BY <1>2, <2>2, <2>3, <2>4, <2>5, RedeemChanges
<1>3. ASSUME NEW b \in SignIns,
             \/ \E d \in Identities : LoadUserBySsoIdentity(b, d)
             \/ SignInStep(b) \/ AbortSignIn(b) \/ AuditFailure(b)
      PROVE  UseInv'
  <2>1. /\ \A e \in SignIns \ {b} : signIns'[e] = signIns[e]
        /\ redeems' = redeems
    BY <1>3, SignInChanges
  <2>2. CASE invites' = invites /\ ~SignInInTx(b)'
    BY <1>0, <2>1, <2>2 DEF LockInv, NeverOverRedeemed, RedeemInTx, SignInInTx
  <2>3. CASE invites' = invites /\ SignInInTx(b) /\ signIns'[b].invite = signIns[b].invite
    BY <1>0, <2>1, <2>3 DEF LockInv, NeverOverRedeemed, RedeemInTx, SignInInTx
  <2>4. CASE /\ invites' = invites /\ LockInvite(b) /\ Revalidate(signIns[b].invite)
             /\ signIns'[b].invite = signIns[b].invite
    BY <1>0, <2>1, <2>4
    DEF LockInvite, Revalidate, InviteHeld, LockInv, NeverOverRedeemed, RedeemInTx, SignInInTx
  <2>5. CASE CommitProvision(b) /\ ~SignInInTx(b)'
    <3> DEFINE i == signIns[b].invite
    <3>1. i \in Invites /\ SignInInTx(b) /\ invites' = [invites EXCEPT ![i].used = @ + 1]
      BY <2>5 DEF CommitProvision, SignInInTx, TypeInv, SignInShape
    <3>2. \A j \in Invites \ {i} : invites'[j] = invites[j]
      BY <3>1 DEF TypeInv, TypeOK
    <3>3. invites'[i].used = invites[i].used + 1 /\ invites'[i].used <= MaxUses[i]
      <4>1. invites[i] \in InviteStates /\ MaxUses[i] \in Nat
        BY <3>1, NumbersAssumption DEF TypeInv, TypeOK
      <4>2. invites[i].used < MaxUses[i]
        BY <3>1 DEF LockInv
      <4>3. invites'[i].used = invites[i].used + 1
        BY <3>1, <4>1 DEF TypeInv, TypeOK, InviteStates
      <4> QED BY <4>1, <4>2, <4>3 DEF InviteStates
    <3>4. \A r \in Redeems : RedeemInTx(r) => redeems[r].invite # i
      BY <3>1 DEF LockInv
    <3>5. \A e \in SignIns \ {b} : SignInInTx(e) => signIns[e].invite # i
      BY <3>1 DEF LockInv
    <3>6. \A r \in Redeems : RedeemInTx(r) => redeems[r].invite \in Invites
      BY DEF RedeemInTx, TypeInv, RedeemShape
    <3>7. \A e \in SignIns : SignInInTx(e) => signIns[e].invite \in Invites
      BY DEF SignInInTx, TypeInv, SignInShape
    <3>8. LockInv'
      BY <2>1, <2>5, <3>2, <3>4, <3>5, <3>6, <3>7 DEF LockInv, RedeemInTx, SignInInTx
    <3> QED BY <1>0, <3>2, <3>3, <3>8 DEF NeverOverRedeemed
  <2> QED BY <1>3, <2>2, <2>3, <2>4, <2>5, SignInChanges
<1>4. ASSUME NEW i \in Invites, CreateInvite(i) PROVE UseInv'
  <2>1. \A j \in Invites : invites'[j].used = invites[j].used /\ invites'[j].revoked = invites[j].revoked
    BY <1>4 DEF CreateInvite, TypeInv, TypeOK, InviteStates
  <2> QED BY <1>0, <1>4, <2>1
          DEF CreateInvite, OnlyInvites, LockInv, NeverOverRedeemed, RedeemInTx, SignInInTx,
              TypeInv, RedeemShape, SignInShape
<1>5. ASSUME NEW m \in Managers, RevokeInvite(m) PROVE UseInv'
  <2> DEFINE i == revokes[m].invite
  <2>1. i \in Invites /\ ~InviteHeld(i)
    BY <1>5 DEF RevokeInvite, TypeInv, RevokeShape
  <2>2. /\ \A j \in Invites : invites'[j].used = invites[j].used
        /\ \A j \in Invites \ {i} : invites'[j].revoked = invites[j].revoked
    BY <1>5 DEF RevokeInvite, TypeInv, TypeOK, InviteStates
  <2> QED BY <1>0, <1>5, <2>1, <2>2
          DEF RevokeInvite, OnlyInvites, InviteHeld, LockInv, NeverOverRedeemed,
              RedeemInTx, SignInInTx, TypeInv, RedeemShape, SignInShape
<1>6. ASSUME NEW m \in Managers,
             (\E i \in Invites : ReadInvite(m, i)) \/ ConnectRevoke(m) \/ AuditRevoke(m)
      PROVE  UseInv'
  BY <1>1, <1>6 DEF ReadInvite, ConnectRevoke, AuditRevoke, OnlyInvites
<1>7. CASE Tick \/ UNCHANGED vars
  BY <1>1, <1>7 DEF Tick, vars
<1> QED BY <1>2, <1>3, <1>4, <1>5, <1>6, <1>7 DEF Next

LEMMA UseInvInit == Init => UseInv
<1> SUFFICES ASSUME Init PROVE UseInv
  OBVIOUS
<1>1. LockInv
  BY IdleType DEF Init, LockInv, RedeemInTx, SignInInTx
<1>2. NeverOverRedeemed
  BY NumbersAssumption DEF Init, NeverOverRedeemed
<1> QED BY <1>1, <1>2, TypeInvInit DEF UseInv

(* An invite is never over-redeemed: redeemInvite writes used_count from the *)
(* row it read, provisionInTx increments it, and the row lock that both hold *)
(* from the read to the commit makes the two agree.                         *)
THEOREM NeverOverRedeemedAlways == Spec => []NeverOverRedeemed
<1>1. UseInv => NeverOverRedeemed
  BY DEF UseInv
<1> QED BY <1>1, UseInvInit, UseInvStep, PTL DEF Spec

(* No use of an invite is granted once its revocation is committed: a       *)
(* transaction that has passed the check holds the lock revokeInviteByPrefix *)
(* waits for.                                                               *)
THEOREM RevokedAdmitsNobodyAlways == Spec => RevokedAdmitsNobody
<1> DEFINE Stable == \A i \in Invites : invites[i].revoked => invites'[i].used = invites[i].used
<1>1. ASSUME UseInv, Next PROVE Stable
  <2> USE DEF UseInv
  <2>1. ASSUME UNCHANGED invites PROVE Stable
    BY <2>1
  <2>2. ASSUME NEW r \in Redeems, CommitRedeem(r) PROVE Stable
    <3>1. ~invites[redeems[r].invite].revoked /\ redeems[r].invite \in Invites
      BY <1>1, <2>2 DEF CommitRedeem, LockInv, RedeemInTx, TypeInv, RedeemShape
    <3> QED BY <1>1, <2>2, <3>1 DEF CommitRedeem, TypeInv, TypeOK
  <2>3. ASSUME NEW b \in SignIns, CommitProvision(b) PROVE Stable
    <3>1. ~invites[signIns[b].invite].revoked /\ signIns[b].invite \in Invites
      BY <1>1, <2>3 DEF CommitProvision, LockInv, SignInInTx, TypeInv, SignInShape
    <3> QED BY <1>1, <2>3, <3>1 DEF CommitProvision, TypeInv, TypeOK
  <2>4. ASSUME NEW i \in Invites, CreateInvite(i) PROVE Stable
    BY <1>1, <2>4 DEF CreateInvite, TypeInv, TypeOK, InviteStates
  <2>5. ASSUME NEW m \in Managers, RevokeInvite(m) PROVE Stable
    BY <1>1, <2>5 DEF RevokeInvite, TypeInv, TypeOK, InviteStates
  <2>6. ASSUME NEW r \in Redeems,
               \/ \E i \in Invites, a \in Addresses : BeginRedeem(r, i, a)
               \/ RedeemStep(r) \/ KeyCollision(r) \/ AbortRedeem(r)
        PROVE  Stable
    BY <1>1, <2>1, <2>2, <2>6, RedeemChanges
  <2>7. ASSUME NEW b \in SignIns,
               \/ \E d \in Identities : LoadUserBySsoIdentity(b, d)
               \/ SignInStep(b) \/ AbortSignIn(b) \/ AuditFailure(b)
        PROVE  Stable
    BY <1>1, <2>1, <2>3, <2>7, SignInChanges
  <2>8. ASSUME NEW m \in Managers,
               (\E i \in Invites : ReadInvite(m, i)) \/ ConnectRevoke(m) \/ AuditRevoke(m)
        PROVE  Stable
    BY <2>1, <2>8 DEF ReadInvite, ConnectRevoke, AuditRevoke
  <2> HIDE DEF Stable
  <2>9. CASE Tick
    BY <2>1, <2>9 DEF Tick
  <2> QED BY <1>1, <2>4, <2>5, <2>6, <2>7, <2>8, <2>9 DEF Next
<1>2. UseInv /\ [Next]_vars => [Stable]_vars
  BY <1>1
<1> QED BY <1>2, UseInvInit, UseInvStep, PTL DEF Spec, RevokedAdmitsNobody

-----------------------------------------------------------------------------
(* used_count and the redemption log.                                       *)

(* A call writes its row as it ends, so it has one row at most. *)
RowWhenDone ==
  \A l \in redemptionLog :
    /\ l.by \in Redeems => redeems[l.by].pc = "done"
    /\ l.by \in SignIns => signIns[l.by].pc = "done"

CountInv == UseInv /\ IsFiniteSet(redemptionLog) /\ RowWhenDone /\ UsesAccounted

LEMMA DoneStays ==
  ASSUME TypeInv, [Next]_vars
  PROVE  /\ \A r \in Redeems : redeems[r].pc = "done" => redeems'[r].pc = "done"
         /\ \A b \in SignIns : signIns[b].pc = "done" => signIns'[b].pc = "done"
<1> USE DEF TypeInv, TypeOK
<1>1. \A c \in RedeemStates : \A k : Answered(c, k).pc = "done"
  BY DEF Answered, RedeemStates
<1>2. \A c \in SignInStates : \A k : Ended(c, k).pc = "done"
  BY DEF Ended, SignInStates
<1>3. ASSUME NEW r \in Redeems,
             \/ \E i \in Invites, a \in Addresses : BeginRedeem(r, i, a)
             \/ RedeemStep(r) \/ KeyCollision(r) \/ AbortRedeem(r)
      PROVE  /\ redeems[r].pc = "done" => redeems'[r].pc = "done"
             /\ \A q \in Redeems \ {r} : redeems'[q] = redeems[q]
             /\ signIns' = signIns
  <2>1. /\ \A q \in Redeems \ {r} : redeems'[q] = redeems[q]
        /\ signIns' = signIns
    BY <1>3, RedeemChanges
  <2>2. redeems[r].pc = "done" => AbortRedeem(r)
    BY <1>3 DEF RedeemStep, BeginRedeem, LookupInvite, SelectUser, UpsertUser, MintKey,
                CommitRedeem, LogRejection, KeyCollision
  <2> QED BY <1>1, <2>1, <2>2 DEF AbortRedeem, Rollback, SetRedeem
<1>4. ASSUME NEW b \in SignIns,
             \/ \E d \in Identities : LoadUserBySsoIdentity(b, d)
             \/ SignInStep(b) \/ AbortSignIn(b) \/ AuditFailure(b)
      PROVE  /\ signIns[b].pc = "done" => signIns'[b].pc = "done"
             /\ \A e \in SignIns \ {b} : signIns'[e] = signIns[e]
             /\ redeems' = redeems
  <2>1. /\ \A e \in SignIns \ {b} : signIns'[e] = signIns[e]
        /\ redeems' = redeems
    BY <1>4, SignInChanges
  <2>2. signIns[b].pc = "done" => AbortSignIn(b)
    BY <1>4 DEF SignInStep, LoadUserBySsoIdentity, Connect, EvaluateSignIn, FillSso,
                FindInvites, BootstrapInsert, MatchInvite, FindPreExistingUser, LockInvite,
                InsertUser, WriteAcceptedEvent, CommitProvision, AuditRejection,
                LogSsoRejection, AuditFailure
  <2> QED BY <1>2, <2>1, <2>2 DEF AbortSignIn, End, SetSignIn
<1>5. ASSUME UNCHANGED <<redeems, signIns>>
      PROVE  /\ \A r \in Redeems : redeems[r].pc = "done" => redeems'[r].pc = "done"
             /\ \A b \in SignIns : signIns[b].pc = "done" => signIns'[b].pc = "done"
  BY <1>5
<1>6. CASE \/ \E i \in Invites : CreateInvite(i)
           \/ \E m \in Managers :
                \/ \E i \in Invites : ReadInvite(m, i)
                \/ ConnectRevoke(m) \/ RevokeInvite(m) \/ AuditRevoke(m)
           \/ Tick
           \/ UNCHANGED vars
  BY <1>5, <1>6 DEF CreateInvite, ReadInvite, ConnectRevoke, RevokeInvite, AuditRevoke,
                    OnlyInvites, Tick, vars
<1> QED BY <1>3, <1>4, <1>6 DEF Next

(* A row that is no acceptance, or no row at all. *)
LEMMA CountKept ==
  ASSUME CountInv, UseInv', [Next]_vars, NEW k,
         \/ redemptionLog' = redemptionLog
         \/ /\ redemptionLog' = redemptionLog \cup {k}
            /\ k.outcome \notin {"accepted", "accepted-sso-auto"}
            /\ k.by \in Redeems => redeems'[k.by].pc = "done"
            /\ k.by \in SignIns => signIns'[k.by].pc = "done",
         \A i \in Invites : invites'[i].used = invites[i].used
  PROVE  CountInv'
<1>1. IsFiniteSet(redemptionLog)'
  BY FS_AddElement DEF CountInv
<1>2. \A i : Acceptances(i)' = Acceptances(i)
  BY DEF Acceptances
<1>3. RowWhenDone'
  BY DoneStays DEF CountInv, UseInv, RowWhenDone
<1>4. UsesAccounted'
  BY <1>2 DEF CountInv, UsesAccounted
<1> QED BY <1>1, <1>3, <1>4 DEF CountInv

(* One acceptance more, one use more. *)
LEMMA CountAdded ==
  ASSUME CountInv, UseInv', [Next]_vars, NEW k, NEW i \in Invites,
         redemptionLog' = redemptionLog \cup {k}, k \notin redemptionLog,
         k.outcome \in {"accepted", "accepted-sso-auto"}, k.invite = i,
         k.by \in Redeems => redeems'[k.by].pc = "done",
         k.by \in SignIns => signIns'[k.by].pc = "done",
         \A j \in Invites \ {i} : invites'[j].used = invites[j].used,
         invites'[i].used = invites[i].used + 1
  PROVE  CountInv'
<1>1. IsFiniteSet(redemptionLog)'
  BY FS_AddElement DEF CountInv
<1>2. \A j \in Invites \ {i} : Acceptances(j)' = Acceptances(j)
  BY DEF Acceptances
<1>3. Acceptances(i)' = Acceptances(i) \cup {k}
  BY DEF Acceptances
<1>4. IsFiniteSet(Acceptances(i)) /\ k \notin Acceptances(i)
  <2>1. Acceptances(i) \in SUBSET redemptionLog
    BY DEF Acceptances
  <2> QED BY <2>1, FS_Subset DEF CountInv
<1>5. Cardinality(Acceptances(i)') = Cardinality(Acceptances(i)) + 1
  BY <1>3, <1>4, FS_AddElement
<1>6. RowWhenDone'
  BY DoneStays DEF CountInv, UseInv, RowWhenDone
<1>7. UsesAccounted'
  BY <1>2, <1>5 DEF CountInv, UsesAccounted
<1> QED BY <1>1, <1>6, <1>7 DEF CountInv

LEMMA CountInvStep == CountInv /\ [Next]_vars => CountInv'
<1> SUFFICES ASSUME CountInv, [Next]_vars PROVE CountInv'
  OBVIOUS
<1>0. UseInv' /\ TypeInv
  BY UseInvStep DEF CountInv, UseInv
<1>1. ASSUME UNCHANGED <<redemptionLog, invites>> PROVE CountInv'
  BY <1>0, <1>1, CountKept
<1>2. ASSUME NEW r \in Redeems, CommitRedeem(r) PROVE CountInv'
  <2> DEFINE i == redeems[r].invite
             k == [by |-> r, invite |-> i, outcome |-> "accepted"]
  <2>1. i \in Invites /\ RedeemInTx(r) /\ redeems[r].pc = "commit"
    BY <1>0, <1>2 DEF CommitRedeem, RedeemInTx, TypeInv, RedeemShape
  <2>2. redemptionLog' = redemptionLog \cup {k}
    BY <1>2 DEF CommitRedeem
  <2>3. k \notin redemptionLog
    BY <2>1 DEF CountInv, RowWhenDone
  <2>4. redeems'[r].pc = "done" /\ r \notin SignIns
    BY <1>0, <1>2, NamesAssumption
    DEF CommitRedeem, SetRedeem, Answered, RedeemStates, TypeInv, TypeOK
  <2>5. redeems[r].seen = invites[i].used
    BY <2>1 DEF CountInv, UseInv, LockInv
  <2>6. /\ \A j \in Invites \ {i} : invites'[j].used = invites[j].used
        /\ invites'[i].used = invites[i].used + 1
    BY <1>0, <1>2, <2>1, <2>5 DEF CommitRedeem, TypeInv, TypeOK, InviteStates
  <2> QED BY <1>0, <2>1, <2>2, <2>3, <2>4, <2>6, CountAdded
<1>3. ASSUME NEW b \in SignIns, CommitProvision(b) PROVE CountInv'
  <2> DEFINE i == signIns[b].invite
             k == LogRow(b, "accepted-sso-auto")
  <2>1. i \in Invites /\ signIns[b].pc = "commit"
    BY <1>0, <1>3 DEF CommitProvision, TypeInv, SignInShape
  <2>2. /\ redemptionLog' = redemptionLog \cup {k}
        /\ k.by = b /\ k.invite = i /\ k.outcome = "accepted-sso-auto"
    BY <1>3 DEF CommitProvision, LogRow
  <2>3. k \notin redemptionLog
    BY <2>1, <2>2 DEF CountInv, RowWhenDone
  <2>4. signIns'[b].pc = "done" /\ b \notin Redeems
    BY <1>0, <1>3, NamesAssumption
    DEF CommitProvision, End, SetSignIn, Ended, SignInStates, TypeInv, TypeOK
  <2>6. /\ \A j \in Invites \ {i} : invites'[j].used = invites[j].used
        /\ invites'[i].used = invites[i].used + 1
    BY <1>0, <1>3, <2>1 DEF CommitProvision, TypeInv, TypeOK, InviteStates
  <2> HIDE DEF k
  <2> QED BY <1>0, <2>1, <2>2, <2>3, <2>4, <2>6, CountAdded
<1>4. ASSUME NEW r \in Redeems, LogRejection(r) PROVE CountInv'
  <2> DEFINE k == [by |-> r, invite |-> redeems[r].invite, outcome |-> redeems[r].result]
  <2>1. redeems[r].result \notin {"accepted", "accepted-sso-auto"}
    BY <1>0, <1>4 DEF LogRejection, TypeInv, RedeemShape, Rejections
  <2>2. CASE UNCHANGED redemptionLog
    BY <1>1, <1>4, <2>2 DEF LogRejection
  <2>3. CASE /\ redemptionLog' = redemptionLog \cup {k}
             /\ SetRedeem(r, [redeems[r] EXCEPT !.pc = "done"])
    <3>1. redeems'[r].pc = "done" /\ r \notin SignIns
      BY <1>0, <2>3, NamesAssumption DEF SetRedeem, RedeemStates, TypeInv, TypeOK
    <3>2. invites' = invites
      BY <1>4 DEF LogRejection
    <3> QED BY <1>0, <2>1, <2>3, <3>1, <3>2, CountKept
  <2> QED BY <1>4, <2>2, <2>3 DEF LogRejection
<1>5. ASSUME NEW b \in SignIns, LogSsoRejection(b) PROVE CountInv'
  <2> DEFINE k == LogRow(b, signIns[b].outcome)
  <2>1. k.by = b /\ k.outcome \notin {"accepted", "accepted-sso-auto"}
    BY <1>0, <1>5 DEF LogSsoRejection, LogRow, TypeInv, SignInShape, SsoRejections
  <2>2. redemptionLog' = redemptionLog \cup {k} /\ invites' = invites
    BY <1>5 DEF LogSsoRejection
  <2>3. signIns'[b].pc = "done" /\ b \notin Redeems
    BY <1>0, <1>5, NamesAssumption
    DEF LogSsoRejection, Go, SetSignIn, SignInStates, TypeInv, TypeOK
  <2> HIDE DEF k
  <2> QED BY <1>0, <2>1, <2>2, <2>3, CountKept
<1>6. ASSUME NEW r \in Redeems,
             \/ \E i \in Invites, a \in Addresses : BeginRedeem(r, i, a)
             \/ RedeemStep(r) \/ KeyCollision(r) \/ AbortRedeem(r)
      PROVE  CountInv'
  BY <1>1, <1>2, <1>4, <1>6
  DEF BeginRedeem, RedeemStep, LookupInvite, SelectUser, UpsertUser, MintKey, KeyCollision,
      AbortRedeem, logVars
<1>7. ASSUME NEW b \in SignIns,
             \/ \E d \in Identities : LoadUserBySsoIdentity(b, d)
             \/ SignInStep(b) \/ AbortSignIn(b) \/ AuditFailure(b)
      PROVE  CountInv'
  BY <1>1, <1>3, <1>5, <1>7
  DEF SignInStep, LoadUserBySsoIdentity, Connect, EvaluateSignIn, FillSso, FindInvites,
      BootstrapInsert, MatchInvite, FindPreExistingUser, LockInvite, InsertUser,
      WriteAcceptedEvent, AuditRejection, AbortSignIn, AuditFailure, OnlySignIns, logVars
<1>8. ASSUME NEW i \in Invites, CreateInvite(i) PROVE CountInv'
  <2>1. \A j \in Invites : invites'[j].used = invites[j].used
    BY <1>0, <1>8 DEF CreateInvite, TypeInv, TypeOK, InviteStates
  <2>2. redemptionLog' = redemptionLog
    BY <1>8 DEF CreateInvite, OnlyInvites, logVars
  <2> QED BY <1>0, <2>1, <2>2, CountKept
<1>9. ASSUME NEW m \in Managers, RevokeInvite(m) PROVE CountInv'
  <2>1. \A j \in Invites : invites'[j].used = invites[j].used
    BY <1>0, <1>9 DEF RevokeInvite, TypeInv, TypeOK, InviteStates
  <2>2. redemptionLog' = redemptionLog
    BY <1>9 DEF RevokeInvite, OnlyInvites, logVars
  <2> QED BY <1>0, <2>1, <2>2, CountKept
<1>10. CASE \/ \E m \in Managers :
                 (\E i \in Invites : ReadInvite(m, i)) \/ ConnectRevoke(m) \/ AuditRevoke(m)
            \/ Tick \/ UNCHANGED vars
  BY <1>1, <1>10 DEF ReadInvite, ConnectRevoke, AuditRevoke, OnlyInvites, Tick, vars, logVars
<1> QED BY <1>6, <1>7, <1>8, <1>9, <1>10 DEF Next

LEMMA CountInvInit == Init => CountInv
<1> SUFFICES ASSUME Init PROVE CountInv
  OBVIOUS
<1>1. redemptionLog = {} /\ IsFiniteSet(redemptionLog)
  BY FS_EmptySet DEF Init
<1>2. \A i \in Invites : Acceptances(i) = {} /\ invites[i].used = 0
  BY <1>1 DEF Acceptances, Init
<1>3. UsesAccounted
  BY <1>2, FS_EmptySet DEF UsesAccounted
<1> QED BY <1>1, <1>3, UseInvInit DEF CountInv, RowWhenDone

(* used_count is exact: it equals the number of acceptances the redemption   *)
(* log has for the invite, by token and by SSO.                             *)
THEOREM UsesAccountedAlways == Spec => []UsesAccounted
<1>1. CountInv => UsesAccounted
  BY DEF CountInv
<1> QED BY <1>1, CountInvInit, CountInvStep, PTL DEF Spec

-----------------------------------------------------------------------------
(* Drafts: the rows a transaction has written and not published.             *)

(* Only a transaction past its INSERT or UPDATE has a draft, and a redeem    *)
(* without one found its user in the table.                                 *)
DraftShape ==
  /\ \A r \in Redeems : redeems[r].draft # None => redeems[r].pc \in {"mint", "commit"}
  /\ \A b \in SignIns : signIns[b].draft # None => signIns[b].pc \in {"event", "commit"}
  /\ \A r \in Redeems :
       redeems[r].pc \in {"mint", "commit"} /\ redeems[r].draft = None
         => users[OrgOf[redeems[r].invite]][RedeemAddress(r)] # None

(* An SSO row of the log was written by a sign-in that is over. *)
SsoRows ==
  \A l \in redemptionLog : l.outcome = "accepted-sso-auto" =>
    l.by \in SignIns /\ l.invite \in Invites /\ signIns[l.by].pc # "idle"

KeyInv == TypeInv /\ DraftShape /\ SsoRows /\ KeyIffAccepted /\ AcceptedLogHasUser

RedeemActs(r) ==
  \/ \E i \in Invites, a \in Addresses : BeginRedeem(r, i, a)
  \/ RedeemStep(r) \/ KeyCollision(r) \/ AbortRedeem(r)

SignInActs(b) ==
  \/ \E d \in Identities : LoadUserBySsoIdentity(b, d)
  \/ SignInStep(b) \/ AbortSignIn(b) \/ AuditFailure(b)

(* The row a redeem drafts, when it drafts one. *)
RedeemRow(r, row) ==
  LET o == OrgOf[redeems[r].invite]
      a == RedeemAddress(r)
  IN
  \/ row = None /\ redeems[r].found # None
  \/ /\ row # None
     /\ ~RowHeld(o, a)
     /\ row.sso = IF users[o][a] = None THEN None ELSE users[o][a].sso

(* What a step of a redeem does to its draft. *)
LEMMA RedeemDraft ==
  ASSUME TypeInv, DraftShape, NEW r \in Redeems, RedeemActs(r)
  PROVE  \/ redeems'[r].draft = None /\ redeems'[r].pc \notin {"mint", "commit"}
         \/ /\ redeems'[r].pc \in {"mint", "commit"}
            /\ redeems'[r].invite = redeems[r].invite
            /\ redeems'[r].addr = redeems[r].addr
            /\ \/ UpsertUser(r) /\ RedeemRow(r, redeems'[r].draft)
               \/ MintKey(r) /\ redeems'[r].draft = redeems[r].draft
<1> USE DEF TypeInv, TypeOK, SetRedeem
<1>0. redeems[r] \in RedeemStates
  OBVIOUS
<1>1. \A c \in RedeemStates : \A k : /\ Answered(c, k).pc = "done" /\ Answered(c, k).draft = None
                                     /\ Drafted(c, k).pc = "mint" /\ Drafted(c, k).draft = k
                                     /\ Drafted(c, k).invite = c.invite
                                     /\ Drafted(c, k).addr = c.addr
  BY DEF Answered, Drafted, RedeemStates
<1>2. redeems[r].pc \notin {"mint", "commit"} => redeems[r].draft = None
  BY DEF DraftShape
<1>3. CASE \E i \in Invites, a \in Addresses : BeginRedeem(r, i, a)
  <2>1. PICK i \in Invites, a \in Addresses : BeginRedeem(r, i, a)
    BY <1>3
  <2> DEFINE c == [redeems[r] EXCEPT !.pc = "lookup", !.invite = i, !.addr = a, !.conn = TRUE]
  <2>2. c.pc = "lookup" /\ c.draft = redeems[r].draft
    BY <1>0 DEF RedeemStates
  <2>3. redeems' = [redeems EXCEPT ![r] = c] /\ redeems[r].pc = "idle"
    BY <2>1 DEF BeginRedeem
  <2> HIDE DEF c
  <2> QED BY <1>2, <2>2, <2>3
<1>4. CASE LookupInvite(r)
  <2> DEFINE k == Classify(redeems[r].invite, redeems[r].addr)
             c == [redeems[r] EXCEPT !.pc = "select", !.seen = invites[redeems[r].invite].used]
             e == [redeems[r] EXCEPT !.pc = "log", !.conn = FALSE, !.result = k]
  <2>1. /\ c.pc = "select" /\ c.draft = redeems[r].draft
        /\ e.pc = "log" /\ e.draft = redeems[r].draft
    BY <1>0 DEF RedeemStates
  <2>2. redeems[r].pc = "lookup"
        /\ (redeems' = [redeems EXCEPT ![r] = c] \/ redeems' = [redeems EXCEPT ![r] = e])
    BY <1>4 DEF LookupInvite
  <2> HIDE DEF c, e
  <2> QED BY <1>2, <2>1, <2>2
<1>5. CASE SelectUser(r)
  BY <1>0, <1>2, <1>5 DEF SelectUser, RedeemStates
<1>6. CASE UpsertUser(r)
  <2> DEFINE o == OrgOf[redeems[r].invite]
             a == RedeemAddress(r)
             fresh == [sso |-> None, team |-> TeamOf[redeems[r].invite]]
             filled == [users[o][a] EXCEPT !.team = TeamOf[redeems[r].invite]]
  <2>1. CASE Rollback(r)
    BY <1>0, <1>1, <2>1 DEF Rollback
  <2>2. CASE SetRedeem(r, Drafted(redeems[r], fresh)) /\ ~RowHeld(o, a) /\ users[o][a] = None
    <3>1. redeems[r].invite \in Invites
      BY <1>6 DEF UpsertUser, RedeemShape
    <3>2. fresh \in UserRows /\ fresh.sso = None
      BY <3>1, TablesAssumption DEF UserRows
    <3> HIDE DEF fresh
    <3> QED BY <1>0, <1>1, <1>6, <2>2, <3>2, NamesAssumption DEF RedeemRow
  <2>3. CASE SetRedeem(r, Drafted(redeems[r], filled)) /\ ~RowHeld(o, a) /\ redeems[r].found # None
    <3>1. users[o][a] # None
      BY <1>6, <2>3 DEF UpsertUser, FoundShape
    <3>2. redeems[r].pc # "idle"
      BY <1>6 DEF UpsertUser
    <3>3. o \in Orgs /\ a \in Addresses
      BY <3>2, TablesAssumption DEF RedeemShape, RedeemAddress
    <3>4. users[o][a] \in UserRows
      BY <3>1, <3>3
    <3>5. filled.sso = users[o][a].sso
      BY <3>4 DEF UserRows
    <3>6. filled \in UserRows
      <4>1. TeamOf[redeems[r].invite] \in Teams \cup {None}
        BY <3>2, TablesAssumption DEF RedeemShape
      <4> QED BY <3>4, <4>1 DEF UserRows
    <3> HIDE DEF filled
    <3> QED BY <1>0, <1>1, <1>6, <2>3, <3>1, <3>5, <3>6, NamesAssumption DEF RedeemRow
  <2>4. CASE SetRedeem(r, Drafted(redeems[r], None)) /\ redeems[r].found # None
    BY <1>0, <1>1, <1>6, <2>4 DEF RedeemRow
  <2> QED BY <1>6, <2>1, <2>2, <2>3, <2>4 DEF UpsertUser
<1>7. CASE MintKey(r)
  BY <1>0, <1>7 DEF MintKey, RedeemStates
<1>8. CASE CommitRedeem(r)
  BY <1>0, <1>1, <1>8 DEF CommitRedeem
<1>9. CASE LogRejection(r)
  BY <1>0, <1>1, <1>2, <1>9 DEF LogRejection, Rollback, RedeemStates
<1>10. CASE KeyCollision(r) \/ AbortRedeem(r)
  BY <1>0, <1>1, <1>10 DEF KeyCollision, AbortRedeem, Rollback
<1> QED BY <1>3, <1>4, <1>5, <1>6, <1>7, <1>8, <1>9, <1>10 DEF RedeemActs, RedeemStep

(* What a step of a sign-in does to its draft. *)
LEMMA SignInDraft ==
  ASSUME TypeInv, DraftShape, NEW b \in SignIns, SignInActs(b)
  PROVE  /\ signIns[b].pc # "idle" => signIns'[b].id = signIns[b].id /\ signIns'[b].pc # "idle"
         /\ \/ signIns'[b].draft = None
            \/ /\ signIns'[b].pc \in {"event", "commit"}
               /\ signIns'[b].invite = signIns[b].invite
               /\ \/ /\ InsertUser(b)
                     /\ ~Taken(OrgOf[signIns[b].invite], Canon[SignInAddress(b)], signIns[b].id)
                     /\ signIns'[b].draft.sso = signIns[b].id
                  \/ WriteAcceptedEvent(b) /\ signIns'[b].draft = signIns[b].draft
<1> USE DEF TypeInv, TypeOK, SetSignIn
<1> DEFINE c == signIns[b]
<1>0. signIns[b] \in SignInStates
  OBVIOUS
<1>1. \A k, i : /\ Ended(c, k).pc = "done" /\ Ended(c, k).draft = None /\ Ended(c, k).id = c.id
                /\ Rejected(c, k, i).pc = "audit" /\ Rejected(c, k, i).draft = c.draft
                /\ Rejected(c, k, i).id = c.id
  BY <1>0 DEF Ended, Rejected, SignInStates
<1>2. c.pc \notin {"event", "commit"} => c.draft = None
  BY DEF DraftShape
<1>e. ASSUME NEW k, End(b, k)
      PROVE  signIns'[b].draft = None /\ signIns'[b].id = c.id /\ signIns'[b].pc # "idle"
  BY <1>1, <1>e DEF End
<1>r. ASSUME NEW k, NEW i, Reject(b, k, i), c.pc \notin {"event", "commit"}
      PROVE  signIns'[b].draft = None /\ signIns'[b].id = c.id /\ signIns'[b].pc # "idle"
  BY <1>1, <1>2, <1>r DEF Reject
<1>g. ASSUME NEW k, Go(b, k), k # "idle", c.pc \notin {"event", "commit"}
      PROVE  signIns'[b].draft = None /\ signIns'[b].id = c.id /\ signIns'[b].pc # "idle"
  BY <1>0, <1>2, <1>g DEF Go, SignInStates
<1>3. CASE \E d \in Identities : LoadUserBySsoIdentity(b, d)
  <2>1. PICK d \in Identities : LoadUserBySsoIdentity(b, d)
    BY <1>3
  <2> DEFINE m == [c EXCEPT !.pc = "email", !.id = d]
             k == IF Cardinality(BoundTo(d)) = 1 THEN "allow" ELSE "error"
             n == [c EXCEPT !.pc = "done", !.id = d, !.outcome = k]
  <2>2. m.draft = c.draft /\ n.draft = c.draft
    BY <1>0 DEF SignInStates
  <2>3. c.pc = "idle" /\ (signIns' = [signIns EXCEPT ![b] = m] \/ signIns' = [signIns EXCEPT ![b] = n])
    BY <2>1 DEF LoadUserBySsoIdentity
  <2> HIDE DEF m, n, k
  <2> QED BY <1>2, <2>2, <2>3
<1>4. CASE Connect(b)
  BY <1>0, <1>2, <1>4 DEF Connect, SignInStates
<1>5. CASE EvaluateSignIn(b)
  <2>1. \/ Go(b, "bootstrap") \/ Go(b, "fill") \/ End(b, "ambiguous-multi-org")
        \/ End(b, "allow") \/ End(b, "reject-mismatch")
    BY <1>5 DEF EvaluateSignIn
  <2>2. c.pc = "email"
    BY <1>5 DEF EvaluateSignIn
  <2> QED BY <1>e, <1>g, <2>1, <2>2
<1>6. CASE FillSso(b)
  BY <1>e, <1>6 DEF FillSso
<1>7. CASE FindInvites(b)
  BY <1>g, <1>7 DEF FindInvites
<1>8. CASE BootstrapInsert(b)
  BY <1>e, <1>8 DEF BootstrapInsert
<1>9. CASE MatchInvite(b)
  <2>1. c.pc = "evaluate"
    BY <1>9 DEF MatchInvite
  <2>2. \/ \E k, i : Reject(b, k, i)
        \/ \E i : SetSignIn(b, [c EXCEPT !.pc = "existing", !.invite = i])
    BY <1>9 DEF MatchInvite
  <2>3. CASE \E k, i : Reject(b, k, i)
    BY <1>r, <2>1, <2>3
  <2>4. CASE \E i : SetSignIn(b, [c EXCEPT !.pc = "existing", !.invite = i])
    BY <1>0, <1>2, <2>1, <2>4 DEF SignInStates
  <2> QED BY <2>2, <2>3, <2>4
<1>10. CASE FindPreExistingUser(b)
  BY <1>r, <1>g, <1>10 DEF FindPreExistingUser
<1>11. CASE LockInvite(b)
  BY <1>r, <1>g, <1>11 DEF LockInvite
<1>12. CASE InsertUser(b)
  <2> DEFINE row == [sso |-> c.id, team |-> TeamOf[c.invite]]
             m == [c EXCEPT !.pc = "event", !.draft = row]
  <2>1. CASE End(b, "error")
    BY <1>e, <2>1
  <2>2. CASE SetSignIn(b, m)
             /\ ~Taken(OrgOf[c.invite], Canon[SignInAddress(b)], c.id)
    <3>1. m.pc = "event" /\ m.draft.sso = c.id /\ m.id = c.id /\ m.invite = c.invite
      BY <1>0 DEF SignInStates
    <3> HIDE DEF m
    <3> QED BY <1>12, <2>2, <3>1
  <2> QED BY <1>12, <2>1, <2>2 DEF InsertUser
<1>13. CASE WriteAcceptedEvent(b)
  BY <1>0, <1>13 DEF WriteAcceptedEvent, Go, SignInStates
<1>14. CASE CommitProvision(b)
  BY <1>e, <1>14 DEF CommitProvision
<1>15. CASE AuditRejection(b)
  BY <1>g, <1>15 DEF AuditRejection
<1>16. CASE LogSsoRejection(b)
  BY <1>g, <1>16 DEF LogSsoRejection
<1>17. CASE AbortSignIn(b) \/ AuditFailure(b)
  <2>1. \E k : End(b, k)
    BY <1>17 DEF AbortSignIn, AuditFailure
  <2>2. c.pc # "idle"
    BY <1>17 DEF AbortSignIn, AuditFailure, SignInShape
  <2> QED BY <1>e, <2>1, <2>2
<1> QED BY <1>3, <1>4, <1>5, <1>6, <1>7, <1>8, <1>9, <1>10, <1>11, <1>12, <1>13,
           <1>14, <1>15, <1>16, <1>17
        DEF SignInActs, SignInStep

(* Which steps write the table of users. *)
LEMMA UserWriters ==
  ASSUME [Next]_vars
  PROVE  \/ users' = users
         \/ \E r \in Redeems : CommitRedeem(r)
         \/ \E b \in SignIns : FillSso(b) \/ BootstrapInsert(b) \/ CommitProvision(b)
<1>1. ASSUME NEW r \in Redeems, RedeemActs(r) PROVE users' = users \/ CommitRedeem(r)
  BY <1>1 DEF RedeemActs, RedeemStep, BeginRedeem, LookupInvite, SelectUser, UpsertUser,
              MintKey, LogRejection, KeyCollision, AbortRedeem
<1>2. ASSUME NEW b \in SignIns, SignInActs(b)
      PROVE  users' = users \/ FillSso(b) \/ BootstrapInsert(b) \/ CommitProvision(b)
  BY <1>2 DEF SignInActs, SignInStep, LoadUserBySsoIdentity, Connect, EvaluateSignIn,
              FindInvites, MatchInvite, FindPreExistingUser, LockInvite, InsertUser,
              WriteAcceptedEvent, AuditRejection, LogSsoRejection, AbortSignIn, AuditFailure,
              OnlySignIns
<1>3. CASE \/ \E i \in Invites : CreateInvite(i)
           \/ \E m \in Managers :
                \/ \E i \in Invites : ReadInvite(m, i)
                \/ ConnectRevoke(m) \/ RevokeInvite(m) \/ AuditRevoke(m)
           \/ Tick \/ UNCHANGED vars
  BY <1>3 DEF CreateInvite, ReadInvite, ConnectRevoke, RevokeInvite, AuditRevoke,
              OnlyInvites, Tick, vars
<1> QED BY <1>1, <1>2, <1>3 DEF Next, RedeemActs, SignInActs

(* The rows the writers leave. *)
LEMMA WrittenRows ==
  ASSUME TypeInv
  PROVE  /\ \A r \in Redeems : CommitRedeem(r) =>
              \/ redeems[r].draft = None /\ users' = users
              \/ /\ redeems[r].draft \in UserRows
                 /\ users' = [users EXCEPT ![OrgOf[redeems[r].invite]][RedeemAddress(r)]
                                             = redeems[r].draft]
         /\ \A b \in SignIns : CommitProvision(b) =>
              /\ signIns[b].draft \in UserRows
              /\ users' = [users EXCEPT ![OrgOf[signIns[b].invite]][Canon[SignInAddress(b)]]
                                          = signIns[b].draft]
         /\ \A b \in SignIns : FillSso(b) =>
              \/ users' = users
              \/ \A o \in Orgs, x \in Addresses :
                   users'[o][x] = IF x = SignInAddress(b) /\ users[o][x] # None
                                    THEN [users[o][x] EXCEPT !.sso = signIns[b].id]
                                    ELSE users[o][x]
         /\ \A b \in SignIns : BootstrapInsert(b) =>
              \/ users' = users
              \/ \E o \in Orgs :
                   /\ ~RowHeld(o, SignInAddress(b)) /\ ~SsoHeld(o, signIns[b].id)
                   /\ ~Taken(o, SignInAddress(b), signIns[b].id)
                   /\ users' = [users EXCEPT ![o][SignInAddress(b)]
                                               = [sso |-> signIns[b].id, team |-> None]]
<1>1. ASSUME NEW r \in Redeems, CommitRedeem(r)
      PROVE  \/ redeems[r].draft = None /\ users' = users
             \/ /\ redeems[r].draft \in UserRows
                /\ users' = [users EXCEPT ![OrgOf[redeems[r].invite]][RedeemAddress(r)]
                                            = redeems[r].draft]
  <2>1. redeems[r].draft \in UserRows \cup {None}
    BY DEF TypeInv, TypeOK, RedeemStates
  <2> QED BY <1>1, <2>1 DEF CommitRedeem, SetUser
<1>2. ASSUME NEW b \in SignIns, CommitProvision(b)
      PROVE  /\ signIns[b].draft \in UserRows
             /\ users' = [users EXCEPT ![OrgOf[signIns[b].invite]][Canon[SignInAddress(b)]]
                                         = signIns[b].draft]
  BY <1>2 DEF CommitProvision, SetUser, TypeInv, SignInShape
<1>3. ASSUME NEW b \in SignIns, FillSso(b)
      PROVE  \/ users' = users
             \/ \A o \in Orgs, x \in Addresses :
                  users'[o][x] = IF x = SignInAddress(b) /\ users[o][x] # None
                                   THEN [users[o][x] EXCEPT !.sso = signIns[b].id]
                                   ELSE users[o][x]
  <2>1. CASE users' = [o \in Orgs |-> [x \in Addresses |->
                         IF x = SignInAddress(b) /\ users[o][SignInAddress(b)] # None
                           THEN [users[o][SignInAddress(b)] EXCEPT !.sso = signIns[b].id]
                           ELSE users[o][x]]]
    BY <2>1
  <2> QED BY <1>3, <2>1 DEF FillSso
<1>4. ASSUME NEW b \in SignIns, BootstrapInsert(b)
      PROVE  \/ users' = users
             \/ \E o \in Orgs :
                  /\ ~RowHeld(o, SignInAddress(b)) /\ ~SsoHeld(o, signIns[b].id)
                  /\ ~Taken(o, SignInAddress(b), signIns[b].id)
                  /\ users' = [users EXCEPT ![o][SignInAddress(b)]
                                              = [sso |-> signIns[b].id, team |-> None]]
  BY <1>4 DEF BootstrapInsert, SetUser
<1> QED BY <1>1, <1>2, <1>3, <1>4

(* A transaction that has a draft, and a sign-in that writes, name rows of   *)
(* the table.                                                               *)
LEMMA RowNames ==
  ASSUME TypeInv
  PROVE  /\ \A r \in Redeems : redeems[r].pc # "idle" =>
              OrgOf[redeems[r].invite] \in Orgs /\ RedeemAddress(r) \in Addresses
         /\ \A b \in SignIns : signIns[b].pc # "idle" =>
              SignInAddress(b) \in Addresses /\ Canon[SignInAddress(b)] \in Addresses
         /\ \A b \in SignIns :
              signIns[b].pc \in {"existing", "provision", "insert", "event", "commit"}
                => OrgOf[signIns[b].invite] \in Orgs
BY TablesAssumption DEF TypeInv, RedeemShape, RedeemAddress, SignInShape, SignInAddress

(* No row of users ever disappears. *)
LEMMA UsersGrow ==
  ASSUME TypeInv, [Next]_vars, NEW o \in Orgs, NEW x \in Addresses, users[o][x] # None
  PROVE  users'[o][x] # None
<1>0. /\ users \in [Orgs -> [Addresses -> UserRows \cup {None}]]
      /\ None \notin UserRows
  BY NamesAssumption DEF TypeInv, TypeOK
<1>1. ASSUME NEW r \in Redeems, CommitRedeem(r) PROVE users'[o][x] # None
  <2>1. CASE users' = users
    BY <2>1
  <2>2. CASE /\ redeems[r].draft \in UserRows
             /\ users' = [users EXCEPT ![OrgOf[redeems[r].invite]][RedeemAddress(r)]
                                         = redeems[r].draft]
    <3>1. OrgOf[redeems[r].invite] \in Orgs /\ RedeemAddress(r) \in Addresses
      BY <1>1, RowNames DEF CommitRedeem
    <3> QED BY <1>0, <2>2, <3>1
  <2> QED BY <1>1, <2>1, <2>2, WrittenRows
<1>2. ASSUME NEW b \in SignIns, CommitProvision(b) PROVE users'[o][x] # None
  <2>1. /\ signIns[b].draft \in UserRows
        /\ users' = [users EXCEPT ![OrgOf[signIns[b].invite]][Canon[SignInAddress(b)]]
                                    = signIns[b].draft]
    BY <1>2, WrittenRows
  <2>2. OrgOf[signIns[b].invite] \in Orgs /\ Canon[SignInAddress(b)] \in Addresses
    BY <1>2, RowNames DEF CommitProvision
  <2> QED BY <1>0, <2>1, <2>2
<1>3. ASSUME NEW b \in SignIns, FillSso(b) PROVE users'[o][x] # None
  <2>1. users[o][x] \in UserRows /\ signIns[b].id \in Identities
    BY <1>0, <1>3 DEF FillSso, TypeInv, SignInShape
  <2>2. [users[o][x] EXCEPT !.sso = signIns[b].id] \in UserRows
    BY <2>1 DEF UserRows
  <2> QED BY <1>0, <1>3, <2>2, WrittenRows
<1>4. ASSUME NEW b \in SignIns, BootstrapInsert(b) PROVE users'[o][x] # None
  <2>1. signIns[b].id \in Identities /\ SignInAddress(b) \in Addresses
    BY <1>4, RowNames DEF BootstrapInsert, TypeInv, SignInShape
  <2>2. [sso |-> signIns[b].id, team |-> None] \in UserRows
    BY <2>1 DEF UserRows
  <2>3. CASE users' = users
    BY <2>3
  <2>4. ASSUME NEW p \in Orgs,
               users' = [users EXCEPT ![p][SignInAddress(b)]
                                        = [sso |-> signIns[b].id, team |-> None]]
        PROVE  users'[o][x] # None
    BY <1>0, <2>1, <2>2, <2>4
  <2> QED BY <1>4, <2>3, <2>4, WrittenRows
<1> QED BY <1>1, <1>2, <1>3, <1>4, UserWriters

LEMMA DraftShapeStep ==
  ASSUME TypeInv, DraftShape, [Next]_vars
  PROVE  DraftShape'
<1> DEFINE There(r) == users[OrgOf[redeems[r].invite]][RedeemAddress(r)] # None
<1>1. ASSUME NEW r \in Redeems, redeems'[r] = redeems[r],
             redeems[r].pc \in {"mint", "commit"}, redeems[r].draft = None
      PROVE  There(r)'
  <2>1. There(r) /\ OrgOf[redeems[r].invite] \in Orgs /\ RedeemAddress(r) \in Addresses
    BY <1>1, RowNames DEF DraftShape
  <2>2. RedeemAddress(r)' = RedeemAddress(r)
    BY <1>1 DEF RedeemAddress
  <2> QED BY <1>1, <2>1, <2>2, UsersGrow
<1>2. ASSUME NEW r \in Redeems, RedeemActs(r) PROVE DraftShape'
  <2>1. signIns' = signIns /\ \A q \in Redeems \ {r} : redeems'[q] = redeems[q]
    BY <1>2, RedeemChanges DEF RedeemActs
  <2>2. redeems'[r].draft # None => redeems'[r].pc \in {"mint", "commit"}
    BY <1>2, RedeemDraft
  <2>3. ASSUME redeems'[r].pc \in {"mint", "commit"}, redeems'[r].draft = None
        PROVE  There(r)'
    <3>1. /\ redeems'[r].invite = redeems[r].invite /\ redeems'[r].addr = redeems[r].addr
          /\ \/ UpsertUser(r) /\ RedeemRow(r, redeems'[r].draft)
             \/ MintKey(r) /\ redeems'[r].draft = redeems[r].draft
      BY <1>2, <2>3, RedeemDraft
    <3>2. RedeemAddress(r)' = RedeemAddress(r)
      BY <3>1 DEF RedeemAddress
    <3>3. OrgOf[redeems[r].invite] \in Orgs /\ RedeemAddress(r) \in Addresses
      BY <3>1, RowNames DEF UpsertUser, MintKey
    <3>4. CASE UpsertUser(r)
      <4>1. redeems[r].found # None
        BY <2>3, <3>1, <3>4 DEF RedeemRow, UpsertUser, MintKey
      <4>2. There(r)
        BY <3>4, <4>1 DEF UpsertUser, TypeInv, FoundShape
      <4> QED BY <3>1, <3>2, <3>3, <4>2, UsersGrow
    <3>5. CASE MintKey(r)
      <4>1. There(r)
        BY <2>3, <3>1, <3>5 DEF MintKey, UpsertUser, DraftShape
      <4> QED BY <3>1, <3>2, <3>3, <4>1, UsersGrow
    <3> QED BY <3>1, <3>4, <3>5
  <2> QED BY <1>1, <2>1, <2>2, <2>3 DEF DraftShape
<1>3. ASSUME NEW b \in SignIns, SignInActs(b) PROVE DraftShape'
  <2>1. redeems' = redeems /\ \A e \in SignIns \ {b} : signIns'[e] = signIns[e]
    BY <1>3, SignInChanges DEF SignInActs
  <2>2. signIns'[b].draft # None => signIns'[b].pc \in {"event", "commit"}
    BY <1>3, SignInDraft
  <2> QED BY <1>1, <2>1, <2>2 DEF DraftShape
<1>4. ASSUME UNCHANGED <<redeems, signIns>> PROVE DraftShape'
  BY <1>1, <1>4 DEF DraftShape
<1>5. CASE \/ \E i \in Invites : CreateInvite(i)
           \/ \E m \in Managers :
                \/ \E i \in Invites : ReadInvite(m, i)
                \/ ConnectRevoke(m) \/ RevokeInvite(m) \/ AuditRevoke(m)
           \/ Tick \/ UNCHANGED vars
  BY <1>4, <1>5 DEF CreateInvite, ReadInvite, ConnectRevoke, RevokeInvite, AuditRevoke,
              OnlyInvites, Tick, vars
<1> QED BY <1>2, <1>3, <1>5 DEF Next, RedeemActs, SignInActs

(* Every sign-in that has begun keeps its identity. *)
LEMMA IdKept ==
  ASSUME TypeInv, DraftShape, [Next]_vars, NEW b \in SignIns, signIns[b].pc # "idle"
  PROVE  signIns'[b].id = signIns[b].id /\ signIns'[b].pc # "idle"
<1>1. ASSUME NEW r \in Redeems, RedeemActs(r) PROVE signIns' = signIns
  BY <1>1, RedeemChanges DEF RedeemActs
<1>2. ASSUME NEW e \in SignIns, SignInActs(e)
      PROVE  signIns'[b].id = signIns[b].id /\ signIns'[b].pc # "idle"
  <2>1. CASE e = b
    BY <1>2, <2>1, SignInDraft
  <2>2. CASE e # b
    BY <1>2, <2>2, SignInChanges DEF SignInActs
  <2> QED BY <2>1, <2>2
<1>3. CASE \/ \E i \in Invites : CreateInvite(i)
           \/ \E m \in Managers :
                \/ \E i \in Invites : ReadInvite(m, i)
                \/ ConnectRevoke(m) \/ RevokeInvite(m) \/ AuditRevoke(m)
           \/ Tick \/ UNCHANGED vars
  BY <1>3 DEF CreateInvite, ReadInvite, ConnectRevoke, RevokeInvite, AuditRevoke,
              OnlyInvites, Tick, vars
<1> QED BY <1>1, <1>2, <1>3 DEF Next, RedeemActs, SignInActs

(* Which steps write the keys and the redemption log. *)
LEMMA LogWriters ==
  ASSUME TypeInv, [Next]_vars
  PROVE  \/ UNCHANGED <<machines, redemptionLog>>
         \/ \E r \in Redeems : CommitRedeem(r)
         \/ \E b \in SignIns : CommitProvision(b)
         \/ /\ machines' = machines
            /\ \E l : /\ redemptionLog' = redemptionLog \cup {l}
                      /\ l.outcome \notin {"accepted", "accepted-sso-auto"}
<1>1. ASSUME NEW r \in Redeems, LogRejection(r)
      PROVE  \/ UNCHANGED <<machines, redemptionLog>>
             \/ /\ machines' = machines
                /\ \E l : /\ redemptionLog' = redemptionLog \cup {l}
                          /\ l.outcome \notin {"accepted", "accepted-sso-auto"}
  <2> DEFINE l == [by |-> r, invite |-> redeems[r].invite, outcome |-> redeems[r].result]
  <2>1. l.outcome \notin {"accepted", "accepted-sso-auto"}
    BY <1>1 DEF LogRejection, TypeInv, RedeemShape, Rejections
  <2>2. machines' = machines
        /\ (redemptionLog' = redemptionLog \cup {l} \/ UNCHANGED redemptionLog)
    BY <1>1 DEF LogRejection
  <2> HIDE DEF l
  <2> QED BY <2>1, <2>2
<1>2. ASSUME NEW b \in SignIns, LogSsoRejection(b)
      PROVE  /\ machines' = machines
             /\ \E l : /\ redemptionLog' = redemptionLog \cup {l}
                       /\ l.outcome \notin {"accepted", "accepted-sso-auto"}
  <2> DEFINE l == LogRow(b, signIns[b].outcome)
  <2>1. l.outcome \notin {"accepted", "accepted-sso-auto"}
    BY <1>2 DEF LogSsoRejection, LogRow, TypeInv, SignInShape, SsoRejections
  <2>2. redemptionLog' = redemptionLog \cup {l} /\ machines' = machines
    BY <1>2 DEF LogSsoRejection
  <2> HIDE DEF l
  <2> QED BY <2>1, <2>2
<1>3. ASSUME NEW r \in Redeems, RedeemActs(r)
      PROVE  UNCHANGED <<machines, redemptionLog>> \/ CommitRedeem(r) \/ LogRejection(r)
  BY <1>3 DEF RedeemActs, RedeemStep, BeginRedeem, LookupInvite, SelectUser, UpsertUser,
              MintKey, KeyCollision, AbortRedeem, logVars
<1>4. ASSUME NEW b \in SignIns, SignInActs(b)
      PROVE  UNCHANGED <<machines, redemptionLog>> \/ CommitProvision(b) \/ LogSsoRejection(b)
  BY <1>4 DEF SignInActs, SignInStep, LoadUserBySsoIdentity, Connect, EvaluateSignIn,
              FillSso, FindInvites, BootstrapInsert, MatchInvite, FindPreExistingUser,
              LockInvite, InsertUser, WriteAcceptedEvent, AuditRejection, AbortSignIn,
              AuditFailure, OnlySignIns, logVars
<1>5. CASE \/ \E i \in Invites : CreateInvite(i)
           \/ \E m \in Managers :
                \/ \E i \in Invites : ReadInvite(m, i)
                \/ ConnectRevoke(m) \/ RevokeInvite(m) \/ AuditRevoke(m)
           \/ Tick \/ UNCHANGED vars
  BY <1>5 DEF CreateInvite, ReadInvite, ConnectRevoke, RevokeInvite, AuditRevoke,
              OnlyInvites, Tick, vars, logVars
<1> QED BY <1>1, <1>2, <1>3, <1>4, <1>5 DEF Next, RedeemActs, SignInActs

(* The user a row of the log admitted. *)
AdmittedRow(l) == users[OrgOf[l.invite]][Canon[AddressOf[signIns[l.by].id]]]

LEMMA AdmittedKept ==
  ASSUME TypeInv, DraftShape, [Next]_vars, NEW l, l.by \in SignIns, l.invite \in Invites,
         signIns[l.by].pc # "idle", AdmittedRow(l) # None
  PROVE  AdmittedRow(l)' # None /\ signIns'[l.by].pc # "idle"
<1> DEFINE o == OrgOf[l.invite]
           x == Canon[AddressOf[signIns[l.by].id]]
<1>1. signIns'[l.by].id = signIns[l.by].id /\ signIns'[l.by].pc # "idle"
  BY IdKept
<1>2. o \in Orgs /\ x \in Addresses /\ users[o][x] # None
  BY TablesAssumption DEF TypeInv, SignInShape, AdmittedRow
<1>3. users'[o][x] # None
  BY <1>2, UsersGrow
<1> QED BY <1>1, <1>3 DEF AdmittedRow

LEMMA KeyInvStep == KeyInv /\ [Next]_vars => KeyInv'
<1> SUFFICES ASSUME KeyInv, [Next]_vars PROVE KeyInv'
  OBVIOUS
<1> USE DEF KeyInv
<1>0. TypeInv' /\ DraftShape'
  BY TypeInvStep, DraftShapeStep
<1>1. \A k \in machines : users'[k.org][k.addr] # None
  <2>1. \A k \in machines : k.org \in Orgs /\ k.addr \in Addresses
    BY DEF TypeInv, TypeOK
  <2> QED BY <2>1, UsersGrow DEF KeyIffAccepted
<1>2. \A l \in redemptionLog : l.outcome = "accepted-sso-auto" =>
        /\ l.by \in SignIns /\ l.invite \in Invites /\ signIns'[l.by].pc # "idle"
        /\ AdmittedRow(l)' # None
  BY AdmittedKept DEF SsoRows, AcceptedLogHasUser, AdmittedRow
<1>3. ASSUME UNCHANGED machines, NEW l, l.outcome \notin {"accepted", "accepted-sso-auto"},
             redemptionLog' = redemptionLog \/ redemptionLog' = redemptionLog \cup {l}
      PROVE  KeyInv'
  <2>1. {k \in redemptionLog' : k.outcome = "accepted"}
          = {k \in redemptionLog : k.outcome = "accepted"}
    BY <1>3
  <2>2. KeyIffAccepted'
    BY <1>1, <1>3, <2>1 DEF KeyIffAccepted
  <2>3. SsoRows' /\ AcceptedLogHasUser'
    BY <1>2, <1>3 DEF SsoRows, AcceptedLogHasUser, AdmittedRow
  <2> QED BY <1>0, <2>2, <2>3
<1>4. ASSUME UNCHANGED <<machines, redemptionLog>> PROVE KeyInv'
  <2>1. KeyIffAccepted'
    BY <1>1, <1>4 DEF KeyIffAccepted
  <2>2. SsoRows' /\ AcceptedLogHasUser'
    BY <1>2, <1>4 DEF SsoRows, AcceptedLogHasUser, AdmittedRow
  <2> QED BY <1>0, <2>1, <2>2
<1>5. ASSUME NEW r \in Redeems, CommitRedeem(r) PROVE KeyInv'
  <2> DEFINE i == redeems[r].invite
             l == [by |-> r, invite |-> i, outcome |-> "accepted"]
             A(log) == {k.by : k \in {x \in log : x.outcome = "accepted"}}
  <2>1. /\ machines' = machines \cup {KeyOf(r)}
        /\ redemptionLog' = redemptionLog \cup {l}
        /\ redeems[r].pc = "commit"
    BY <1>5 DEF CommitRedeem
  <2>2. OrgOf[i] \in Orgs /\ RedeemAddress(r) \in Addresses
    BY <2>1, RowNames
  <2>3. users'[OrgOf[i]][RedeemAddress(r)] # None
    <3>1. CASE redeems[r].draft = None
      <4>1. users[OrgOf[i]][RedeemAddress(r)] # None
        BY <2>1, <3>1 DEF DraftShape
      <4> QED BY <2>2, <4>1, UsersGrow
    <3>2. CASE redeems[r].draft # None
      <4>1. users' = [users EXCEPT ![OrgOf[i]][RedeemAddress(r)] = redeems[r].draft]
        BY <1>5, <3>2 DEF CommitRedeem, SetUser
      <4> QED BY <2>2, <3>2, <4>1 DEF TypeInv, TypeOK
    <3> QED BY <3>1, <3>2
  <2>4. KeyOf(r).key = r /\ KeyOf(r).org = OrgOf[i] /\ KeyOf(r).addr = RedeemAddress(r)
    BY DEF KeyOf
  <2>5. {k.key : k \in machines'} = {k.key : k \in machines} \cup {r}
    BY <2>1, <2>4
  <2>6. A(redemptionLog') = A(redemptionLog) \cup {r}
    <3>1. l.by = r /\ l.outcome = "accepted"
      OBVIOUS
    <3>2. {x \in redemptionLog' : x.outcome = "accepted"}
            = {x \in redemptionLog : x.outcome = "accepted"} \cup {l}
      BY <2>1, <3>1
    <3> HIDE DEF l
    <3> QED BY <3>1, <3>2
  <2>7. KeyIffAccepted'
    <3>1. {k.key : k \in machines} = A(redemptionLog)
      BY DEF KeyIffAccepted
    <3>2. {k.key : k \in machines'} = A(redemptionLog')
      BY <2>5, <2>6, <3>1
    <3>3. \A k \in machines' : users'[k.org][k.addr] # None
      BY <1>1, <2>1, <2>3, <2>4
    <3> QED BY <3>2, <3>3 DEF KeyIffAccepted
  <2>8. SsoRows' /\ AcceptedLogHasUser'
    BY <1>2, <2>1 DEF SsoRows, AcceptedLogHasUser, AdmittedRow
  <2> QED BY <1>0, <2>7, <2>8
<1>6. ASSUME NEW b \in SignIns, CommitProvision(b) PROVE KeyInv'
  <2> DEFINE i == signIns[b].invite
  <2>0. PICK l : l = LogRow(b, "accepted-sso-auto")
    OBVIOUS
  <2>1. /\ machines' = machines /\ redemptionLog' = redemptionLog \cup {l}
        /\ signIns[b].pc = "commit"
    BY <1>6, <2>0 DEF CommitProvision
  <2>2. l.by = b /\ l.invite = i /\ l.outcome = "accepted-sso-auto" /\ i \in Invites
    BY <2>0, <2>1 DEF LogRow, TypeInv, SignInShape
  <2>3. OrgOf[i] \in Orgs /\ Canon[SignInAddress(b)] \in Addresses
    BY <2>1, RowNames
  <2>4. users'[OrgOf[i]][Canon[SignInAddress(b)]] # None
    <3>1. /\ signIns[b].draft \in UserRows
          /\ users' = [users EXCEPT ![OrgOf[i]][Canon[SignInAddress(b)]] = signIns[b].draft]
      BY <1>6, WrittenRows
    <3> QED BY <2>3, <3>1, NamesAssumption DEF TypeInv, TypeOK
  <2>5. signIns'[b].id = signIns[b].id /\ signIns'[b].pc # "idle"
    BY <2>1, IdKept
  <2>6. AdmittedRow(l)' # None
    BY <2>2, <2>4, <2>5 DEF AdmittedRow, SignInAddress
  <2>7. {k \in redemptionLog' : k.outcome = "accepted"}
          = {k \in redemptionLog : k.outcome = "accepted"}
    BY <2>1, <2>2
  <2>8. KeyIffAccepted'
    BY <1>1, <2>1, <2>7 DEF KeyIffAccepted
  <2>9. SsoRows' /\ AcceptedLogHasUser'
    BY <1>2, <2>1, <2>2, <2>5, <2>6 DEF SsoRows, AcceptedLogHasUser, AdmittedRow
  <2> QED BY <1>0, <2>8, <2>9
<1> QED BY <1>3, <1>4, <1>5, <1>6, LogWriters

LEMMA DraftShapeInit == Init => DraftShape
BY DEF Init, DraftShape, IdleRedeem, IdleSignIn

LEMMA KeyInvInit == Init => KeyInv
<1> SUFFICES ASSUME Init PROVE KeyInv
  OBVIOUS
<1>1. redemptionLog = {} /\ machines = {}
  BY DEF Init
<1> QED BY <1>1, TypeInvInit, DraftShapeInit
        DEF KeyInv, SsoRows, KeyIffAccepted, AcceptedLogHasUser

(* redeem.ts:43: there is an accepted row for every key and a key for every  *)
(* accepted row, whatever fails, and the key has its user.                  *)
THEOREM KeyIffAcceptedAlways == Spec => []KeyIffAccepted
<1>1. KeyInv => KeyIffAccepted
  BY DEF KeyInv
<1> QED BY <1>1, KeyInvInit, KeyInvStep, PTL DEF Spec

(* An "accepted-sso-auto" row of the redemption log has its user, whatever   *)
(* races for the row of users or fails.                                     *)
THEOREM AcceptedLogHasUserAlways == Spec => []AcceptedLogHasUser
<1>1. KeyInv => AcceptedLogHasUser
  BY DEF KeyInv
<1> QED BY <1>1, KeyInvInit, KeyInvStep, PTL DEF Spec

-----------------------------------------------------------------------------
(* One user per identity, in each org.                                       *)

Bound(o, a, d) == users[o][a] # None /\ users[o][a].sso = d

RedeemOrg(r) == OrgOf[redeems[r].invite]
SignInOrg(b) == OrgOf[signIns[b].invite]

(* The index on the SSO identity: no two rows of an org have the same. *)
OneRowPerIdentity ==
  \A o \in Orgs, d \in Identities : \A x, y \in Addresses :
    Bound(o, x, d) /\ Bound(o, y, d) => x = y

(* The draft of a sign-in is the only row of its org with its identity. *)
SignInDrafts ==
  /\ \A b \in SignIns : signIns[b].draft # None =>
       /\ signIns[b].draft.sso = signIns[b].id
       /\ \A x \in Addresses : ~Bound(SignInOrg(b), x, signIns[b].id)
  /\ \A b, e \in SignIns :
       /\ signIns[b].draft # None /\ signIns[e].draft # None
       /\ SignInOrg(b) = SignInOrg(e) /\ signIns[b].id = signIns[e].id
       => b = e

(* The draft of a redeem has the identity of the row it replaces, or none,   *)
(* and no other transaction has written that row.                           *)
RedeemDrafts ==
  /\ \A r \in Redeems : redeems[r].draft # None =>
       \/ redeems[r].draft.sso = None
       \/ Bound(RedeemOrg(r), RedeemAddress(r), redeems[r].draft.sso)
  /\ \A q, r \in Redeems :
       /\ redeems[q].draft # None /\ redeems[r].draft # None
       /\ RedeemOrg(q) = RedeemOrg(r) /\ RedeemAddress(q) = RedeemAddress(r)
       => q = r
  /\ \A r \in Redeems, b \in SignIns :
       ~ /\ redeems[r].draft # None /\ signIns[b].draft # None
         /\ RedeemOrg(r) = SignInOrg(b) /\ RedeemAddress(r) = Canon[SignInAddress(b)]

IdentityInv ==
  TypeInv /\ DraftShape /\ OneRowPerIdentity /\ SignInDrafts /\ RedeemDrafts

(* No binding of an org appears, and those of the drafts stay: what a write  *)
(* to users has to respect.                                                 *)
LEMMA WriteKeeps ==
  ASSUME IdentityInv, [Next]_vars, UNCHANGED redeems,
         NEW b \in SignIns, signIns'[b].draft = None,
         \A e \in SignIns \ {b} : signIns'[e] = signIns[e],
         NEW d \in Identities,
         \* a row that becomes bound becomes bound to d, where it is the only one
         \A o \in Orgs, x \in Addresses, f \in Identities :
           Bound(o, x, f)' => Bound(o, x, f) \/ f = d,
         \A o \in Orgs, x, y \in Addresses :
           Bound(o, x, d)' /\ ~Bound(o, x, d) /\ Bound(o, y, d)' => x = y,
         \A o \in Orgs, x \in Addresses, e \in SignIns \ {b} :
           Bound(o, x, d)' /\ ~Bound(o, x, d) =>
             ~(signIns[e].draft # None /\ SignInOrg(e) = o /\ signIns[e].id = d),
         \* a row that a redeem has drafted is left alone
         \A r \in Redeems : redeems[r].draft # None =>
           users'[RedeemOrg(r)][RedeemAddress(r)] = users[RedeemOrg(r)][RedeemAddress(r)]
  PROVE  IdentityInv'
<1> USE DEF IdentityInv
<1>0. TypeInv' /\ DraftShape'
  BY TypeInvStep, DraftShapeStep
<1>1. \A e \in SignIns \ {b} : SignInOrg(e)' = SignInOrg(e) /\ SignInAddress(e)' = SignInAddress(e)
  BY DEF SignInOrg, SignInAddress
<1>2. OneRowPerIdentity'
  <2> SUFFICES ASSUME NEW o \in Orgs, NEW f \in Identities, NEW x \in Addresses, NEW y \in Addresses,
                      Bound(o, x, f)', Bound(o, y, f)'
               PROVE  x = y
    BY DEF OneRowPerIdentity
  <2>1. CASE Bound(o, x, f) /\ Bound(o, y, f)
    BY <2>1 DEF OneRowPerIdentity
  <2>2. CASE ~Bound(o, x, f) \/ ~Bound(o, y, f)
    <3>1. f = d
      BY <2>2
    <3> QED BY <2>2, <3>1
  <2> QED BY <2>1, <2>2
<1>3. SignInDrafts'
  <2>1. ASSUME NEW e \in SignIns, signIns'[e].draft # None
        PROVE  /\ e # b /\ signIns[e].draft # None
               /\ signIns'[e].draft.sso = signIns'[e].id
               /\ \A x \in Addresses : ~Bound(SignInOrg(e), x, signIns[e].id)'
    <3>1. e # b /\ signIns'[e] = signIns[e] /\ SignInOrg(e)' = SignInOrg(e)
      BY <1>1, <2>1
    <3>2. /\ signIns[e].draft.sso = signIns[e].id
          /\ \A x \in Addresses : ~Bound(SignInOrg(e), x, signIns[e].id)
      BY <2>1, <3>1 DEF SignInDrafts
    <3>3. SignInOrg(e) \in Orgs /\ signIns[e].id \in Identities
      BY <2>1, <3>1, RowNames DEF DraftShape, SignInOrg, TypeInv, SignInShape
    <3>4. ASSUME NEW x \in Addresses PROVE ~Bound(SignInOrg(e), x, signIns[e].id)'
      <4>1. PICK o \in Orgs, f \in Identities : o = SignInOrg(e) /\ f = signIns[e].id
        BY <3>3
      <4>2. ~Bound(o, x, f)
        BY <3>2, <4>1
      <4>3. ~Bound(o, x, f)'
        BY <2>1, <3>1, <4>1, <4>2
      <4> QED BY <3>1, <4>1, <4>3 DEF Bound
    <3> QED BY <2>1, <3>1, <3>2, <3>4
  <2>2. \A e, g \in SignIns :
          /\ signIns'[e].draft # None /\ signIns'[g].draft # None
          /\ SignInOrg(e)' = SignInOrg(g)' /\ signIns'[e].id = signIns'[g].id
          => e = g
    BY <1>1, <2>1 DEF SignInDrafts
  <2> QED BY <2>1, <2>2 DEF SignInDrafts
<1>4. RedeemDrafts'
  <2>1. \A r \in Redeems : RedeemOrg(r)' = RedeemOrg(r) /\ RedeemAddress(r)' = RedeemAddress(r)
    BY DEF RedeemOrg, RedeemAddress
  <2>2. \A r \in Redeems : redeems[r].draft # None =>
          \/ redeems[r].draft.sso = None
          \/ Bound(RedeemOrg(r), RedeemAddress(r), redeems[r].draft.sso)'
    BY <2>1 DEF RedeemDrafts, Bound
  <2> QED BY <1>1, <2>1, <2>2 DEF RedeemDrafts
<1> QED BY <1>0, <1>2, <1>3, <1>4

(* A redeem that commits publishes a row whose identity was there already.   *)
LEMMA CommitRedeemIdentity ==
  ASSUME IdentityInv, [Next]_vars, NEW r \in Redeems, CommitRedeem(r)
  PROVE  IdentityInv'
<1> USE DEF IdentityInv
<1> DEFINE o == RedeemOrg(r)
           a == RedeemAddress(r)
<1>0. TypeInv' /\ DraftShape'
  BY TypeInvStep, DraftShapeStep
<1>1. /\ o \in Orgs /\ a \in Addresses
      /\ \A q \in Redeems \ {r} : redeems'[q] = redeems[q]
      /\ signIns' = signIns /\ redeems'[r].draft = None
      /\ \/ redeems[r].draft = None /\ users' = users
         \/ /\ redeems[r].draft \in UserRows
            /\ users' = [users EXCEPT ![o][a] = redeems[r].draft]
  <2>1. o \in Orgs /\ a \in Addresses
    BY RowNames DEF CommitRedeem, RedeemOrg
  <2>2. (\A q \in Redeems \ {r} : redeems'[q] = redeems[q]) /\ signIns' = signIns
    BY RedeemChanges DEF RedeemStep
  <2>3. redeems'[r].draft = None
    BY DEF CommitRedeem, SetRedeem, Answered, TypeInv, TypeOK, RedeemStates
  <2> QED BY <2>1, <2>2, <2>3, WrittenRows DEF RedeemOrg
<1>2. \A p \in Orgs, x \in Addresses, d \in Identities : Bound(p, x, d)' => Bound(p, x, d)
  <2>1. ASSUME redeems[r].draft \in UserRows, users' = [users EXCEPT ![o][a] = redeems[r].draft],
               NEW p \in Orgs, NEW x \in Addresses, NEW d \in Identities, Bound(p, x, d)'
        PROVE  Bound(p, x, d)
    <3>1. CASE p = o /\ x = a
      <4>1. redeems[r].draft # None /\ redeems[r].draft.sso = d /\ d # None
        BY <1>1, <2>1, <3>1, NamesAssumption DEF Bound, TypeInv, TypeOK
      <4> QED BY <3>1, <4>1 DEF RedeemDrafts
    <3>2. CASE ~(p = o /\ x = a)
      BY <1>1, <2>1, <3>2 DEF Bound, TypeInv, TypeOK
    <3> QED BY <3>1, <3>2
  <2>2. CASE users' = users
    BY <2>2 DEF Bound
  <2> QED BY <1>1, <2>1, <2>2
<1>3. OneRowPerIdentity'
  BY <1>2 DEF OneRowPerIdentity
<1>4. SignInDrafts'
  <2>1. \A e \in SignIns : SignInOrg(e)' = SignInOrg(e)
    BY <1>1 DEF SignInOrg
  <2>2. ASSUME NEW e \in SignIns, signIns[e].draft # None, NEW x \in Addresses
        PROVE  ~Bound(SignInOrg(e), x, signIns[e].id)'
    <3>1. PICK p \in Orgs, d \in Identities : p = SignInOrg(e) /\ d = signIns[e].id
      BY <2>2, RowNames DEF DraftShape, SignInOrg, TypeInv, SignInShape
    <3>2. ~Bound(p, x, d)
      BY <2>2, <3>1 DEF SignInDrafts
    <3> QED BY <1>1, <1>2, <2>1, <3>1, <3>2 DEF Bound
  <2> QED BY <1>1, <2>1, <2>2 DEF SignInDrafts
<1>5. RedeemDrafts'
  <2>1. \A q \in Redeems \ {r} : RedeemOrg(q)' = RedeemOrg(q) /\ RedeemAddress(q)' = RedeemAddress(q)
    BY <1>1 DEF RedeemOrg, RedeemAddress
  <2>2. \A b \in SignIns : SignInOrg(b)' = SignInOrg(b) /\ SignInAddress(b)' = SignInAddress(b)
    BY <1>1 DEF SignInOrg, SignInAddress
  <2>3. ASSUME NEW q \in Redeems \ {r}, redeems[q].draft # None, redeems[q].draft.sso # None
        PROVE  Bound(RedeemOrg(q), RedeemAddress(q), redeems[q].draft.sso)'
    <3>1. Bound(RedeemOrg(q), RedeemAddress(q), redeems[q].draft.sso)
      BY <2>3 DEF RedeemDrafts
    <3>2. RedeemOrg(q) \in Orgs /\ RedeemAddress(q) \in Addresses
      BY <2>3, RowNames DEF DraftShape, RedeemOrg
    <3>3. redeems[r].draft # None => ~(RedeemOrg(q) = o /\ RedeemAddress(q) = a)
      BY <2>3 DEF RedeemDrafts
    <3>4. users'[RedeemOrg(q)][RedeemAddress(q)] = users[RedeemOrg(q)][RedeemAddress(q)]
      BY <1>1, <3>2, <3>3, NamesAssumption DEF TypeInv, TypeOK
    <3> QED BY <1>1, <2>1, <3>1, <3>4 DEF Bound
  <2>4. \A q \in Redeems : redeems'[q].draft # None =>
          /\ q # r /\ redeems[q].draft = redeems'[q].draft
          /\ \/ redeems'[q].draft.sso = None
             \/ Bound(RedeemOrg(q), RedeemAddress(q), redeems[q].draft.sso)'
    BY <1>1, <2>3
  <2>5. \A q \in Redeems : redeems'[q].draft # None =>
          \/ redeems'[q].draft.sso = None
          \/ Bound(RedeemOrg(q), RedeemAddress(q), redeems[q].draft.sso)'
    BY <2>4
  <2> QED BY <1>1, <2>1, <2>2, <2>4, <2>5 DEF RedeemDrafts
<1> QED BY <1>0, <1>3, <1>4, <1>5

(* A redeem that does not commit writes no row, and drafts none that         *)
(* another transaction has drafted.                                         *)
LEMMA RedeemIdentity ==
  ASSUME IdentityInv, [Next]_vars, NEW r \in Redeems, RedeemActs(r), UNCHANGED users
  PROVE  IdentityInv'
<1> USE DEF IdentityInv
<1>0. TypeInv' /\ DraftShape'
  BY TypeInvStep, DraftShapeStep
<1>1. (\A q \in Redeems \ {r} : redeems'[q] = redeems[q]) /\ signIns' = signIns
  BY RedeemChanges DEF RedeemActs
<1>2. \A b \in SignIns : SignInOrg(b)' = SignInOrg(b) /\ SignInAddress(b)' = SignInAddress(b)
  BY <1>1 DEF SignInOrg, SignInAddress
<1>3. OneRowPerIdentity' /\ SignInDrafts'
  <2>1. OneRowPerIdentity'
    BY DEF OneRowPerIdentity, Bound
  <2>2. SignInDrafts'
    BY <1>1 DEF SignInDrafts, Bound, SignInOrg
  <2> QED BY <2>1, <2>2
<1>4. \A q \in Redeems \ {r} : RedeemOrg(q)' = RedeemOrg(q) /\ RedeemAddress(q)' = RedeemAddress(q)
  BY <1>1 DEF RedeemOrg, RedeemAddress
<1>5. CASE redeems'[r].draft = None
  BY <1>0, <1>1, <1>2, <1>3, <1>4, <1>5 DEF RedeemDrafts, Bound
<1>6. CASE redeems'[r].draft # None
  <2>1. /\ RedeemOrg(r)' = RedeemOrg(r) /\ RedeemAddress(r)' = RedeemAddress(r)
        /\ \/ UpsertUser(r) /\ RedeemRow(r, redeems'[r].draft)
           \/ MintKey(r) /\ redeems'[r].draft = redeems[r].draft
    BY <1>6, RedeemDraft DEF RedeemOrg, RedeemAddress
  <2>2. CASE redeems'[r].draft = redeems[r].draft
    BY <1>0, <1>1, <1>2, <1>3, <1>4, <2>1, <2>2 DEF RedeemDrafts, Bound
  <2>3. CASE RedeemRow(r, redeems'[r].draft)
    <3>1. ~RowHeld(RedeemOrg(r), RedeemAddress(r))
      BY <1>6, <2>3 DEF RedeemRow, RedeemOrg
    <3>2. /\ \A q \in Redeems : redeems[q].draft # None
               => ~(RedeemOrg(q) = RedeemOrg(r) /\ RedeemAddress(q) = RedeemAddress(r))
          /\ \A b \in SignIns : signIns[b].draft # None
               => ~(SignInOrg(b) = RedeemOrg(r) /\ Canon[SignInAddress(b)] = RedeemAddress(r))
      BY <3>1 DEF RowHeld, RedeemOrg, SignInOrg
    <3>3. \/ redeems'[r].draft.sso = None
          \/ Bound(RedeemOrg(r), RedeemAddress(r), redeems[r].draft.sso)'
      BY <1>6, <2>1, <2>3 DEF RedeemRow, RedeemOrg, Bound
    <3>4. \A q \in Redeems : redeems'[q].draft # None =>
            \/ redeems'[q].draft.sso = None
            \/ Bound(RedeemOrg(q), RedeemAddress(q), redeems[q].draft.sso)'
      BY <1>1, <1>4, <3>3 DEF RedeemDrafts, Bound
    <3>5. \A q, s \in Redeems :
            /\ redeems'[q].draft # None /\ redeems'[s].draft # None
            /\ RedeemOrg(q)' = RedeemOrg(s)' /\ RedeemAddress(q)' = RedeemAddress(s)'
            => q = s
      BY <1>1, <1>4, <2>1, <3>2 DEF RedeemDrafts
    <3>6. \A q \in Redeems, b \in SignIns :
            ~ /\ redeems'[q].draft # None /\ signIns'[b].draft # None
              /\ RedeemOrg(q)' = SignInOrg(b)' /\ RedeemAddress(q)' = Canon[SignInAddress(b)']
      BY <1>1, <1>2, <1>4, <2>1, <3>2 DEF RedeemDrafts
    <3> QED BY <1>0, <1>3, <3>4, <3>5, <3>6 DEF RedeemDrafts
  <2> QED BY <2>1, <2>2, <2>3
<1> QED BY <1>5, <1>6

(* A sign-in that writes no row: its INSERT drafts one when the indexes and  *)
(* the rows of the other transactions allow.                                *)
LEMMA SignInIdentity ==
  ASSUME IdentityInv, [Next]_vars, NEW b \in SignIns, SignInActs(b), UNCHANGED users
  PROVE  IdentityInv'
<1> USE DEF IdentityInv
<1>0. TypeInv' /\ DraftShape'
  BY TypeInvStep, DraftShapeStep
<1>1. (\A e \in SignIns \ {b} : signIns'[e] = signIns[e]) /\ redeems' = redeems
  BY SignInChanges DEF SignInActs
<1>2. \A r \in Redeems : RedeemOrg(r)' = RedeemOrg(r) /\ RedeemAddress(r)' = RedeemAddress(r)
  BY <1>1 DEF RedeemOrg, RedeemAddress
<1>3. \A e \in SignIns \ {b} : SignInOrg(e)' = SignInOrg(e) /\ SignInAddress(e)' = SignInAddress(e)
  BY <1>1 DEF SignInOrg, SignInAddress
<1>4. OneRowPerIdentity'
  BY DEF OneRowPerIdentity, Bound
<1>5. \A r \in Redeems : redeems'[r].draft # None =>
        \/ redeems'[r].draft.sso = None
        \/ Bound(RedeemOrg(r), RedeemAddress(r), redeems[r].draft.sso)'
  BY <1>1, <1>2 DEF RedeemDrafts, Bound
<1>6. ASSUME NEW e \in SignIns \ {b}, signIns[e].draft # None, NEW x \in Addresses
      PROVE  ~Bound(SignInOrg(e), x, signIns[e].id)'
  BY <1>1, <1>3, <1>6 DEF SignInDrafts, Bound
<1>7. CASE signIns'[b].draft = None
  <2>1. SignInDrafts'
    BY <1>1, <1>3, <1>6, <1>7 DEF SignInDrafts
  <2>2. RedeemDrafts'
    BY <1>1, <1>2, <1>3, <1>5, <1>7 DEF RedeemDrafts
  <2> QED BY <1>0, <1>4, <2>1, <2>2
<1>8. CASE signIns'[b].draft # None
  <2>1. /\ signIns'[b].id = signIns[b].id
        /\ SignInOrg(b)' = SignInOrg(b) /\ SignInAddress(b)' = SignInAddress(b)
        /\ \/ /\ InsertUser(b)
              /\ ~Taken(OrgOf[signIns[b].invite], Canon[SignInAddress(b)], signIns[b].id)
              /\ signIns'[b].draft.sso = signIns[b].id
           \/ WriteAcceptedEvent(b) /\ signIns'[b].draft = signIns[b].draft
    BY <1>8, SignInDraft DEF SignInOrg, SignInAddress, InsertUser, WriteAcceptedEvent
  <2>2. CASE signIns'[b].draft = signIns[b].draft
    <3>1. \A x \in Addresses : ~Bound(SignInOrg(b), x, signIns[b].id)'
      BY <1>8, <2>1, <2>2 DEF SignInDrafts, Bound
    <3>2. SignInDrafts'
      BY <1>1, <1>3, <1>6, <1>8, <2>1, <2>2, <3>1 DEF SignInDrafts
    <3>3. RedeemDrafts'
      BY <1>1, <1>2, <1>3, <1>5, <1>8, <2>1, <2>2 DEF RedeemDrafts
    <3> QED BY <1>0, <1>4, <3>2, <3>3
  <2>3. CASE /\ InsertUser(b) /\ signIns'[b].draft.sso = signIns[b].id
             /\ ~Taken(OrgOf[signIns[b].invite], Canon[SignInAddress(b)], signIns[b].id)
    <3>1. /\ ~RowHeld(SignInOrg(b), Canon[SignInAddress(b)])
          /\ ~SsoHeld(SignInOrg(b), signIns[b].id)
      BY <2>3 DEF InsertUser, SignInOrg
    <3>2. \A e \in SignIns : signIns[e].draft # None
            => ~(SignInOrg(e) = SignInOrg(b) /\ signIns[e].id = signIns[b].id)
      BY <3>1 DEF SsoHeld, SignInOrg
    <3>3. \A r \in Redeems : redeems[r].draft # None
            => ~(RedeemOrg(r) = SignInOrg(b) /\ RedeemAddress(r) = Canon[SignInAddress(b)])
      BY <3>1 DEF RowHeld, RedeemOrg
    <3>4. \A x \in Addresses : ~Bound(SignInOrg(b), x, signIns[b].id)'
      BY <2>1, <2>3 DEF Taken, Bound, SignInOrg
    <3>5. SignInDrafts'
      BY <1>1, <1>3, <1>6, <2>1, <2>3, <3>2, <3>4 DEF SignInDrafts
    <3>6. RedeemDrafts'
      BY <1>1, <1>2, <1>3, <1>5, <2>1, <3>3 DEF RedeemDrafts
    <3> QED BY <1>0, <1>4, <3>5, <3>6
  <2> QED BY <2>1, <2>2, <2>3
<1> QED BY <1>7, <1>8

(* A sign-in that writes users writes its identity into rows of an org that  *)
(* has no other row of it, and that no transaction is about to write.       *)
LEMMA WriterIdentity ==
  ASSUME IdentityInv, [Next]_vars, NEW b \in SignIns, users' # users,
         FillSso(b) \/ BootstrapInsert(b) \/ CommitProvision(b)
  PROVE  IdentityInv'
<1> USE DEF IdentityInv
<1>0. SignInActs(b)
  BY DEF SignInActs, SignInStep
<1>1. /\ \A e \in SignIns \ {b} : signIns'[e] = signIns[e]
      /\ redeems' = redeems
  BY <1>0, SignInChanges DEF SignInActs
<1>2. signIns'[b].draft = None
  BY <1>0, SignInDraft DEF InsertUser, WriteAcceptedEvent, OnlySignIns
<1>3. signIns[b].pc # "idle"
  BY DEF FillSso, BootstrapInsert, CommitProvision
<1>4. PICK d \in Identities, a \in Addresses : d = signIns[b].id /\ a = SignInAddress(b)
  BY <1>3, RowNames DEF TypeInv, SignInShape
<1>5. /\ users \in [Orgs -> [Addresses -> UserRows \cup {None}]]
      /\ None \notin UserRows
  BY NamesAssumption DEF TypeInv, TypeOK
<1>6. \A r \in Redeems : redeems[r].draft # None =>
        RedeemOrg(r) \in Orgs /\ RedeemAddress(r) \in Addresses
  BY RowNames DEF DraftShape, RedeemOrg
<1>7. CASE FillSso(b)
  <2>1. \A o \in Orgs, x \in Addresses :
          users'[o][x] = IF x = a /\ users[o][x] # None
                           THEN [users[o][x] EXCEPT !.sso = d] ELSE users[o][x]
    BY <1>4, <1>7, WrittenRows
  <2>2. \A o \in Orgs : users[o][a] # None => ~RowHeld(o, a) /\ ~SsoHeld(o, d)
    BY <1>4, <1>7 DEF FillSso, OrgsOf
  <2>3. \A o \in Orgs, x \in Addresses \ {a} :
          users[o][a] # None => ~Bound(o, x, d)
    BY <1>4, <1>7 DEF FillSso, OrgsOf, BoundTo, Bound
  <2>4. \A o \in Orgs, x \in Addresses : users[o][x] # None =>
          [users[o][x] EXCEPT !.sso = d].sso = d
    BY <1>5 DEF UserRows
  <2>5. \A o \in Orgs, x \in Addresses, f \in Identities :
          Bound(o, x, f)' => Bound(o, x, f) \/ f = d
    BY <2>1, <2>4 DEF Bound
  <2>6. \A o \in Orgs, x \in Addresses :
          Bound(o, x, d)' /\ ~Bound(o, x, d) => x = a /\ users[o][a] # None
    BY <2>1 DEF Bound
  <2>7. \A o \in Orgs, x, y \in Addresses :
          Bound(o, x, d)' /\ ~Bound(o, x, d) /\ Bound(o, y, d)' => x = y
    BY <2>1, <2>3, <2>6 DEF Bound
  <2>8. \A o \in Orgs, x \in Addresses, e \in SignIns \ {b} :
          Bound(o, x, d)' /\ ~Bound(o, x, d) =>
            ~(signIns[e].draft # None /\ SignInOrg(e) = o /\ signIns[e].id = d)
    BY <2>2, <2>6 DEF SsoHeld, SignInOrg
  <2>9. \A r \in Redeems : redeems[r].draft # None =>
          users'[RedeemOrg(r)][RedeemAddress(r)] = users[RedeemOrg(r)][RedeemAddress(r)]
    <3>1. \A r \in Redeems : redeems[r].draft # None => RowHeld(RedeemOrg(r), RedeemAddress(r))
      BY DEF RowHeld, RedeemOrg
    <3> QED BY <1>6, <2>1, <2>2, <3>1
  <2> QED BY <1>1, <1>2, <2>5, <2>7, <2>8, <2>9, WriteKeeps
<1>8. ASSUME NEW o \in Orgs, NEW x \in Addresses, NEW row,
             row.sso = d, users' = [users EXCEPT ![o][x] = row],
             \A y \in Addresses : ~Bound(o, y, d),
             \A e \in SignIns \ {b} :
               ~(signIns[e].draft # None /\ SignInOrg(e) = o /\ signIns[e].id = d),
             \A r \in Redeems :
               ~(redeems[r].draft # None /\ RedeemOrg(r) = o /\ RedeemAddress(r) = x)
      PROVE  IdentityInv'
  <2>1. \A p \in Orgs, y \in Addresses :
          users'[p][y] = IF p = o /\ y = x THEN row ELSE users[p][y]
    BY <1>5, <1>8
  <2>2. \A p \in Orgs, y \in Addresses, f \in Identities :
          Bound(p, y, f)' => Bound(p, y, f) \/ f = d
    BY <1>8, <2>1 DEF Bound
  <2>3. \A p \in Orgs, y \in Addresses :
          Bound(p, y, d)' /\ ~Bound(p, y, d) => p = o /\ y = x
    BY <2>1 DEF Bound
  <2>4. \A p \in Orgs, y, z \in Addresses :
          Bound(p, y, d)' /\ ~Bound(p, y, d) /\ Bound(p, z, d)' => y = z
    BY <1>8, <2>3
  <2>5. \A p \in Orgs, y \in Addresses, e \in SignIns \ {b} :
          Bound(p, y, d)' /\ ~Bound(p, y, d) =>
            ~(signIns[e].draft # None /\ SignInOrg(e) = p /\ signIns[e].id = d)
    BY <1>8, <2>3
  <2>6. \A r \in Redeems : redeems[r].draft # None =>
          users'[RedeemOrg(r)][RedeemAddress(r)] = users[RedeemOrg(r)][RedeemAddress(r)]
    BY <1>6, <1>8, <2>1
  <2> QED BY <1>1, <1>2, <2>2, <2>4, <2>5, <2>6, WriteKeeps
<1>9. CASE BootstrapInsert(b)
  <2>1. PICK o \in Orgs :
          /\ ~RowHeld(o, a) /\ ~SsoHeld(o, d) /\ ~Taken(o, a, d)
          /\ users' = [users EXCEPT ![o][a] = [sso |-> d, team |-> None]]
    BY <1>4, <1>9, WrittenRows
  <2>2. \A y \in Addresses : ~Bound(o, y, d)
    BY <2>1 DEF Taken, Bound
  <2>3. \A e \in SignIns \ {b} :
          ~(signIns[e].draft # None /\ SignInOrg(e) = o /\ signIns[e].id = d)
    BY <2>1 DEF SsoHeld, SignInOrg
  <2>4. \A r \in Redeems :
          ~(redeems[r].draft # None /\ RedeemOrg(r) = o /\ RedeemAddress(r) = a)
    BY <2>1 DEF RowHeld, RedeemOrg
  <2>5. PICK row : row = [sso |-> d, team |-> None]
    OBVIOUS
  <2>6. row.sso = d
    BY <2>5
  <2>7. users' = [users EXCEPT ![o][a] = row]
    BY <2>1, <2>5
  <2> HIDE DEF IdentityInv
  <2> QED BY <1>8, <2>2, <2>3, <2>4, <2>6, <2>7
<1>10. CASE CommitProvision(b)
  <2>1. /\ signIns[b].draft \in UserRows
        /\ users' = [users EXCEPT ![SignInOrg(b)][Canon[a]] = signIns[b].draft]
    BY <1>4, <1>10, WrittenRows DEF SignInOrg
  <2>2. SignInOrg(b) \in Orgs /\ Canon[a] \in Addresses
    BY <1>4, <1>10, RowNames DEF CommitProvision, SignInOrg
  <2>3. signIns[b].draft # None
    BY <1>5, <2>1
  <2>4. signIns[b].draft.sso = d /\ \A y \in Addresses : ~Bound(SignInOrg(b), y, d)
    BY <1>4, <2>3 DEF SignInDrafts
  <2>5. \A e \in SignIns \ {b} :
          ~(signIns[e].draft # None /\ SignInOrg(e) = SignInOrg(b) /\ signIns[e].id = d)
    BY <1>4, <2>3 DEF SignInDrafts
  <2>6. \A r \in Redeems :
          ~(redeems[r].draft # None /\ RedeemOrg(r) = SignInOrg(b) /\ RedeemAddress(r) = Canon[a])
    BY <1>4, <2>3 DEF RedeemDrafts
  <2>7. PICK o \in Orgs, x \in Addresses : o = SignInOrg(b) /\ x = Canon[a]
    BY <2>2
  <2> QED BY <1>8, <2>1, <2>4, <2>5, <2>6, <2>7
<1> QED BY <1>7, <1>9, <1>10

LEMMA IdentityInvStep == IdentityInv /\ [Next]_vars => IdentityInv'
<1> SUFFICES ASSUME IdentityInv, [Next]_vars PROVE IdentityInv'
  OBVIOUS
<1>1. CASE users' # users
  BY <1>1, UserWriters, CommitRedeemIdentity, WriterIdentity
<1>2. CASE users' = users
  <2>1. ASSUME NEW r \in Redeems, RedeemActs(r) PROVE IdentityInv'
    BY <1>2, <2>1, RedeemIdentity
  <2>2. ASSUME NEW b \in SignIns, SignInActs(b) PROVE IdentityInv'
    BY <1>2, <2>2, SignInIdentity
  <2>3. CASE UNCHANGED <<redeems, signIns>>
    <3>1. TypeInv' /\ DraftShape'
      BY TypeInvStep, DraftShapeStep DEF IdentityInv
    <3>2. OneRowPerIdentity' /\ SignInDrafts' /\ RedeemDrafts'
      BY <1>2, <2>3 DEF IdentityInv, OneRowPerIdentity, SignInDrafts, RedeemDrafts, Bound,
                        SignInOrg, SignInAddress, RedeemOrg, RedeemAddress
    <3> QED BY <3>1, <3>2 DEF IdentityInv
  <2>4. CASE \/ \E i \in Invites : CreateInvite(i)
             \/ \E m \in Managers :
                  \/ \E i \in Invites : ReadInvite(m, i)
                  \/ ConnectRevoke(m) \/ RevokeInvite(m) \/ AuditRevoke(m)
             \/ Tick \/ UNCHANGED vars
    BY <2>3, <2>4 DEF CreateInvite, ReadInvite, ConnectRevoke, RevokeInvite, AuditRevoke,
                      OnlyInvites, Tick, vars
  <2> QED BY <2>1, <2>2, <2>4 DEF Next, RedeemActs, SignInActs
<1> QED BY <1>1, <1>2

LEMMA IdentityInvInit == Init => IdentityInv
<1> SUFFICES ASSUME Init PROVE IdentityInv
  OBVIOUS
<1>1. TypeInv /\ DraftShape
  BY TypeInvInit, DraftShapeInit
<1>2. /\ \A o \in Orgs, x \in Addresses : users[o][x] = None
      /\ \A r \in Redeems : redeems[r].draft = None
      /\ \A b \in SignIns : signIns[b].draft = None
  BY DEF Init, IdleRedeem, IdleSignIn
<1> QED BY <1>1, <1>2 DEF IdentityInv, OneRowPerIdentity, SignInDrafts, RedeemDrafts, Bound

(* In an org no two rows of users carry one SSO identity, however many orgs  *)
(* there are and whoever inserts, fills in or publishes a row meanwhile.    *)
THEOREM OneRowPerIdentityAlways == Spec => []OneRowPerIdentity
<1>1. IdentityInv => OneRowPerIdentity
  BY DEF IdentityInv
<1> QED BY <1>1, IdentityInvInit, IdentityInvStep, PTL DEF Spec

(* auth.ts:201, where it holds: on a server with one org, which is what the  *)
(* bootstrap of BootstrapInsert is for, at most one row carries an identity. *)
THEOREM OneUserPerIdentityAlways ==
  ASSUME NEW o, Orgs = {o}
  PROVE  Spec => []OneUserPerIdentity
<1>1. IdentityInv => OneUserPerIdentity
  <2> SUFFICES ASSUME IdentityInv, NEW d \in Identities PROVE Cardinality(BoundTo(d)) <= 1
    BY DEF OneUserPerIdentity
  <2>1. \A k, l \in BoundTo(d) : k = l
    BY DEF BoundTo, Bound, IdentityInv, OneRowPerIdentity
  <2>2. CASE BoundTo(d) = {}
    BY <2>2, FS_EmptySet
  <2>3. CASE BoundTo(d) # {}
    <3>1. PICK k : BoundTo(d) = {k}
      BY <2>1, <2>3
    <3> QED BY <3>1, FS_Singleton
  <2> QED BY <2>2, <2>3
<1> QED BY <1>1, IdentityInvInit, IdentityInvStep, PTL DEF Spec

-----------------------------------------------------------------------------
(* Onboarding implements the ledger.                                        *)

(* What a call in its transaction was admitted by: the invite exists, and    *)
(* its pattern and its providers permit the caller.                         *)
Admitted ==
  /\ \A r \in Redeems : RedeemInTx(r) =>
       /\ invites[redeems[r].invite].created
       /\ redeems[r].addr \in Pattern[redeems[r].invite]
  /\ \A b \in SignIns :
       signIns[b].pc \in {"existing", "provision", "insert", "event", "commit"} =>
         /\ invites[signIns[b].invite].created
         /\ Canon[SignInAddress(b)] \in Pattern[signIns[b].invite]
         /\ Permitted(signIns[b].invite, signIns[b].id)
  /\ \A m \in Managers : revokes[m].pc # "idle" => invites[revokes[m].invite].created

(* What a draft will do to its row: a redeem leaves the identity of the row   *)
(* as it is, and the row of a sign-in is still absent.                      *)
RowDrafts ==
  /\ \A r \in Redeems : redeems[r].draft # None =>
       LET row == users[RedeemOrg(r)][RedeemAddress(r)] IN
       redeems[r].draft.sso = IF row = None THEN None ELSE row.sso
  /\ \A b \in SignIns : signIns[b].draft # None =>
       users[SignInOrg(b)][Canon[SignInAddress(b)]] = None
  /\ \A b, e \in SignIns :
       /\ signIns[b].draft # None /\ signIns[e].draft # None
       /\ SignInOrg(b) = SignInOrg(e)
       /\ Canon[SignInAddress(b)] = Canon[SignInAddress(e)]
       => b = e

LedgerInv == CountInv /\ IdentityInv /\ Admitted /\ RowDrafts

(* Which steps write the table of invites. *)
LEMMA InviteWriters ==
  ASSUME TypeInv, [Next]_vars
  PROVE  \/ invites' = invites
         \/ \E r \in Redeems : CommitRedeem(r)
         \/ \E b \in SignIns : CommitProvision(b)
         \/ \E i \in Invites : CreateInvite(i)
         \/ \E m \in Managers : RevokeInvite(m)
<1>1. ASSUME NEW r \in Redeems, RedeemActs(r) PROVE invites' = invites \/ CommitRedeem(r)
  BY <1>1, RedeemChanges DEF RedeemActs
<1>2. ASSUME NEW b \in SignIns, SignInActs(b) PROVE invites' = invites \/ CommitProvision(b)
  BY <1>2, SignInChanges DEF SignInActs
<1>3. CASE \/ \E m \in Managers :
                (\E i \in Invites : ReadInvite(m, i)) \/ ConnectRevoke(m) \/ AuditRevoke(m)
           \/ Tick \/ UNCHANGED vars
  BY <1>3 DEF ReadInvite, ConnectRevoke, AuditRevoke, Tick, vars
<1> QED BY <1>1, <1>2, <1>3 DEF Next, RedeemActs, SignInActs

(* What the writers leave of an invite. *)
LEMMA WrittenInvites ==
  ASSUME TypeInv, NEW i \in Invites
  PROVE  /\ \A r \in Redeems : CommitRedeem(r) =>
              /\ invites'[i].created = invites[i].created
              /\ invites'[i].revoked = invites[i].revoked
         /\ \A b \in SignIns : CommitProvision(b) =>
              /\ invites'[i].created = invites[i].created
              /\ invites'[i].revoked = invites[i].revoked
         /\ \A j \in Invites : CreateInvite(j) =>
              /\ invites'[i].created = (i = j \/ invites[i].created)
              /\ invites'[i].revoked = invites[i].revoked
         /\ \A m \in Managers : RevokeInvite(m) =>
              /\ invites'[i].created = invites[i].created
              /\ invites'[i].revoked = (i = revokes[m].invite \/ invites[i].revoked)
<1> USE DEF TypeInv, TypeOK, InviteStates
<1>1. \A r \in Redeems : CommitRedeem(r) =>
        /\ invites'[i].created = invites[i].created
        /\ invites'[i].revoked = invites[i].revoked
  BY DEF CommitRedeem
<1>2. \A b \in SignIns : CommitProvision(b) =>
        /\ invites'[i].created = invites[i].created
        /\ invites'[i].revoked = invites[i].revoked
  BY DEF CommitProvision
<1>3. \A j \in Invites : CreateInvite(j) =>
        /\ invites'[i].created = (i = j \/ invites[i].created)
        /\ invites'[i].revoked = invites[i].revoked
  <2> SUFFICES ASSUME NEW j \in Invites, CreateInvite(j)
               PROVE  /\ invites'[i].created = (i = j \/ invites[i].created)
                      /\ invites'[i].revoked = invites[i].revoked
    OBVIOUS
  <2>1. invites' = [invites EXCEPT ![j] = [invites[j] EXCEPT !.created = TRUE]]
    BY DEF CreateInvite
  <2>2. CASE i = j
    BY <2>1, <2>2
  <2>3. CASE i # j
    BY <2>1, <2>3
  <2> QED BY <2>2, <2>3
<1>4. \A m \in Managers : RevokeInvite(m) =>
        /\ invites'[i].created = invites[i].created
        /\ invites'[i].revoked = (i = revokes[m].invite \/ invites[i].revoked)
  <2> SUFFICES ASSUME NEW m \in Managers, RevokeInvite(m)
               PROVE  /\ invites'[i].created = invites[i].created
                      /\ invites'[i].revoked = (i = revokes[m].invite \/ invites[i].revoked)
    OBVIOUS
  <2>1. PICK j \in Invites : j = revokes[m].invite
    BY DEF RevokeInvite, RevokeShape
  <2>2. invites' = [invites EXCEPT ![j] = [invites[j] EXCEPT !.revoked = TRUE]]
    BY <2>1 DEF RevokeInvite
  <2>3. CASE i = j
    BY <2>1, <2>2, <2>3
  <2>4. CASE i # j
    BY <2>1, <2>2, <2>4
  <2> QED BY <2>3, <2>4
<1> QED BY <1>1, <1>2, <1>3, <1>4

(* No invite disappears. *)
LEMMA CreatedStays ==
  ASSUME TypeInv, [Next]_vars, NEW i \in Invites, invites[i].created
  PROVE  invites'[i].created
BY InviteWriters, WrittenInvites

(* A sign-in comes to an invite through MatchInvite alone, and keeps it. *)
LEMMA SignInAdmission ==
  ASSUME TypeInv, DraftShape, NEW b \in SignIns, SignInActs(b),
         signIns'[b].pc \in {"existing", "provision", "insert", "event", "commit"}
  PROVE  /\ signIns'[b].id = signIns[b].id
         /\ \/ /\ signIns[b].pc \in {"existing", "provision", "insert", "event", "commit"}
               /\ signIns'[b].invite = signIns[b].invite
            \/ /\ signIns'[b].invite \in ActiveMatches(Canon[SignInAddress(b)])
               /\ Permitted(signIns'[b].invite, signIns[b].id)
<1> USE DEF TypeInv, TypeOK, SetSignIn
<1> DEFINE c == signIns[b]
           Open == {"existing", "provision", "insert", "event", "commit"}
<1>0. c \in SignInStates
  OBVIOUS
<1>1. \A k, i : Ended(c, k).pc = "done" /\ Rejected(c, k, i).pc = "audit"
  BY <1>0 DEF Ended, Rejected, SignInStates
<1>e. ASSUME NEW k, End(b, k) PROVE FALSE
  BY <1>1, <1>e DEF End
<1>r. ASSUME NEW k, NEW i, Reject(b, k, i) PROVE FALSE
  BY <1>1, <1>r DEF Reject
<1>g. ASSUME NEW k, Go(b, k)
      PROVE  signIns'[b].pc = k /\ signIns'[b].id = c.id /\ signIns'[b].invite = c.invite
  BY <1>0, <1>g DEF Go, SignInStates
<1>2. CASE \E d \in Identities : LoadUserBySsoIdentity(b, d)
  <2>1. PICK d \in Identities : LoadUserBySsoIdentity(b, d)
    BY <1>2
  <2> DEFINE m == [c EXCEPT !.pc = "email", !.id = d]
             k == IF Cardinality(BoundTo(d)) = 1 THEN "allow" ELSE "error"
             n == [c EXCEPT !.pc = "done", !.id = d, !.outcome = k]
  <2>2. m.pc = "email" /\ n.pc = "done"
    BY <1>0 DEF SignInStates
  <2>3. signIns' = [signIns EXCEPT ![b] = m] \/ signIns' = [signIns EXCEPT ![b] = n]
    BY <2>1 DEF LoadUserBySsoIdentity
  <2> HIDE DEF m, n, k
  <2> QED BY <2>2, <2>3
<1>3. CASE Connect(b)
  BY <1>0, <1>3 DEF Connect, SignInStates
<1>4. CASE EvaluateSignIn(b) \/ FillSso(b) \/ FindInvites(b) \/ BootstrapInsert(b)
  <2>1. \/ \E k : End(b, k)
        \/ Go(b, "bootstrap") \/ Go(b, "fill") \/ Go(b, "evaluate") \/ Go(b, "single-org")
    BY <1>4 DEF EvaluateSignIn, FillSso, FindInvites, BootstrapInsert
  <2> QED BY <1>e, <1>g, <2>1
<1>5. CASE MatchInvite(b)
  <2>1. \/ \E k, i : Reject(b, k, i)
        \/ \E i \in ActiveMatches(Canon[SignInAddress(b)]) :
             Permitted(i, c.id) /\ SetSignIn(b, [c EXCEPT !.pc = "existing", !.invite = i])
    BY <1>5 DEF MatchInvite
  <2>2. ASSUME NEW i \in ActiveMatches(Canon[SignInAddress(b)]), Permitted(i, c.id),
               SetSignIn(b, [c EXCEPT !.pc = "existing", !.invite = i])
        PROVE  /\ signIns'[b].id = c.id /\ signIns'[b].invite = i
    BY <1>0, <2>2 DEF SignInStates
  <2> QED BY <1>r, <2>1, <2>2
<1>6. CASE \/ FindPreExistingUser(b) \/ LockInvite(b) \/ WriteAcceptedEvent(b)
           \/ AuditRejection(b) \/ LogSsoRejection(b)
  <2>1. \/ \E k, i : Reject(b, k, i)
        \/ c.pc \in Open /\ \E k \in Open : Go(b, k)
        \/ Go(b, "log") \/ Go(b, "done")
    BY <1>6 DEF FindPreExistingUser, LockInvite, WriteAcceptedEvent, AuditRejection,
                LogSsoRejection
  <2> QED BY <1>g, <1>r, <2>1
<1>7. CASE InsertUser(b)
  <2>1. \/ End(b, "error")
        \/ \E row : SetSignIn(b, [c EXCEPT !.pc = "event", !.draft = row])
    BY <1>7 DEF InsertUser
  <2>2. ASSUME NEW row, SetSignIn(b, [c EXCEPT !.pc = "event", !.draft = row])
        PROVE  signIns'[b].id = c.id /\ signIns'[b].invite = c.invite
    BY <1>0, <2>2 DEF SignInStates
  <2> QED BY <1>7, <1>e, <2>1, <2>2 DEF InsertUser
<1>8. CASE CommitProvision(b) \/ AbortSignIn(b) \/ AuditFailure(b)
  BY <1>8, <1>e DEF CommitProvision, AbortSignIn, AuditFailure
<1> QED BY <1>2, <1>3, <1>4, <1>5, <1>6, <1>7, <1>8 DEF SignInActs, SignInStep

LEMMA AdmittedStep ==
  ASSUME TypeInv, DraftShape, Admitted, [Next]_vars
  PROVE  Admitted'
<1> DEFINE Open == {"existing", "provision", "insert", "event", "commit"}
           RedeemOf(r) == RedeemInTx(r) =>
             /\ invites[redeems[r].invite].created
             /\ redeems[r].addr \in Pattern[redeems[r].invite]
           SignInOf(b) == signIns[b].pc \in Open =>
             /\ invites[signIns[b].invite].created
             /\ Canon[SignInAddress(b)] \in Pattern[signIns[b].invite]
             /\ Permitted(signIns[b].invite, signIns[b].id)
           RevokeOf(m) == revokes[m].pc # "idle" => invites[revokes[m].invite].created
<1>1. ASSUME NEW r \in Redeems, redeems'[r] = redeems[r] PROVE RedeemOf(r)'
  <2>1. RedeemInTx(r) => redeems[r].invite \in Invites
    BY DEF TypeInv, RedeemShape, RedeemInTx
  <2> QED BY <1>1, <2>1, CreatedStays DEF Admitted, RedeemInTx
<1>2. ASSUME NEW b \in SignIns, signIns'[b] = signIns[b] PROVE SignInOf(b)'
  <2>1. signIns[b].pc \in Open => signIns[b].invite \in Invites
    BY DEF TypeInv, SignInShape
  <2> QED BY <1>2, <2>1, CreatedStays DEF Admitted, SignInAddress, Permitted
<1>3. ASSUME NEW m \in Managers, revokes'[m] = revokes[m] PROVE RevokeOf(m)'
  <2>1. revokes[m].pc # "idle" => revokes[m].invite \in Invites
    BY DEF TypeInv, RevokeShape
  <2> QED BY <1>3, <2>1, CreatedStays DEF Admitted
<1>4. ASSUME NEW r \in Redeems, RedeemActs(r) PROVE Admitted'
  <2>1. /\ \A q \in Redeems \ {r} : redeems'[q] = redeems[q]
        /\ signIns' = signIns
    BY <1>4, RedeemChanges DEF RedeemActs
  <2>2. revokes' = revokes
    BY <1>4 DEF RedeemActs, RedeemStep, BeginRedeem, LookupInvite, SelectUser, UpsertUser,
                MintKey, CommitRedeem, LogRejection, KeyCollision, AbortRedeem
  <2>3. RedeemOf(r)'
    <3> SUFFICES ASSUME RedeemInTx(r)'
                 PROVE  /\ invites'[redeems'[r].invite].created
                        /\ redeems'[r].addr \in Pattern[redeems'[r].invite]
      OBVIOUS
    <3>1. /\ redeems'[r].invite = redeems[r].invite
          /\ redeems'[r].addr = redeems[r].addr
          /\ \/ RedeemInTx(r)
             \/ LookupInvite(r) /\ Classify(redeems[r].invite, redeems[r].addr) = "ok"
      BY <1>4, RedeemChanges DEF RedeemActs
    <3>2. redeems[r].invite \in Invites
      BY <3>1 DEF RedeemInTx, LookupInvite, TypeInv, RedeemShape
    <3>3. CASE RedeemInTx(r)
      BY <3>1, <3>2, <3>3, CreatedStays DEF Admitted
    <3>4. CASE Classify(redeems[r].invite, redeems[r].addr) = "ok"
      BY <3>1, <3>2, <3>4, CreatedStays DEF Classify
    <3> QED BY <3>1, <3>3, <3>4
  <2> QED BY <1>1, <1>2, <1>3, <2>1, <2>2, <2>3 DEF Admitted
<1>5. ASSUME NEW b \in SignIns, SignInActs(b) PROVE Admitted'
  <2>1. /\ \A e \in SignIns \ {b} : signIns'[e] = signIns[e]
        /\ redeems' = redeems
    BY <1>5, SignInChanges DEF SignInActs
  <2>2. revokes' = revokes
    BY <1>5 DEF SignInActs, SignInStep, LoadUserBySsoIdentity, Connect, EvaluateSignIn,
                FillSso, FindInvites, BootstrapInsert, MatchInvite, FindPreExistingUser,
                LockInvite, InsertUser, WriteAcceptedEvent, CommitProvision, AuditRejection,
                LogSsoRejection, AbortSignIn, AuditFailure, OnlySignIns
  <2>3. SignInOf(b)'
    <3> SUFFICES ASSUME signIns'[b].pc \in Open
                 PROVE  /\ invites'[signIns'[b].invite].created
                        /\ Canon[SignInAddress(b)'] \in Pattern[signIns'[b].invite]
                        /\ Permitted(signIns'[b].invite, signIns'[b].id)
      BY DEF Permitted
    <3>1. /\ signIns'[b].id = signIns[b].id /\ SignInAddress(b)' = SignInAddress(b)
          /\ \/ signIns[b].pc \in Open /\ signIns'[b].invite = signIns[b].invite
             \/ /\ signIns'[b].invite \in ActiveMatches(Canon[SignInAddress(b)])
                /\ Permitted(signIns'[b].invite, signIns[b].id)
      BY <1>5, SignInAdmission DEF SignInAddress
    <3>2. CASE signIns[b].pc \in Open /\ signIns'[b].invite = signIns[b].invite
      <4>1. signIns[b].invite \in Invites
        BY <3>2 DEF TypeInv, SignInShape
      <4> QED BY <3>1, <3>2, <4>1, CreatedStays DEF Admitted
    <3>3. CASE /\ signIns'[b].invite \in ActiveMatches(Canon[SignInAddress(b)])
               /\ Permitted(signIns'[b].invite, signIns[b].id)
      BY <3>1, <3>3, CreatedStays DEF ActiveMatches
    <3> QED BY <3>1, <3>2, <3>3
  <2> QED BY <1>1, <1>2, <1>3, <2>1, <2>2, <2>3 DEF Admitted
<1>6. ASSUME UNCHANGED <<redeems, signIns>>, \A m \in Managers : RevokeOf(m)'
      PROVE  Admitted'
  BY <1>1, <1>2, <1>6 DEF Admitted
<1>7. ASSUME NEW m \in Managers, NEW i \in Invites, ReadInvite(m, i) PROVE Admitted'
  <2>1. /\ UNCHANGED <<redeems, signIns, invites>> /\ invites[i].created
        /\ \A n \in Managers \ {m} : revokes'[n] = revokes[n]
        /\ revokes'[m].invite = i
    BY <1>7, IdleType DEF ReadInvite, OnlyInvites, RevokeStates, TypeInv, TypeOK
  <2> QED BY <1>3, <1>6, <2>1
<1>8. ASSUME NEW m \in Managers, ConnectRevoke(m) \/ RevokeInvite(m) \/ AuditRevoke(m)
      PROVE  Admitted'
  <2>1. /\ UNCHANGED <<redeems, signIns>>
        /\ \A n \in Managers \ {m} : revokes'[n] = revokes[n]
        /\ revokes'[m].invite = revokes[m].invite /\ revokes[m].pc # "idle"
    BY <1>8 DEF ConnectRevoke, RevokeInvite, AuditRevoke, OnlyInvites, RevokeStates,
                TypeInv, TypeOK
  <2>2. revokes[m].invite \in Invites /\ invites[revokes[m].invite].created
    BY <2>1 DEF Admitted, TypeInv, RevokeShape
  <2> QED BY <1>3, <1>6, <2>1, <2>2, CreatedStays
<1>9. CASE (\E i \in Invites : CreateInvite(i)) \/ Tick \/ UNCHANGED vars
  BY <1>3, <1>6, <1>9 DEF CreateInvite, OnlyInvites, Tick, vars
<1> QED BY <1>4, <1>5, <1>7, <1>8, <1>9 DEF Next, RedeemActs, SignInActs

(* A row that a transaction has drafted is its own until it ends. *)
LEMMA DraftedRowKept ==
  ASSUME IdentityInv, RowDrafts, [Next]_vars, NEW o \in Orgs, NEW x \in Addresses,
         \/ \E r \in Redeems : /\ redeems[r].draft # None /\ redeems'[r].draft # None
                               /\ RedeemOrg(r) = o /\ RedeemAddress(r) = x
         \/ \E b \in SignIns : /\ signIns[b].draft # None /\ signIns'[b].draft # None
                               /\ SignInOrg(b) = o /\ Canon[SignInAddress(b)] = x
  PROVE  users'[o][x] = users[o][x]
<1> USE DEF IdentityInv
<1>0. /\ users \in [Orgs -> [Addresses -> UserRows \cup {None}]]
      /\ None \notin UserRows
  BY NamesAssumption DEF TypeInv, TypeOK
<1>1. RowHeld(o, x)
  BY DEF RowHeld, RedeemOrg, SignInOrg
<1>2. ASSUME NEW q \in Redeems, CommitRedeem(q) PROVE users'[o][x] = users[o][x]
  <2>1. redeems'[q].draft = None /\ signIns' = signIns
    BY <1>2 DEF CommitRedeem, SetRedeem, Answered, TypeInv, TypeOK, RedeemStates
  <2>2. CASE users' = users
    BY <2>2
  <2>3. CASE /\ redeems[q].draft \in UserRows
             /\ users' = [users EXCEPT ![RedeemOrg(q)][RedeemAddress(q)] = redeems[q].draft]
    <3>1. ~(RedeemOrg(q) = o /\ RedeemAddress(q) = x)
      BY <1>0, <2>1, <2>3 DEF RedeemDrafts
    <3>2. RedeemOrg(q) \in Orgs /\ RedeemAddress(q) \in Addresses
      BY <1>2, RowNames DEF CommitRedeem, RedeemOrg
    <3> QED BY <1>0, <2>3, <3>1, <3>2
  <2> QED BY <1>2, <2>2, <2>3, WrittenRows DEF RedeemOrg
<1>3. ASSUME NEW e \in SignIns, CommitProvision(e) PROVE users'[o][x] = users[o][x]
  <2>1. signIns'[e].draft = None /\ redeems' = redeems
    BY <1>3 DEF CommitProvision, End, SetSignIn, Ended, TypeInv, TypeOK, SignInStates
  <2>2. /\ signIns[e].draft \in UserRows
        /\ users' = [users EXCEPT ![SignInOrg(e)][Canon[SignInAddress(e)]] = signIns[e].draft]
    BY <1>3, WrittenRows DEF SignInOrg
  <2>3. SignInOrg(e) \in Orgs /\ Canon[SignInAddress(e)] \in Addresses
    BY <1>3, RowNames DEF CommitProvision, SignInOrg
  <2>4. ~(SignInOrg(e) = o /\ Canon[SignInAddress(e)] = x)
    BY <1>0, <2>1, <2>2 DEF RedeemDrafts, RowDrafts
  <2> QED BY <1>0, <2>2, <2>3, <2>4
<1>4. ASSUME NEW e \in SignIns, FillSso(e) PROVE users'[o][x] = users[o][x]
  <2>1. x = SignInAddress(e) => users[o][x] = None
    BY <1>1, <1>4 DEF FillSso, OrgsOf
  <2>2. \/ users' = users
        \/ \A p \in Orgs, y \in Addresses :
             users'[p][y] = IF y = SignInAddress(e) /\ users[p][y] # None
                              THEN [users[p][y] EXCEPT !.sso = signIns[e].id]
                              ELSE users[p][y]
    BY <1>4, WrittenRows
  <2> QED BY <2>1, <2>2
<1>5. ASSUME NEW e \in SignIns, BootstrapInsert(e) PROVE users'[o][x] = users[o][x]
  <2>1. CASE users' = users
    BY <2>1
  <2>2. ASSUME NEW p \in Orgs, ~RowHeld(p, SignInAddress(e)),
               users' = [users EXCEPT ![p][SignInAddress(e)]
                                        = [sso |-> signIns[e].id, team |-> None]]
        PROVE  users'[o][x] = users[o][x]
    <3>1. ~(p = o /\ SignInAddress(e) = x)
      BY <1>1, <2>2
    <3>2. SignInAddress(e) \in Addresses
      BY <1>5, RowNames DEF BootstrapInsert
    <3> QED BY <1>0, <2>2, <3>1, <3>2
  <2> QED BY <1>5, <2>1, <2>2, WrittenRows
<1> QED BY <1>2, <1>3, <1>4, <1>5, UserWriters

LEMMA RowDraftsStep ==
  ASSUME IdentityInv, RowDrafts, [Next]_vars
  PROVE  RowDrafts'
<1> USE DEF IdentityInv
<1> DEFINE RedeemRowOf(r) == users[RedeemOrg(r)][RedeemAddress(r)]
           SignInRowOf(b) == users[SignInOrg(b)][Canon[SignInAddress(b)]]
           Leaves(r) == redeems[r].draft # None =>
             redeems[r].draft.sso = IF RedeemRowOf(r) = None THEN None ELSE RedeemRowOf(r).sso
           Absent(b) == signIns[b].draft # None => SignInRowOf(b) = None
           SameRow(b, e) == SignInOrg(b) = SignInOrg(e)
             /\ Canon[SignInAddress(b)] = Canon[SignInAddress(e)]
           Apart(b, e) ==
             signIns[b].draft # None /\ signIns[e].draft # None /\ SameRow(b, e) => b = e
<1>0. /\ \A r \in Redeems : Leaves(r)
      /\ \A b \in SignIns : Absent(b)
      /\ \A b, e \in SignIns : Apart(b, e)
  BY DEF RowDrafts
<1>00. ASSUME /\ \A r \in Redeems : Leaves(r)'
              /\ \A b \in SignIns : Absent(b)'
              /\ \A b, e \in SignIns : Apart(b, e)'
       PROVE  RowDrafts'
  BY <1>00 DEF RowDrafts
<1>1. ASSUME NEW r \in Redeems, redeems'[r].draft = redeems[r].draft,
             RedeemOrg(r)' = RedeemOrg(r), RedeemAddress(r)' = RedeemAddress(r)
      PROVE  Leaves(r)'
  <2>1. CASE redeems[r].draft = None
    BY <1>1, <2>1
  <2>2. CASE redeems[r].draft # None
    <3>1. RedeemOrg(r) \in Orgs /\ RedeemAddress(r) \in Addresses
      BY <2>2, RowNames DEF DraftShape, RedeemOrg
    <3>2. RedeemRowOf(r)' = RedeemRowOf(r)
      BY <1>1, <2>2, <3>1, DraftedRowKept
    <3> QED BY <1>0, <1>1, <3>2
  <2> QED BY <2>1, <2>2
<1>2. ASSUME NEW b \in SignIns, signIns'[b].draft = signIns[b].draft,
             SignInOrg(b)' = SignInOrg(b), SignInAddress(b)' = SignInAddress(b)
      PROVE  Absent(b)'
  <2>1. CASE signIns[b].draft = None
    BY <1>2, <2>1
  <2>2. CASE signIns[b].draft # None
    <3>1. SignInOrg(b) \in Orgs /\ Canon[SignInAddress(b)] \in Addresses
      BY <2>2, RowNames DEF DraftShape, SignInOrg
    <3>2. SignInRowOf(b)' = SignInRowOf(b)
      BY <1>2, <2>2, <3>1, DraftedRowKept
    <3> QED BY <1>0, <1>2, <3>2
  <2> QED BY <2>1, <2>2
<1>3. ASSUME NEW r \in Redeems, redeems'[r] = redeems[r] PROVE Leaves(r)'
  BY <1>1, <1>3 DEF RedeemOrg, RedeemAddress
<1>4. ASSUME NEW b \in SignIns, signIns'[b] = signIns[b]
      PROVE  Absent(b)' /\ SignInOrg(b)' = SignInOrg(b) /\ SignInAddress(b)' = SignInAddress(b)
  BY <1>2, <1>4 DEF SignInOrg, SignInAddress
<1>a. ASSUME NEW b \in SignIns, NEW e \in SignIns,
             signIns'[b].draft = signIns[b].draft, signIns'[e].draft = signIns[e].draft,
             SignInOrg(b)' = SignInOrg(b), SignInAddress(b)' = SignInAddress(b),
             SignInOrg(e)' = SignInOrg(e), SignInAddress(e)' = SignInAddress(e)
      PROVE  Apart(b, e)'
  BY <1>0, <1>a
<1>5. ASSUME NEW r \in Redeems, RedeemActs(r) PROVE RowDrafts'
  <2>1. /\ \A q \in Redeems \ {r} : redeems'[q] = redeems[q]
        /\ signIns' = signIns
    BY <1>5, RedeemChanges DEF RedeemActs
  <2>2. Leaves(r)'
    <3>1. CASE redeems'[r].draft = None
      BY <3>1
    <3>2. CASE redeems'[r].draft # None
      <4>1. /\ RedeemOrg(r)' = RedeemOrg(r) /\ RedeemAddress(r)' = RedeemAddress(r)
            /\ \/ UpsertUser(r) /\ RedeemRow(r, redeems'[r].draft)
               \/ MintKey(r) /\ redeems'[r].draft = redeems[r].draft
        BY <1>5, <3>2, RedeemDraft DEF RedeemOrg, RedeemAddress
      <4>2. CASE redeems'[r].draft = redeems[r].draft
        BY <1>1, <4>1, <4>2
      <4>3. CASE UpsertUser(r) /\ RedeemRow(r, redeems'[r].draft)
        <5>1. redeems'[r].draft.sso = IF RedeemRowOf(r) = None THEN None ELSE RedeemRowOf(r).sso
          BY <3>2, <4>3 DEF RedeemRow, RedeemOrg
        <5>2. RedeemRowOf(r)' = RedeemRowOf(r)
          BY <4>1, <4>3 DEF UpsertUser
        <5> QED BY <5>1, <5>2
      <4> QED BY <4>1, <4>2, <4>3
    <3> QED BY <3>1, <3>2
  <2> HIDE DEF Leaves, Absent, Apart
  <2>3. \A b, e \in SignIns : Apart(b, e)'
    BY <1>4, <1>a, <2>1
  <2> QED BY <1>00, <1>3, <1>4, <2>1, <2>2, <2>3
<1>6. ASSUME NEW b \in SignIns, SignInActs(b) PROVE RowDrafts'
  <2>1. /\ \A e \in SignIns \ {b} : signIns'[e] = signIns[e]
        /\ redeems' = redeems
    BY <1>6, SignInChanges DEF SignInActs
  <2>2. CASE signIns'[b].draft = None
    <3>1. ASSUME NEW e \in SignIns, NEW f \in SignIns PROVE Apart(e, f)'
      <4>1. CASE e = b \/ f = b
        BY <2>2, <4>1
      <4> HIDE DEF Leaves, Absent, Apart
      <4>2. CASE e # b /\ f # b
        BY <1>4, <1>a, <2>1, <4>2
      <4> QED BY <4>1, <4>2
    <3>2. Absent(b)'
      BY <2>2
    <3> HIDE DEF Leaves, Absent, Apart
    <3> QED BY <1>00, <1>3, <1>4, <2>1, <3>1, <3>2
  <2>3. CASE signIns'[b].draft # None
    <3>1. /\ SignInOrg(b)' = SignInOrg(b) /\ SignInAddress(b)' = SignInAddress(b)
          /\ \/ /\ InsertUser(b)
                /\ ~Taken(SignInOrg(b), Canon[SignInAddress(b)], signIns[b].id)
             \/ WriteAcceptedEvent(b) /\ signIns'[b].draft = signIns[b].draft
      BY <1>6, <2>3, SignInDraft DEF SignInOrg, SignInAddress, InsertUser, WriteAcceptedEvent
    <3>2. CASE signIns'[b].draft = signIns[b].draft
      <4>1. Absent(b)'
        BY <1>2, <3>1, <3>2
      <4> HIDE DEF Leaves, Absent, Apart
      <4>2. \A e, f \in SignIns : Apart(e, f)'
        BY <1>4, <1>a, <2>1, <3>1, <3>2
      <4> QED BY <1>00, <1>3, <1>4, <2>1, <4>1, <4>2
    <3>3. CASE InsertUser(b) /\ ~Taken(SignInOrg(b), Canon[SignInAddress(b)], signIns[b].id)
      <4>1. Absent(b)'
        BY <3>1, <3>3 DEF Taken, InsertUser, OnlySignIns
      <4>2. \A e \in SignIns \ {b} : ~(signIns[e].draft # None /\ SameRow(e, b))
        BY <3>3 DEF InsertUser, RowHeld, SignInOrg
      <4>3. \A e \in SignIns \ {b} : ~(signIns'[e].draft # None /\ SameRow(e, b)')
        BY <1>4, <2>1, <3>1, <4>2
      <4>4. ASSUME NEW e \in SignIns, NEW f \in SignIns PROVE Apart(e, f)'
        <5>1. CASE e = b \/ f = b
          BY <4>3, <5>1
        <5> HIDE DEF Leaves, Absent, Apart
        <5>2. CASE e # b /\ f # b
          BY <1>4, <1>a, <2>1, <5>2
        <5> QED BY <5>1, <5>2
      <4> HIDE DEF Leaves, Absent, Apart
      <4> QED BY <1>00, <1>3, <1>4, <2>1, <4>1, <4>4
    <3> QED BY <3>1, <3>2, <3>3
  <2> QED BY <2>2, <2>3
<1>7. ASSUME UNCHANGED <<redeems, signIns>> PROVE RowDrafts'
  <2> HIDE DEF Leaves, Absent, Apart
  <2>1. \A b, e \in SignIns : Apart(b, e)'
    BY <1>4, <1>7, <1>a
  <2> QED BY <1>00, <1>3, <1>4, <1>7, <2>1
<1>8. CASE \/ \E i \in Invites : CreateInvite(i)
           \/ \E m \in Managers :
                \/ \E i \in Invites : ReadInvite(m, i)
                \/ ConnectRevoke(m) \/ RevokeInvite(m) \/ AuditRevoke(m)
           \/ Tick \/ UNCHANGED vars
  BY <1>7, <1>8 DEF CreateInvite, ReadInvite, ConnectRevoke, RevokeInvite, AuditRevoke,
                    OnlyInvites, Tick, vars
<1> QED BY <1>5, <1>6, <1>8 DEF Next, RedeemActs, SignInActs

LEMMA LedgerInvStep == LedgerInv /\ [Next]_vars => LedgerInv'
<1> SUFFICES ASSUME LedgerInv, [Next]_vars PROVE LedgerInv'
  OBVIOUS
<1>1. TypeInv /\ DraftShape
  BY DEF LedgerInv, IdentityInv
<1> QED BY <1>1, CountInvStep, IdentityInvStep, AdmittedStep, RowDraftsStep DEF LedgerInv

LEMMA LedgerInvInit == Init => LedgerInv
<1> SUFFICES ASSUME Init PROVE LedgerInv
  OBVIOUS
<1>1. CountInv /\ IdentityInv
  BY CountInvInit, IdentityInvInit
<1>2. Admitted /\ RowDrafts
  BY DEF Init, Admitted, RowDrafts, RedeemInTx, IdleRedeem, IdleSignIn, IdleRevoke
<1> QED BY <1>1, <1>2 DEF LedgerInv

(* Both modules count with the library's Cardinality. *)
LEMMA SameCardinality == \A S : Ledger!Cardinality(S) = Cardinality(S)
BY DEF Ledger!Cardinality, Cardinality

(* The calls that took a use are no more than the acceptances. *)
LEMMA UsesBounded ==
  ASSUME IsFiniteSet(redemptionLog), NEW i \in Invites
  PROVE  Cardinality(UsesOf[i]) <= Cardinality(Acceptances(i))
<1> DEFINE S == Acceptances(i)
           T == {l.by : l \in S}
           f == [l \in S |-> l.by]
<1>1. IsFiniteSet(S)
  <2>1. S \in SUBSET redemptionLog
    BY DEF Acceptances
  <2> QED BY <2>1, FS_Subset
<1>2. f \in Surjection(S, T)
  BY DEF Surjection
<1>3. UsesOf[i] = T
  BY DEF UsesOf
<1> HIDE DEF S, T, f
<1> QED BY <1>1, <1>2, <1>3, FS_Surjection DEF S

(* One acceptance more is one use more, of the call that is accepted. *)
LEMMA UseTaken ==
  ASSUME LedgerInv, NEW c, NEW i \in Invites, NEW k,
         redemptionLog' = redemptionLog \cup {k},
         k.by = c, k.invite = i, k.outcome \in {"accepted", "accepted-sso-auto"},
         \A l \in redemptionLog : l.by # c,
         invites[i].created, ~invites[i].revoked, invites[i].used < MaxUses[i],
         \A j \in Invites : /\ invites'[j].created = invites[j].created
                            /\ invites'[j].revoked = invites[j].revoked
  PROVE  Ledger!TakeUse(c, i)
<1>1. i \in Created \ Revoked
  BY DEF Created, Revoked
<1>2. Cardinality(UsesOf[i]) < MaxUses[i]
  <2>1. Cardinality(UsesOf[i]) <= Cardinality(Acceptances(i))
    BY UsesBounded DEF LedgerInv, CountInv
  <2>2. invites[i].used = Cardinality(Acceptances(i))
    BY DEF LedgerInv, CountInv, UsesAccounted
  <2>3. /\ invites[i].used \in Nat /\ MaxUses[i] \in Nat
        /\ Cardinality(UsesOf[i]) \in Nat
    <3>1. invites[i].used \in Nat /\ MaxUses[i] \in Nat
      BY NumbersAssumption DEF LedgerInv, CountInv, UseInv, TypeInv, TypeOK, InviteStates
    <3>2. IsFiniteSet(UsesOf[i])
      <4>1. UsesOf[i] = {l.by : l \in Acceptances(i)}
        BY DEF UsesOf
      <4>2. IsFiniteSet(Acceptances(i))
        <5>1. Acceptances(i) \in SUBSET redemptionLog
          BY DEF Acceptances
        <5> QED BY <5>1, FS_Subset DEF LedgerInv, CountInv
      <4>3. [l \in Acceptances(i) |-> l.by] \in Surjection(Acceptances(i), UsesOf[i])
        BY <4>1 DEF Surjection
      <4> QED BY <4>2, <4>3, FS_Surjection
    <3> QED BY <3>1, <3>2, FS_CardinalityType
  <2> QED BY <2>1, <2>2, <2>3
<1>3. \A j \in Invites : c \notin UsesOf[j]
  BY DEF UsesOf, Acceptances
<1>4. UsesOf' = [UsesOf EXCEPT ![i] = @ \cup {c}]
  <2>1. \A j \in Invites \ {i} : Acceptances(j)' = Acceptances(j)
    BY DEF Acceptances
  <2>2. Acceptances(i)' = Acceptances(i) \cup {k}
    BY DEF Acceptances
  <2>3. \A j \in Invites : UsesOf[j]' = IF j = i THEN UsesOf[j] \cup {c} ELSE UsesOf[j]
    BY <2>1, <2>2 DEF UsesOf
  <2>4. UsesOf' = [j \in Invites |-> UsesOf'[j]] /\ UsesOf = [j \in Invites |-> UsesOf[j]]
    BY DEF UsesOf
  <2> QED BY <2>3, <2>4
<1>5. Created' = Created /\ Revoked' = Revoked
  BY DEF Created, Revoked
<1> QED BY <1>1, <1>2, <1>3, <1>4, <1>5, SameCardinality DEF Ledger!TakeUse

(* A row that is put into users is an account of the ledger. *)
LEMMA RowPut ==
  ASSUME TypeInv, NEW o \in Orgs, NEW x \in Addresses, NEW row \in UserRows,
         users' = [users EXCEPT ![o][x] = row]
  PROVE  /\ Present' = Present \cup {<<o, x>>}
         /\ IdentityOf' = [k \in Present \cup {<<o, x>>} |->
                             IF k = <<o, x>> THEN row.sso ELSE IdentityOf[k]]
<1>1. \A p \in Orgs, y \in Addresses :
        users'[p][y] = IF p = o /\ y = x THEN row ELSE users[p][y]
  BY DEF TypeInv, TypeOK
<1>2. \A k \in Orgs \X Addresses :
        /\ k[1] \in Orgs /\ k[2] \in Addresses /\ k = <<k[1], k[2]>>
        /\ k = <<o, x>> <=> k[1] = o /\ k[2] = x
  OBVIOUS
<1>3. Present' = Present \cup {<<o, x>>}
  BY <1>1, <1>2, NamesAssumption DEF Present
<1>4. \A k \in Present \cup {<<o, x>>} :
        users'[k[1]][k[2]].sso = IF k = <<o, x>> THEN row.sso ELSE IdentityOf[k]
  BY <1>1, <1>2 DEF Present, IdentityOf
<1> QED BY <1>3, <1>4 DEF IdentityOf

LEMMA AccountsDomain == DOMAIN IdentityOf = Present
BY DEF IdentityOf

(* The accounts stay when no row comes, goes or changes its identity. *)
LEMMA AccountsKept ==
  ASSUME \A o \in Orgs, x \in Addresses :
           /\ users'[o][x] = None <=> users[o][x] = None
           /\ users[o][x] # None => users'[o][x].sso = users[o][x].sso
  PROVE  IdentityOf' = IdentityOf
<1>1. \A k \in Orgs \X Addresses : k[1] \in Orgs /\ k[2] \in Addresses
  OBVIOUS
<1>2. Present' = Present
  BY <1>1 DEF Present
<1>3. \A k \in Present : users'[k[1]][k[2]].sso = users[k[1]][k[2]].sso
  BY <1>1 DEF Present
<1> QED BY <1>2, <1>3 DEF IdentityOf

(* A redeem that commits is an acceptance by token. *)
LEMMA CommitRedeemAccepts ==
  ASSUME LedgerInv, NEW r \in Redeems, CommitRedeem(r)
  PROVE  Ledger!AcceptToken(r, redeems[r].invite, redeems[r].addr)
<1> DEFINE i == redeems[r].invite
           o == OrgOf[i]
           x == RedeemAddress(r)
           l == [by |-> r, invite |-> i, outcome |-> "accepted"]
<1>0. TypeInv /\ DraftShape /\ RowDrafts /\ LockInv /\ RowWhenDone
  BY DEF LedgerInv, CountInv, UseInv, IdentityInv
<1>1. redeems[r].pc = "commit" /\ RedeemInTx(r) /\ i \in Invites /\ o \in Orgs /\ x \in Addresses
  BY <1>0, RowNames DEF CommitRedeem, RedeemInTx, TypeInv, RedeemShape
<1>2. Ledger!TakeUse(r, i)
  <2>1. redemptionLog' = redemptionLog \cup {l}
    BY DEF CommitRedeem
  <2>2. l.by = r /\ l.invite = i /\ l.outcome \in {"accepted", "accepted-sso-auto"}
    OBVIOUS
  <2>3. \A k \in redemptionLog : k.by # r
    BY <1>0, <1>1 DEF RowWhenDone
  <2>4. invites[i].created /\ ~invites[i].revoked /\ invites[i].used < MaxUses[i]
    BY <1>0, <1>1 DEF LedgerInv, Admitted, LockInv
  <2>5. \A j \in Invites : /\ invites'[j].created = invites[j].created
                           /\ invites'[j].revoked = invites[j].revoked
    BY <1>0, WrittenInvites
  <2> HIDE DEF l
  <2> QED BY <1>1, <2>1, <2>2, <2>3, <2>4, <2>5, UseTaken
<1>3. redeems[r].addr \in Pattern[i]
  BY <1>1 DEF LedgerInv, Admitted
<1>4. IdentityOf' = IF <<o, x>> \in Present THEN IdentityOf ELSE Ledger!Opened(<<o, x>>, None)
  <2>1. <<o, x>> \in Present <=> users[o][x] # None
    BY <1>1 DEF Present
  <2>2. CASE redeems[r].draft = None
    <3>1. users' = users /\ users[o][x] # None
      BY <1>0, <1>1, <2>2 DEF CommitRedeem, DraftShape
    <3> QED BY <2>1, <3>1, AccountsKept
  <2>3. CASE redeems[r].draft # None
    <3>1. PICK row \in UserRows : row = redeems[r].draft
      BY <1>0, <2>3 DEF TypeInv, TypeOK, RedeemStates
    <3>2. users' = [users EXCEPT ![o][x] = row]
      BY <2>3, <3>1 DEF CommitRedeem, SetUser
    <3>3. row.sso = IF users[o][x] = None THEN None ELSE users[o][x].sso
      BY <1>0, <2>3, <3>1 DEF RowDrafts, RedeemOrg
    <3>4. CASE users[o][x] = None
      <4>1. IdentityOf' = [k \in Present \cup {<<o, x>>} |->
                             IF k = <<o, x>> THEN row.sso ELSE IdentityOf[k]]
        BY <1>0, <1>1, <3>2, RowPut
      <4> QED BY <2>1, <3>3, <3>4, <4>1, AccountsDomain DEF Ledger!Opened
    <3>5. CASE users[o][x] # None
      <4>1. \A p \in Orgs, y \in Addresses :
              users'[p][y] = IF p = o /\ y = x THEN row ELSE users[p][y]
        BY <1>0, <1>1, <3>2 DEF TypeInv, TypeOK
      <4> QED BY <2>1, <3>3, <3>5, <4>1, NamesAssumption, AccountsKept
    <3> QED BY <3>4, <3>5
  <2> QED BY <2>2, <2>3
<1>5. machines' = machines \cup {[key |-> r, org |-> o, addr |-> x]}
  BY DEF CommitRedeem, KeyOf
<1> QED BY <1>2, <1>3, <1>4, <1>5, AccountsDomain DEF Ledger!AcceptToken, RedeemAddress

(* A sign-in that commits is an acceptance by identity. *)
LEMMA CommitProvisionAccepts ==
  ASSUME LedgerInv, NEW b \in SignIns, CommitProvision(b)
  PROVE  Ledger!AcceptIdentity(b, signIns[b].invite, signIns[b].id)
<1> DEFINE i == signIns[b].invite
           d == signIns[b].id
           o == OrgOf[i]
           x == Canon[SignInAddress(b)]
<1>0. TypeInv /\ DraftShape /\ RowDrafts /\ SignInDrafts /\ LockInv /\ RowWhenDone
  BY DEF LedgerInv, CountInv, UseInv, IdentityInv
<1>1. /\ signIns[b].pc = "commit" /\ SignInInTx(b) /\ i \in Invites
      /\ o \in Orgs /\ x \in Addresses /\ d \in Identities
  BY <1>0, RowNames DEF CommitProvision, SignInInTx, TypeInv, SignInShape
<1>2. Ledger!TakeUse(b, i)
  <2>0. PICK l : l = LogRow(b, "accepted-sso-auto")
    OBVIOUS
  <2>1. redemptionLog' = redemptionLog \cup {l}
    BY <2>0 DEF CommitProvision
  <2>2. l.by = b /\ l.invite = i /\ l.outcome \in {"accepted", "accepted-sso-auto"}
    BY <2>0 DEF LogRow
  <2>3. \A k \in redemptionLog : k.by # b
    BY <1>0, <1>1 DEF RowWhenDone
  <2>4. invites[i].created /\ ~invites[i].revoked /\ invites[i].used < MaxUses[i]
    BY <1>0, <1>1 DEF LedgerInv, Admitted, LockInv
  <2>5. \A j \in Invites : /\ invites'[j].created = invites[j].created
                           /\ invites'[j].revoked = invites[j].revoked
    BY <1>0, WrittenInvites
  <2> QED BY <1>1, <2>1, <2>2, <2>3, <2>4, <2>5, UseTaken
<1>3. d \in Providers[i] /\ x \in Pattern[i]
  BY <1>1 DEF LedgerInv, Admitted, Permitted
<1>4. signIns[b].draft \in UserRows /\ signIns[b].draft # None
  BY <1>0, <1>1, NamesAssumption DEF TypeInv, SignInShape
<1>5. /\ signIns[b].draft.sso = d
      /\ \A y \in Addresses : ~Bound(o, y, d)
      /\ users[o][x] = None
  BY <1>0, <1>4 DEF SignInDrafts, RowDrafts, SignInOrg
<1>6. <<o, x>> \notin Present
  BY <1>5 DEF Present
<1>7. Ledger!FreeBut(o, d, {})
  <2>1. \A k \in Present : k[1] = o => IdentityOf[k] # d
    BY <1>5 DEF Present, IdentityOf, Bound
  <2> QED BY <2>1, AccountsDomain DEF Ledger!FreeBut
<1>8. IdentityOf' = Ledger!Opened(<<o, x>>, d)
  <2>1. PICK row \in UserRows : row = signIns[b].draft
    BY <1>4
  <2>2. users' = [users EXCEPT ![o][x] = row]
    BY <2>1 DEF CommitProvision, SetUser
  <2>3. IdentityOf' = [k \in Present \cup {<<o, x>>} |->
                         IF k = <<o, x>> THEN row.sso ELSE IdentityOf[k]]
    BY <1>0, <1>1, <2>2, RowPut
  <2> QED BY <1>5, <2>1, <2>3, AccountsDomain DEF Ledger!Opened
<1>9. machines' = machines
  BY DEF CommitProvision
<1> QED BY <1>2, <1>3, <1>6, <1>7, <1>8, <1>9, AccountsDomain
        DEF Ledger!AcceptIdentity, SignInAddress

(* The INSERT of the bootstrap opens an account, or nothing. *)
LEMMA BootstrapInsertOpens ==
  ASSUME LedgerInv, NEW b \in SignIns, BootstrapInsert(b), users' # users
  PROVE  /\ Cardinality(Orgs) = 1
         /\ \E o \in Orgs : LET k == <<o, AddressOf[signIns[b].id]>> IN
              /\ k \notin Present
              /\ Ledger!FreeBut(o, signIns[b].id, {})
              /\ IdentityOf' = Ledger!Opened(k, signIns[b].id)
<1> DEFINE d == signIns[b].id
           x == SignInAddress(b)
<1>0. TypeInv
  BY DEF LedgerInv, IdentityInv
<1>1. d \in Identities /\ x \in Addresses
  BY <1>0, RowNames DEF BootstrapInsert, TypeInv, SignInShape
<1>2. Cardinality(Orgs) = 1
  BY DEF BootstrapInsert, SingleOrg
<1>3. PICK o \in Orgs : /\ ~Taken(o, x, d)
                        /\ users' = [users EXCEPT ![o][x] = [sso |-> d, team |-> None]]
  BY <1>0, WrittenRows
<1>4. PICK row \in UserRows : row = [sso |-> d, team |-> None]
  BY <1>1 DEF UserRows
<1>5. row.sso = d
  BY <1>4
<1>6. <<o, x>> \notin Present
  BY <1>3 DEF Taken, Present
<1>7. Ledger!FreeBut(o, d, {})
  <2>1. \A k \in Present : k[1] = o => IdentityOf[k] # d
    BY <1>3 DEF Taken, Present, IdentityOf
  <2> QED BY <2>1, AccountsDomain DEF Ledger!FreeBut
<1>8. IdentityOf' = [k \in Present \cup {<<o, x>>} |->
                       IF k = <<o, x>> THEN row.sso ELSE IdentityOf[k]]
  BY <1>0, <1>1, <1>3, <1>4, RowPut
<1>9. IdentityOf' = Ledger!Opened(<<o, x>>, d)
  BY <1>5, <1>8, AccountsDomain DEF Ledger!Opened
<1> QED BY <1>2, <1>6, <1>7, <1>9 DEF SignInAddress

(* The UPDATE of the first SSO sign-in binds the accounts of the address. *)
LEMMA FillSsoBinds ==
  ASSUME LedgerInv, NEW b \in SignIns, FillSso(b), users' # users
  PROVE  LET d == signIns[b].id
             mine == {k \in Present : k[2] = AddressOf[d]}
         IN
         /\ \A k \in mine : Ledger!FreeBut(k[1], d, mine)
         /\ IdentityOf' = [k \in Present |-> IF k \in mine THEN d ELSE IdentityOf[k]]
<1> DEFINE d == signIns[b].id
           x == SignInAddress(b)
           mine == {k \in Present : k[2] = x}
<1>0. TypeInv
  BY DEF LedgerInv, IdentityInv
<1>1. d \in Identities /\ x \in Addresses
  BY <1>0, RowNames DEF FillSso, TypeInv, SignInShape
<1>2. /\ \A o \in Orgs, y \in Addresses :
           users'[o][y] = IF y = x /\ users[o][y] # None
                            THEN [users[o][y] EXCEPT !.sso = d] ELSE users[o][y]
      /\ \A o \in Orgs, y \in Addresses \ {x} : users[o][x] # None => <<o, y>> \notin BoundTo(d)
  BY <1>0, WrittenRows DEF FillSso, OrgsOf
<1>3. \A k \in Present : /\ k[1] \in Orgs /\ k[2] \in Addresses /\ k = <<k[1], k[2]>>
                         /\ users[k[1]][k[2]] \in UserRows
  BY <1>0 DEF Present, TypeInv, TypeOK
<1>4. \A o \in Orgs, y \in Addresses : users[o][y] # None =>
        users'[o][y] # None /\ users'[o][y].sso = IF y = x THEN d ELSE users[o][y].sso
  <2> SUFFICES ASSUME NEW o \in Orgs, NEW y \in Addresses, users[o][y] # None
               PROVE  users'[o][y] # None
                        /\ users'[o][y].sso = IF y = x THEN d ELSE users[o][y].sso
    OBVIOUS
  <2>1. CASE y = x
    <3>1. PICK row \in UserRows : row = users[o][y]
      BY <1>0 DEF TypeInv, TypeOK
    <3>2. [row EXCEPT !.sso = d] \in UserRows /\ [row EXCEPT !.sso = d].sso = d
      BY <1>1 DEF UserRows
    <3>3. users'[o][y] = [row EXCEPT !.sso = d]
      BY <1>2, <2>1, <3>1
    <3> QED BY <2>1, <3>2, <3>3, NamesAssumption
  <2>2. CASE y # x
    <3>1. users'[o][y] = users[o][y]
      BY <1>2, <2>2
    <3> QED BY <2>2, <3>1
  <2> QED BY <2>1, <2>2
<1>5. \A k \in mine : Ledger!FreeBut(k[1], d, mine)
  <2> SUFFICES ASSUME NEW k \in mine, NEW m \in Present \ mine, m[1] = k[1]
               PROVE  IdentityOf[m] # d
    BY AccountsDomain DEF Ledger!FreeBut
  <2>1. m[2] # x /\ users[m[1]][x] # None
    BY DEF Present
  <2>2. <<m[1], m[2]>> \notin BoundTo(d)
    BY <1>2, <1>3, <2>1
  <2>3. users[m[1]][m[2]].sso # d
    BY <1>3, <2>2 DEF BoundTo, Present
  <2> QED BY <2>3 DEF IdentityOf
<1>6. Present' = Present
  <2>1. \A k \in Orgs \X Addresses : k[1] \in Orgs /\ k[2] \in Addresses
    OBVIOUS
  <2>2. \A o \in Orgs, y \in Addresses : users'[o][y] = None <=> users[o][y] = None
    BY <1>2, <1>4
  <2> QED BY <2>1, <2>2 DEF Present
<1>7. \A k \in Present : users'[k[1]][k[2]].sso = IF k \in mine THEN d ELSE IdentityOf[k]
  BY <1>3, <1>4 DEF IdentityOf, Present
<1>8. IdentityOf' = [k \in Present |-> IF k \in mine THEN d ELSE IdentityOf[k]]
  BY <1>6, <1>7 DEF IdentityOf
<1> QED BY <1>5, <1>8 DEF SignInAddress

LEMMA UsesKept ==
  ASSUME \/ redemptionLog' = redemptionLog
         \/ \E l : /\ redemptionLog' = redemptionLog \cup {l}
                   /\ l.outcome \notin {"accepted", "accepted-sso-auto"}
  PROVE  UsesOf' = UsesOf
<1>1. \A i : Acceptances(i)' = Acceptances(i)
  BY DEF Acceptances
<1> QED BY <1>1 DEF UsesOf

(* A step of onboarding is a step of the ledger or leaves it alone. *)
LEMMA LedgerStep ==
  LedgerInv /\ [Next]_vars => [Ledger!Next]_(Ledger!ledgerVars)
<1> SUFFICES ASSUME LedgerInv, [Next]_vars
             PROVE  Ledger!Next \/ UNCHANGED Ledger!ledgerVars
  BY DEF Ledger!ledgerVars
<1>0. TypeInv /\ DraftShape
  BY DEF LedgerInv, IdentityInv
<1>1. ASSUME NEW r \in Redeems, CommitRedeem(r) PROVE Ledger!Next
  <2>1. redeems[r].invite \in Invites /\ redeems[r].addr \in Addresses
    BY <1>0, <1>1 DEF CommitRedeem, TypeInv, RedeemShape
  <2>2. Ledger!AcceptToken(r, redeems[r].invite, redeems[r].addr)
    BY <1>1, CommitRedeemAccepts
  <2> QED BY <2>1, <2>2 DEF Ledger!Next
<1>2. ASSUME NEW b \in SignIns, CommitProvision(b) PROVE Ledger!Next
  <2>1. signIns[b].invite \in Invites /\ signIns[b].id \in Identities
    BY <1>0, <1>2 DEF CommitProvision, TypeInv, SignInShape
  <2>2. Ledger!AcceptIdentity(b, signIns[b].invite, signIns[b].id)
    BY <1>2, CommitProvisionAccepts
  <2> QED BY <2>1, <2>2 DEF Ledger!Next
<1>3. ASSUME UNCHANGED invites PROVE Created' = Created /\ Revoked' = Revoked
  BY <1>3 DEF Created, Revoked
<1>4. ASSUME UNCHANGED users PROVE IdentityOf' = IdentityOf
  BY <1>4, AccountsKept
<1>5. ASSUME NEW b \in SignIns, FillSso(b), users' # users PROVE Ledger!Next
  <2> DEFINE d == signIns[b].id
  <2>1. d \in Identities
    BY <1>0, <1>5 DEF FillSso, TypeInv, SignInShape
  <2>2. UNCHANGED <<invites, machines, redemptionLog>>
    BY <1>5 DEF FillSso, logVars
  <2>3. Ledger!Bind(d)
    BY <1>3, <1>5, <2>2, FillSsoBinds, UsesKept, AccountsDomain DEF Ledger!Bind
  <2> QED BY <2>1, <2>3 DEF Ledger!Next
<1>6. ASSUME NEW b \in SignIns, BootstrapInsert(b), users' # users PROVE Ledger!Next
  <2> DEFINE d == signIns[b].id
  <2>1. d \in Identities
    BY <1>0, <1>6 DEF BootstrapInsert, TypeInv, SignInShape
  <2>2. UNCHANGED <<invites, machines, redemptionLog>>
    BY <1>6 DEF BootstrapInsert, logVars
  <2>3. Ledger!Bootstrap(d)
    BY <1>3, <1>6, <2>2, BootstrapInsertOpens, UsesKept, AccountsDomain, SameCardinality
    DEF Ledger!Bootstrap
  <2> QED BY <2>1, <2>3 DEF Ledger!Next
<1>7. ASSUME NEW i \in Invites, CreateInvite(i) PROVE Ledger!Next
  <2>1. Created' = Created \cup {i} /\ Revoked' = Revoked
    BY <1>0, <1>7, WrittenInvites DEF Created, Revoked
  <2>2. UNCHANGED <<users, machines, redemptionLog>>
    BY <1>7 DEF CreateInvite, OnlyInvites, logVars
  <2>3. Ledger!Issue(i)
    BY <1>4, <2>1, <2>2, UsesKept DEF Ledger!Issue
  <2> QED BY <2>3 DEF Ledger!Next
<1>8. ASSUME NEW m \in Managers, RevokeInvite(m) PROVE Ledger!Next
  <2> DEFINE i == revokes[m].invite
  <2>1. i \in Invites /\ i \in Created
    BY <1>0, <1>8 DEF RevokeInvite, TypeInv, RevokeShape, LedgerInv, Admitted, Created
  <2>2. Created' = Created /\ Revoked' = Revoked \cup {i}
    BY <1>0, <1>8, <2>1, WrittenInvites DEF Created, Revoked
  <2>3. UNCHANGED <<users, machines, redemptionLog>>
    BY <1>8 DEF RevokeInvite, OnlyInvites, logVars
  <2>4. Ledger!Revoke(i)
    BY <1>4, <2>1, <2>2, <2>3, UsesKept DEF Ledger!Revoke
  <2> QED BY <2>1, <2>4 DEF Ledger!Next
<1>9. CASE /\ \A r \in Redeems : ~CommitRedeem(r)
           /\ \A b \in SignIns : ~CommitProvision(b)
           /\ UNCHANGED <<invites, users>>
  BY <1>0, <1>3, <1>4, <1>9, LogWriters, UsesKept DEF Ledger!ledgerVars
<1> QED BY <1>0, <1>1, <1>2, <1>5, <1>6, <1>7, <1>8, <1>9, UserWriters, InviteWriters

LEMMA LedgerInit == Init => Ledger!Init
<1> SUFFICES ASSUME Init PROVE Ledger!Init
  OBVIOUS
<1>1. Created = {} /\ Revoked = {} /\ machines = {}
  BY DEF Init, Created, Revoked
<1>2. UsesOf = [i \in Invites |-> {}]
  BY DEF Init, UsesOf, Acceptances
<1>3. Present = {}
  BY DEF Init, Present
<1>4. IdentityOf = [k \in {} |-> None]
  BY <1>3 DEF IdentityOf
<1> QED BY <1>1, <1>2, <1>4 DEF Ledger!Init

(* Onboarding implements the ledger: whatever calls race, fail or wait for a *)
(* lock, an acceptance is one step that takes one use of an invite neither   *)
(* revoked nor used up, for a caller its pattern and its providers permit,   *)
(* and opens the account and mints the key with it; and an identity comes    *)
(* to an account only by its own sign-in.                                   *)
THEOREM LedgerImplemented == Spec => ImplementsLedger
<1>1. LedgerInv /\ [Next]_vars => [Ledger!Next]_(Ledger!ledgerVars)
  BY LedgerStep
<1> QED BY <1>1, LedgerInit, LedgerInvInit, LedgerInvStep, PTL
        DEF Spec, ImplementsLedger, Ledger!Spec

-----------------------------------------------------------------------------
(***************************************************************************)
(* OnlyInvited is a property of the ledger: it is proved of the ledger's    *)
(* steps, and holds of onboarding because onboarding takes no others.       *)
(***************************************************************************)

(* Who was invited stays invited, and who used an invite has used it. *)
LEMMA InvitedKept ==
  ASSUME \A i \in Invites : UsesOf[i] \subseteq UsesOf'[i]
  PROVE  /\ \A o, a : Ledger!Invited(o, a) => Ledger!Invited(o, a)'
         /\ \A o, c : (\E i \in Invites : OrgOf[i] = o /\ c \in UsesOf[i])
                    => (\E i \in Invites : OrgOf[i] = o /\ c \in UsesOf'[i])
<1>1. \A i \in Invites : UsesOf[i] # {} => UsesOf'[i] # {}
  OBVIOUS
<1> QED BY <1>1 DEF Ledger!Invited

(* A taken use is one of the invite that it was taken of; no other is lost. *)
LEMMA TakenUse ==
  ASSUME NEW c, NEW i \in Invites, Ledger!TakeUse(c, i)
  PROVE  c \in UsesOf'[i] /\ \A j \in Invites : UsesOf[j] \subseteq UsesOf'[j]
<1>1. DOMAIN UsesOf = Invites
  BY DEF UsesOf
<1>2. UsesOf' = [UsesOf EXCEPT ![i] = @ \cup {c}]
  BY DEF Ledger!TakeUse
<1> QED BY <1>1, <1>2

LEMMA TokenInvites ==
  ASSUME OnlyInvited, NEW r \in Redeems, NEW i \in Invites, NEW a \in Addresses,
         Ledger!AcceptToken(r, i, a)
  PROVE  OnlyInvited'
<1> DEFINE k == <<OrgOf[i], Canon[a]>>
           n == [key |-> r, org |-> OrgOf[i], addr |-> Canon[a]]
<1>1. r \in UsesOf'[i] /\ \A j \in Invites : UsesOf[j] \subseteq UsesOf'[j]
  BY TakenUse DEF Ledger!AcceptToken
<1>2. DOMAIN IdentityOf' = DOMAIN IdentityOf \cup {k}
  BY DEF Ledger!AcceptToken, Ledger!Opened
<1>3. machines' = machines \cup {n}
  BY DEF Ledger!AcceptToken
<1>4. a \in Pattern[i]
  BY DEF Ledger!AcceptToken
<1>5. Ledger!Invited(k[1], k[2])'
  BY <1>1, <1>4 DEF Ledger!Invited
<1>6. n.org = k[1] /\ n.addr = k[2] /\ n.key = r /\ k = <<n.org, n.addr>>
  OBVIOUS
<1>7. Cardinality(Orgs) # 1 => \A m \in DOMAIN IdentityOf' : Ledger!Invited(m[1], m[2])'
  BY <1>1, <1>2, <1>5, InvitedKept, SameCardinality DEF OnlyInvited, Ledger!OnlyInvited
<1> HIDE DEF k, n
<1>8. ASSUME NEW m \in machines'
      PROVE  /\ <<m.org, m.addr>> \in DOMAIN IdentityOf'
             /\ \E j \in Invites : OrgOf[j] = m.org /\ m.key \in UsesOf'[j]
  <2>1. CASE m = n
    BY <1>1, <1>2, <1>6, <2>1 DEF k
  <2>2. CASE m \in machines
    BY <1>1, <1>2, <2>2, InvitedKept DEF OnlyInvited, Ledger!OnlyInvited
  <2> QED BY <1>3, <1>8, <2>1, <2>2
<1> QED BY <1>7, <1>8, SameCardinality DEF OnlyInvited, Ledger!OnlyInvited

LEMMA IdentityInvites ==
  ASSUME OnlyInvited, NEW b \in SignIns, NEW i \in Invites, NEW d \in Identities,
         Ledger!AcceptIdentity(b, i, d)
  PROVE  OnlyInvited'
<1> DEFINE k == <<OrgOf[i], Canon[AddressOf[d]]>>
<1>1. b \in UsesOf'[i] /\ \A j \in Invites : UsesOf[j] \subseteq UsesOf'[j]
  BY TakenUse DEF Ledger!AcceptIdentity
<1>2. DOMAIN IdentityOf' = DOMAIN IdentityOf \cup {k} /\ machines' = machines
  BY DEF Ledger!AcceptIdentity, Ledger!Opened
<1>3. k[1] = OrgOf[i] /\ k[2] \in Pattern[i]
  BY DEF Ledger!AcceptIdentity
<1> HIDE DEF k
<1>4. Ledger!Invited(k[1], k[2])'
  BY <1>1, <1>3 DEF Ledger!Invited
<1> QED BY <1>1, <1>2, <1>4, InvitedKept, SameCardinality DEF OnlyInvited, Ledger!OnlyInvited

(* Every other step of the ledger leaves uses and keys as they are, and opens *)
(* an account only where there is one org.                                  *)
LEMMA OthersInvite ==
  ASSUME OnlyInvited, UsesOf' = UsesOf, machines' = machines,
         \/ DOMAIN IdentityOf' = DOMAIN IdentityOf
         \/ /\ DOMAIN IdentityOf \subseteq DOMAIN IdentityOf'
            /\ Cardinality(Orgs) = 1
  PROVE  OnlyInvited'
BY SameCardinality DEF OnlyInvited, Ledger!OnlyInvited, Ledger!Invited

LEMMA LedgerInvites ==
  OnlyInvited /\ [Ledger!Next]_(Ledger!ledgerVars) => OnlyInvited'
<1> SUFFICES ASSUME OnlyInvited, Ledger!Next \/ UNCHANGED Ledger!ledgerVars PROVE OnlyInvited'
  OBVIOUS
<1>1. ASSUME NEW i \in Invites, Ledger!Issue(i) \/ Ledger!Revoke(i) PROVE OnlyInvited'
  BY <1>1, OthersInvite DEF Ledger!Issue, Ledger!Revoke
<1>2. ASSUME NEW d \in Identities, Ledger!Bootstrap(d) PROVE OnlyInvited'
  BY <1>2, OthersInvite, SameCardinality DEF Ledger!Bootstrap, Ledger!Opened
<1>3. ASSUME NEW d \in Identities, Ledger!Bind(d) PROVE OnlyInvited'
  BY <1>3, OthersInvite DEF Ledger!Bind
<1>4. CASE UNCHANGED Ledger!ledgerVars
  BY <1>4, OthersInvite DEF Ledger!ledgerVars
<1> QED BY <1>1, <1>2, <1>3, <1>4, TokenInvites, IdentityInvites DEF Ledger!Next

(* On a server of several orgs whoever has an account was invited to it, and  *)
(* whoever has a key used an invite of the org whose account the key is of,  *)
(* in every interleaving of redemptions, sign-ins and revocations.          *)
THEOREM OnlyInvitedAlways == Spec => []OnlyInvited
<1>1. Init => OnlyInvited
  <2>1. Ledger!Init => OnlyInvited
    BY DEF Ledger!Init, OnlyInvited, Ledger!OnlyInvited
  <2> QED BY <2>1, LedgerInit
<1>2. LedgerInv /\ OnlyInvited /\ [Next]_vars => OnlyInvited'
  BY LedgerStep, LedgerInvites
<1> QED BY <1>1, <1>2, LedgerInvInit, LedgerInvStep, PTL DEF Spec
=============================================================================
