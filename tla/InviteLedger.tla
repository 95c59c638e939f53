----------------------------- MODULE InviteLedger -----------------------------
(***************************************************************************)
(* What onboarding promises, without calls in progress, transactions,      *)
(* locks, drafts or connections: an invite is issued, and may be revoked;   *)
(* whoever accepts it takes one of its remaining uses, gets the account    *)
(* the invite admits, and by token a key, all at once; an identity is given *)
(* to an account by the sign-in of that identity alone.  Onboarding         *)
(* implements it.                                                          *)
(***************************************************************************)
EXTENDS Naturals, FiniteSets

CONSTANTS Orgs, Addresses, Identities, Invites, Redeems, SignIns, None,
          Canon, AddressOf, OrgOf, Pattern, Providers, MaxUses

VARIABLES
  issued,     \* the invites that exist
  revoked,    \* those that are revoked
  uses,       \* uses[i]: the calls that took a use of i
  accounts,   \* accounts[<<o, a>>]: the identity of the account, or None
  keys        \* the keys that were minted, with their owners

ledgerVars == <<issued, revoked, uses, accounts, keys>>

Init ==
  /\ issued = {}
  /\ revoked = {}
  /\ uses = [i \in Invites |-> {}]
  /\ accounts = [k \in {} |-> None]
  /\ keys = {}

Issue(i) ==
  /\ issued' = issued \cup {i}
  /\ UNCHANGED <<revoked, uses, accounts, keys>>

Revoke(i) ==
  /\ i \in issued
  /\ revoked' = revoked \cup {i}
  /\ UNCHANGED <<issued, uses, accounts, keys>>

(* A call takes the one use it ever takes, of an invite that is good.        *)
TakeUse(c, i) ==
  /\ i \in issued \ revoked
  /\ Cardinality(uses[i]) < MaxUses[i]
  /\ \A j \in Invites : c \notin uses[j]
  /\ uses' = [uses EXCEPT ![i] = @ \cup {c}]
  /\ UNCHANGED <<issued, revoked>>

Opened(k, d) == [m \in DOMAIN accounts \cup {k} |-> IF m = k THEN d ELSE accounts[m]]

(* No account of o outside S has the identity d. *)
FreeBut(o, d, S) == \A k \in DOMAIN accounts \ S : k[1] = o => accounts[k] # d

(* By token: whoever has the address already keeps the account as it is.     *)
AcceptToken(r, i, a) ==
  LET k == <<OrgOf[i], Canon[a]>> IN
  /\ TakeUse(r, i)
  /\ a \in Pattern[i]
  /\ accounts' = IF k \in DOMAIN accounts THEN accounts ELSE Opened(k, None)
  /\ keys' = keys \cup {[key |-> r, org |-> OrgOf[i], addr |-> Canon[a]]}

(* By identity: an account is opened, never taken over. *)
AcceptIdentity(b, i, d) ==
  LET k == <<OrgOf[i], Canon[AddressOf[d]]>> IN
  /\ TakeUse(b, i)
  /\ d \in Providers[i]
  /\ k[2] \in Pattern[i]
  /\ k \notin DOMAIN accounts
  /\ FreeBut(k[1], d, {})
  /\ accounts' = Opened(k, d)
  /\ UNCHANGED keys

(* A server of one org opens an account for an address nobody invited.       *)
Bootstrap(d) ==
  /\ Cardinality(Orgs) = 1
  /\ \E o \in Orgs : LET k == <<o, AddressOf[d]>> IN
       /\ k \notin DOMAIN accounts
       /\ FreeBut(o, d, {})
       /\ accounts' = Opened(k, d)
  /\ UNCHANGED <<issued, revoked, uses, keys>>

(* The accounts of an address are given the identity that signs in with it.  *)
Bind(d) ==
  LET mine == {k \in DOMAIN accounts : k[2] = AddressOf[d]} IN
  /\ \A k \in mine : FreeBut(k[1], d, mine)
  /\ accounts' = [k \in DOMAIN accounts |-> IF k \in mine THEN d ELSE accounts[k]]
  /\ UNCHANGED <<issued, revoked, uses, keys>>

Next ==
  \/ \E i \in Invites :
       \/ Issue(i) \/ Revoke(i)
       \/ \E r \in Redeems, a \in Addresses : AcceptToken(r, i, a)
       \/ \E b \in SignIns, d \in Identities : AcceptIdentity(b, i, d)
  \/ \E d \in Identities : Bootstrap(d) \/ Bind(d)

Spec == Init /\ [][Next]_ledgerVars

-----------------------------------------------------------------------------
(* Somebody took a use of an invite of o that admits the address. *)
Invited(o, a) ==
  \E i \in Invites : /\ OrgOf[i] = o /\ uses[i] # {}
                     /\ \E x \in Pattern[i] : a \in {x, Canon[x]}

(* Whoever has an account was invited, except on a server of one org, which  *)
(* bootstraps; and a key is of the account that its call accepted.          *)
OnlyInvited ==
  /\ Cardinality(Orgs) # 1 => \A k \in DOMAIN accounts : Invited(k[1], k[2])
  /\ \A k \in keys :
       /\ <<k.org, k.addr>> \in DOMAIN accounts
       /\ \E i \in Invites : OrgOf[i] = k.org /\ k.key \in uses[i]
=============================================================================
