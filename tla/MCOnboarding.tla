---------------------------- MODULE MCOnboarding ----------------------------
(* Small instances of Onboarding for TLC.                                   *)
EXTENDS Onboarding, TLC

CONSTANTS o1, o2, t1, t2, bob, Bob, ann, d1, d2, i1, i2

CanonLower == (bob :> bob) @@ (Bob :> bob)
CanonId == [a \in Addresses |-> a]
SpelledLower == [d \in Identities |-> bob]
SpelledUpper == [d \in Identities |-> Bob]
SameOrg == [i \in Invites |-> o1]
TwoOrgs == (i1 :> o1) @@ (i2 :> o2)
NoTeam == [i \in Invites |-> None]
OneTeam == [i \in Invites |-> t1]
OwnAddress == (d1 :> bob) @@ (d2 :> ann)
AnyAddress == [i \in Invites |-> Addresses]
AnyProvider == [i \in Invites |-> Identities]
FirstProvider == [i \in Invites |-> {d1}]
OneUse == [i \in Invites |-> 1]
TwoUses == [i \in Invites |-> 2]
ExpiresAtOne == [i \in Invites |-> 1]

CallSymmetry ==
  Permutations(Redeems) \cup Permutations(SignIns) \cup Permutations(Managers)
=============================================================================
