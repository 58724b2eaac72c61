---------------------------- MODULE Tenancy_proofs ----------------------------
(***************************************************************************)
(* Proofs about accounts, organizations and their erasure, for any set of  *)
(* accounts, organizations, concurrent calls and invitations.              *)
(***************************************************************************)
EXTENDS Tenancy, FiniteSetTheorems, WellFoundedInduction, TLAPS

-----------------------------------------------------------------------------
Less == {pair \in Nat \X Nat : pair[1] < pair[2]}

\* Organizations are numbers, so there is a first one to lock.
LEMMA LeastNumber ==
    ASSUME NEW S \in SUBSET Nat, S # {}
    PROVE  \E n \in S : \A m \in S : n <= m
<1>1. OpToRel(<, Nat) = Less
  BY Zenon DEF OpToRel, Less
<1>2. IsWellFoundedOn(Less, Nat)
  BY <1>1, NatLessThanWellFounded
<1>3. PICK n \in S : \A m \in S : <<m, n>> \notin Less
  BY <1>2, WFMin
<1>4. ASSUME NEW m \in S PROVE n <= m
  <2>1. m \in Nat /\ n \in Nat /\ <<m, n>> \in Nat \X Nat
    OBVIOUS
  <2>2. ~(<<m, n>>[1] < <<m, n>>[2])
    BY <1>3, <2>1 DEF Less
  <2>3. QED
    BY <2>1, <2>2
<1>5. QED
  BY <1>4

LEMMA NextToLockIs ==
    ASSUME TypeOK, NEW c \in Callers, calls[c].toLock # {}
    PROVE  NextToLock(c) \in calls[c].toLock /\ NextToLock(c) \in Orgs
<1>1. calls[c].toLock \in SUBSET Orgs
  BY DEF TypeOK, Call
<1>2. calls[c].toLock \in SUBSET Nat
  BY <1>1, TenancyAssumption
<1>3. \E n \in calls[c].toLock : \A m \in calls[c].toLock : n <= m
  BY <1>2, LeastNumber
<1>4. QED
  BY <1>1, <1>3 DEF NextToLock

-----------------------------------------------------------------------------
(***************************************************************************)
(* Types.                                                                  *)
(***************************************************************************)

LEMMA NoCallType == NoCall \in Call
BY DEF NoCall, Call, Roles, Kinds

LEMMA ErasedType == NoInvitation \in Invitation /\ Erased \in Invitation
BY DEF NoInvitation, Erased, Invitation, Invitable, Roles

LEMMA NoneIsNothing == None \notin Users /\ None \notin Orgs /\ None \notin Invites
BY TenancyAssumption

LEMMA InitType == Init => TypeOK
<1> SUFFICES ASSUME Init PROVE TypeOK
  OBVIOUS
<1>1. members \in [Orgs -> [Users -> Roles \cup {"none"}]]
  BY TenancyAssumption DEF Init
<1>2. QED
  BY <1>1, NoCallType, ErasedType DEF Init, TypeOK

\* What a call is when it begins: the fields its kind uses are set, and an invitation it
\* names exists and, while it is open, is the one the call is about.
WellFormed(call) ==
    /\ call.kind = "none" => call = NoCall
    /\ call.kind # "none" => call.step # "none"
    /\ call.kind \notin {"none", "forget"} => call.actor \in Users
    /\ call.kind \in {"role", "remove"} =>
          /\ call.org \in Orgs /\ call.target \in Users /\ call.target # call.actor
          /\ call.step \in {"begun", "decided"}
    /\ call.kind = "invite" =>
          /\ call.org \in Orgs /\ call.target \in Users /\ call.role \in Invitable
          /\ call.step \in {"begun", "decided"}
    /\ call.kind = "revoke" =>
          /\ call.invite \in Invites /\ invitations[call.invite].state # "none"
          /\ call.step \in {"begun", "decided"}
    /\ call.kind \in {"accept", "join"} =>
          /\ call.org \in Orgs /\ call.role \in Invitable
          /\ call.invite \in Invites /\ invitations[call.invite].state # "none"
          /\ Open(call.invite) => /\ invitations[call.invite].org = call.org
                                  /\ invitations[call.invite].email = call.actor
                                  /\ invitations[call.invite].role = call.role
          /\ call.step \in {"begun", "decided", "claimed"}
    /\ call.kind = "close" => call.org \in Orgs
    /\ call.kind \in {"leave", "close"} => call.step \in {"begun", "locking", "decided"}
    /\ call.kind = "forget" => call.dooms = {} /\ call.step \in {"begun", "decided"}

\* An unused or erased invitation names nobody; any other names its organization and
\* its addressee.
InvitationsSound ==
    \A i \in Invites :
        /\ invitations[i].state \in {"none", "erased"} =>
              /\ invitations[i].org = None
              /\ invitations[i].by = None /\ invitations[i].acceptedBy = None
        /\ invitations[i].state \notin {"none", "erased"} =>
              invitations[i].org \in Orgs /\ invitations[i].email \in Users

\* A call that begins is well formed and holds no row.
Opening(call) ==
    /\ call \in Call /\ call.step = "begun" /\ call.kind # "none" /\ call.held = {}
    /\ WellFormed(call)

LEMMA StartsOpen ==
    ASSUME TypeOK, InvitationsSound, NEW c \in Callers, Starts(c), ~Register(c)
    PROVE  /\ calls[c] = NoCall /\ RowsUnchanged
           /\ \E call \in Call : Opening(call) /\ calls' = [calls EXCEPT ![c] = call]
<1>0. calls[c] = NoCall
  BY DEF Starts
<1>1. CASE MemberCall(c)
  <2>1. PICK kind \in {"role", "remove"}, o \in Orgs, u \in Users, target \in Users, role \in Roles :
          /\ target # u
          /\ Begins(c, [NoCall EXCEPT !.kind = kind, !.actor = u, !.org = o,
                                      !.target = target, !.role = role])
    BY <1>1 DEF MemberCall
  <2> DEFINE call == [[NoCall EXCEPT !.kind = kind, !.actor = u, !.org = o,
                                     !.target = target, !.role = role] EXCEPT !.step = "begun"]
  <2>2. calls' = [calls EXCEPT ![c] = call] /\ calls[c] = NoCall /\ RowsUnchanged
    BY <1>0, <2>1 DEF Begins
  <2>3. /\ call \in Call /\ call.step = "begun" /\ call.held = {} /\ call.kind = kind
        /\ call.actor = u /\ call.org = o /\ call.target = target
    BY <2>1 DEF Call, Kinds, NoCall
  <2> HIDE DEF call
  <2>4. Opening(call)
    BY <2>1, <2>3 DEF Opening, WellFormed
  <2>5. QED
    BY <2>2, <2>4 DEF Opening
<1>2. CASE InviteCall(c)
  <2>1. PICK o \in Orgs, u \in Users, email \in Users, role \in Invitable :
          Begins(c, [NoCall EXCEPT !.kind = "invite", !.actor = u, !.org = o,
                       !.target = email, !.role = role,
                       !.invite = IF OpenFor(o, email) = {} THEN None
                                  ELSE CHOOSE i \in OpenFor(o, email) : TRUE])
    BY <1>2 DEF InviteCall
  <2>2. PICK invite \in Invites \cup {None} :
          invite = IF OpenFor(o, email) = {} THEN None
                   ELSE CHOOSE i \in OpenFor(o, email) : TRUE
    BY DEF OpenFor
  <2> DEFINE call == [[NoCall EXCEPT !.kind = "invite", !.actor = u, !.org = o, !.target = email,
                                     !.role = role, !.invite = invite] EXCEPT !.step = "begun"]
  <2>3. calls' = [calls EXCEPT ![c] = call] /\ calls[c] = NoCall /\ RowsUnchanged
    BY <1>0, <2>1, <2>2 DEF Begins
  <2>4. /\ call \in Call /\ call.step = "begun" /\ call.held = {} /\ call.kind = "invite"
        /\ call.actor = u /\ call.org = o /\ call.target = email /\ call.role = role
    BY DEF Call, Kinds, NoCall, Invitable
  <2> HIDE DEF call
  <2>5. Opening(call)
    BY <2>4 DEF Opening, WellFormed
  <2>6. QED
    BY <2>3, <2>5 DEF Opening
<1>3. CASE RevokeCall(c)
  <2>1. PICK i \in Invites, u \in Users :
          /\ Pending(i)
          /\ Begins(c, [NoCall EXCEPT !.kind = "revoke", !.actor = u,
                                      !.org = invitations[i].org, !.invite = i])
    BY <1>3 DEF RevokeCall
  <2>2. PICK o \in Orgs : o = invitations[i].org /\ invitations[i].state # "none"
    BY <2>1 DEF Pending, Open, InvitationsSound
  <2> DEFINE call == [[NoCall EXCEPT !.kind = "revoke", !.actor = u, !.org = o, !.invite = i]
                         EXCEPT !.step = "begun"]
  <2>3. calls' = [calls EXCEPT ![c] = call] /\ calls[c] = NoCall /\ RowsUnchanged
    BY <1>0, <2>1, <2>2 DEF Begins
  <2>4. /\ call \in Call /\ call.step = "begun" /\ call.held = {} /\ call.kind = "revoke"
        /\ call.actor = u /\ call.invite = i
    BY DEF Call, Kinds, NoCall, Roles
  <2> HIDE DEF call
  <2>5. Opening(call)
    BY <2>2, <2>4 DEF Opening, WellFormed
  <2>6. QED
    BY <2>3, <2>5 DEF Opening
<1>4. CASE AcceptCall(c)
  <2>1. PICK i \in Invites, kind \in {"accept", "join"} :
          /\ Pending(i)
          /\ Begins(c, [NoCall EXCEPT !.kind = kind, !.actor = invitations[i].email,
                          !.org = invitations[i].org, !.role = invitations[i].role,
                          !.invite = i])
    BY <1>4 DEF AcceptCall
  <2>2. PICK o \in Orgs, u \in Users, role \in Invitable :
          /\ o = invitations[i].org /\ u = invitations[i].email /\ role = invitations[i].role
          /\ invitations[i].state # "none"
    BY <2>1 DEF Pending, Open, InvitationsSound, TypeOK, Invitation
  <2> DEFINE call == [[NoCall EXCEPT !.kind = kind, !.actor = u, !.org = o, !.role = role,
                                     !.invite = i] EXCEPT !.step = "begun"]
  <2>3. calls' = [calls EXCEPT ![c] = call] /\ calls[c] = NoCall /\ RowsUnchanged
    BY <1>0, <2>1, <2>2 DEF Begins
  <2>4. /\ call \in Call /\ call.step = "begun" /\ call.held = {} /\ call.kind = kind
        /\ call.actor = u /\ call.org = o /\ call.role = role /\ call.invite = i
    BY DEF Call, Kinds, NoCall, Invitable
  <2> HIDE DEF call
  <2>5. Opening(call)
    BY <2>1, <2>2, <2>4 DEF Opening, WellFormed
  <2>6. QED
    BY <2>3, <2>5 DEF Opening
<1>5. CASE EraseCall(c)
  <2>1. PICK kind \in {"leave", "close"}, u \in Users, o \in Orgs \cup {None} :
          /\ IF kind = "leave" THEN o = None ELSE o # None
          /\ Begins(c, [NoCall EXCEPT !.kind = kind, !.actor = u, !.org = o])
    BY <1>5 DEF EraseCall
  <2> DEFINE call == [[NoCall EXCEPT !.kind = kind, !.actor = u, !.org = o] EXCEPT !.step = "begun"]
  <2>2. calls' = [calls EXCEPT ![c] = call] /\ calls[c] = NoCall /\ RowsUnchanged
    BY <1>0, <2>1 DEF Begins
  <2>3. /\ call \in Call /\ call.step = "begun" /\ call.held = {} /\ call.kind = kind
        /\ call.actor = u /\ call.org = o
    BY DEF Call, Kinds, NoCall, Roles
  <2> HIDE DEF call
  <2>4. Opening(call)
    BY <2>1, <2>3 DEF Opening, WellFormed
  <2>5. QED
    BY <2>2, <2>4 DEF Opening
<1>6. CASE ForgetCall(c)
  <2>1. PICK email \in Users :
          Begins(c, [NoCall EXCEPT !.kind = "forget", !.target = email])
    BY <1>6 DEF ForgetCall
  <2> DEFINE call == [[NoCall EXCEPT !.kind = "forget", !.target = email]
                         EXCEPT !.step = "begun"]
  <2>2. calls' = [calls EXCEPT ![c] = call] /\ calls[c] = NoCall /\ RowsUnchanged
    BY <1>0, <2>1 DEF Begins
  <2>3. /\ call \in Call /\ call.step = "begun" /\ call.held = {} /\ call.kind = "forget"
        /\ call.target = email /\ call.dooms = {}
    BY DEF Call, Kinds, NoCall, Roles
  <2> HIDE DEF call
  <2>4. Opening(call)
    BY <2>3 DEF Opening, WellFormed
  <2>5. QED
    BY <2>2, <2>4 DEF Opening
<1>7. QED
  BY <1>0, <1>1, <1>2, <1>3, <1>4, <1>5, <1>6 DEF Starts

-----------------------------------------------------------------------------
(***************************************************************************)
(* The invariant.  OwnerRemains is decided by calls that count owners and  *)
(* write later: it needs that a call which decided still holds the rows it *)
(* read, that no two calls hold the same row, that every member's account  *)
(* is active, and that a departing account has locked every organization   *)
(* it can still be a member of.                                            *)
(***************************************************************************)

MembersAreActive ==
    \A o \in Orgs, u \in Users : IsMember(u, o) => Live(o) /\ accounts[u] = "active"

LocksAreExclusive ==
    \A c, d \in Callers : c # d => calls[c].held \cap calls[d].held = {}

MemberBacked(call) ==
    call.kind \in {"role", "remove"} /\ call.step = "decided" =>
        /\ call.org \in call.held /\ Live(call.org)
        /\ RoleOf(call.target, call.org) # "none"
        /\ IsMember(call.actor, call.org)
        /\ MayManage(RoleOf(call.actor, call.org), RoleOf(call.target, call.org), call.role)
        /\ OwnerStays(call)

\* A call that wrote an invitation holds it, open.
InviteBacked(call) ==
    call.kind = "invite" /\ call.step = "decided" => call.held \subseteq {i \in Invites : Open(i)}

RevokeBacked(call) ==
    call.kind = "revoke" /\ call.step = "decided" => call.invite \in call.held /\ Open(call.invite)

AcceptBacked(call) ==
    /\ call.kind \in {"accept", "join"} /\ call.step \in {"decided", "claimed"} =>
          /\ call.org \in call.held /\ Live(call.org)
          /\ call.kind = "accept" => ~IsMember(call.actor, call.org)
          /\ Open(call.invite) => InviterAuthorized(call.invite)
    /\ call.kind \in {"accept", "join"} /\ call.step = "claimed" =>
          call.invite \in call.held /\ Open(call.invite)

\* The erasure comes to every invitation that names what it erases.
Reaches(call) ==
    \A i \in Invites :
        \/ invitations[i].org \in call.dooms
        \/ call.kind = "leave" /\ call.actor \in {invitations[i].by, invitations[i].acceptedBy}
        => i \in call.held \cup call.toClear

EraseBacked(call) ==
    /\ call.kind \in {"leave", "close"} /\ call.step \in {"locking", "decided"} =>
          call.actor \in call.held /\ accounts[call.actor] = "active"
    /\ call.kind = "leave" /\ call.step \in {"locking", "decided"} =>
          OrganizationsOf(call.actor) \subseteq call.held \cup call.toLock
    /\ call.kind = "close" /\ call.step = "locking" => call.org \in call.held \cup call.toLock
    /\ call.kind \in {"leave", "close"} /\ call.step = "decided" =>
          call.toLock = {} /\ call.dooms \subseteq call.held /\ Reaches(call)
    /\ call.kind = "leave" /\ call.step = "decided" =>
          \A o \in OrganizationsOf(call.actor) \ call.dooms : Owners(o) # {call.actor}

Backed(call) == /\ MemberBacked(call) /\ InviteBacked(call) /\ RevokeBacked(call)
                /\ AcceptBacked(call) /\ EraseBacked(call)

Inv == /\ TypeOK /\ InvitationsSound /\ MembersAreActive /\ LocksAreExclusive
       /\ \A c \in Callers : WellFormed(calls[c]) /\ Backed(calls[c])

\* What a step leaves to a caller d that did not take it: the organizations, accounts and
\* invitations it holds, no invitation that newly names one of them, and the invitations.
OrgsKept(d) ==
    \A o \in Orgs : o \in calls[d].held /\ Live(o) => members'[o] = members[o] /\ Live(o)'

AccountsKept(d) ==
    \A u \in Users : u \in calls[d].held /\ accounts[u] = "active" =>
        /\ accounts'[u] = "active"
        /\ \A o \in Orgs : Live(o)' /\ IsMember(u, o)' => Live(o) /\ IsMember(u, o)

HeldKept(d) == \A i \in Invites : i \in calls[d].held /\ Open(i) => Open(i)'

NamesKept(d) ==
    \A i \in Invites :
        /\ \A o \in Orgs : o \in calls[d].held /\ invitations'[i].org = o => invitations[i].org = o
        /\ \A u \in Users :
              u \in calls[d].held /\ u \in {invitations'[i].by, invitations'[i].acceptedBy} =>
                  u \in {invitations[i].by, invitations[i].acceptedBy}

RowsKept(d) == OrgsKept(d) /\ AccountsKept(d) /\ HeldKept(d) /\ NamesKept(d)

InvitationsKept ==
    \A i \in Invites : invitations[i].state # "none" =>
        /\ invitations'[i].state # "none"
        /\ Open(i)' => /\ Open(i)
                       /\ invitations'[i].org = invitations[i].org
                       /\ invitations'[i].email = invitations[i].email
                       /\ invitations'[i].role = invitations[i].role
                       /\ \/ invitations'[i].by = invitations[i].by
                          \/ /\ invitations[i].by \in Users
                             /\ accounts'[invitations[i].by] = "deleted"

Keeps(d) == RowsKept(d) /\ calls'[d] = calls[d]

LEMMA WellFormedStays ==
    ASSUME InvitationsKept, NEW call, WellFormed(call)
    PROVE  /\ call.kind = "revoke" => invitations'[call.invite].state # "none"
           /\ call.kind \in {"accept", "join"} =>
                 /\ invitations'[call.invite].state # "none"
                 /\ Open(call.invite)' => /\ invitations'[call.invite].org = call.org
                                          /\ invitations'[call.invite].email = call.actor
                                          /\ invitations'[call.invite].role = call.role
BY DEF InvitationsKept, WellFormed, Open

LEMMA Bystander ==
    ASSUME Inv, TypeOK', MembersAreActive', InvitationsKept, NEW d \in Callers, Keeps(d)
    PROVE  WellFormed(calls[d])' /\ Backed(calls[d])'
<1>1. PICK call \in Call : call = calls[d]
  BY DEF Inv, TypeOK
<1>20. calls'[d] = call /\ WellFormed(call) /\ Backed(call)
  BY <1>1 DEF Inv, Keeps
<1>2. WellFormed(calls[d])'
  <2>1. WellFormed(call)'
    BY <1>20, WellFormedStays DEF WellFormed
  <2>2. QED
    BY <1>20, <2>1 DEF WellFormed
<1>3. ASSUME NEW o \in Orgs, o \in call.held, Live(o)
      PROVE  members'[o] = members[o] /\ Live(o)'
  BY <1>1, <1>3 DEF Keeps, RowsKept, OrgsKept
<1>4. MemberBacked(calls[d])'
  <2> SUFFICES ASSUME call.kind \in {"role", "remove"}, call.step = "decided"
               PROVE  MemberBacked(call)'
    BY <1>20 DEF MemberBacked, OwnerStays
  <2>1. /\ call.org \in Orgs /\ call.org \in call.held /\ Live(call.org)
        /\ MemberBacked(call)
    BY <1>1, <1>20 DEF Backed, MemberBacked, WellFormed
  <2>2. members'[call.org] = members[call.org] /\ Live(call.org)'
    BY <1>3, <2>1
  <2>3. OwnerStays(call)' <=> OwnerStays(call)
    BY <2>2 DEF OwnerStays, RoleOf, Owners
  <2>4. QED
    BY <2>1, <2>2, <2>3 DEF MemberBacked, RoleOf, IsMember
<1>40. ASSUME NEW i \in Invites, i \in call.held, Open(i) PROVE Open(i)'
  BY <1>1, <1>40 DEF Keeps, RowsKept, HeldKept
<1>41. InviteBacked(calls[d])' /\ RevokeBacked(calls[d])'
  <2>1. InviteBacked(call) /\ RevokeBacked(call)
    BY <1>20 DEF Backed
  <2>2. InviteBacked(call)'
    BY <1>40, <2>1 DEF InviteBacked
  <2>3. RevokeBacked(call)'
    BY <1>20, <1>40, <2>1 DEF RevokeBacked, WellFormed
  <2>4. QED
    BY <1>20, <2>2, <2>3 DEF InviteBacked, RevokeBacked
<1>5. AcceptBacked(calls[d])'
  <2> SUFFICES ASSUME call.kind \in {"accept", "join"}, call.step \in {"decided", "claimed"}
               PROVE  AcceptBacked(call)'
    BY <1>20 DEF AcceptBacked
  <2>1. /\ call.org \in Orgs /\ call.org \in call.held /\ Live(call.org)
        /\ call.invite \in Invites /\ invitations[call.invite].state # "none"
        /\ AcceptBacked(call)
    BY <1>1, <1>20 DEF Backed, AcceptBacked, WellFormed
  <2>2. members'[call.org] = members[call.org] /\ Live(call.org)'
    BY <1>3, <2>1
  <2>3. ASSUME Open(call.invite)' PROVE InviterAuthorized(call.invite)'
    <3> DEFINE i == call.invite
    <3>1. /\ Open(i) /\ invitations'[i].org = call.org /\ invitations[i].org = call.org
          /\ invitations'[i].role = invitations[i].role
          /\ \/ invitations'[i].by = invitations[i].by
             \/ invitations[i].by \in Users /\ accounts'[invitations[i].by] = "deleted"
      BY <1>20, <2>1, <2>3 DEF InvitationsKept, WellFormed
    <3>2. InviterAuthorized(i)
      BY <2>1, <3>1 DEF AcceptBacked
    <3>3. PICK by \in Users : by = invitations[i].by
      BY <2>1, <3>2 DEF InviterAuthorized, Inv, TypeOK, Invitation
    <3>4. RoleOf(by, call.org) \in Admins /\ RoleOf(by, call.org)' = RoleOf(by, call.org)
      BY <2>2, <3>1, <3>2, <3>3 DEF InviterAuthorized, RoleOf
    <3>5. accounts'[by] = "active"
      BY <2>1, <3>4 DEF MembersAreActive, IsMember, Admins
    <3>6. invitations'[i].by = by
      BY <3>1, <3>3, <3>5
    <3>7. QED
      BY <3>1, <3>2, <3>3, <3>4, <3>5, <3>6 DEF InviterAuthorized
  <2>4. call.step = "claimed" => Open(call.invite)'
    BY <1>40, <2>1 DEF AcceptBacked
  <2>5. QED
    BY <2>1, <2>2, <2>3, <2>4 DEF AcceptBacked, RoleOf, IsMember
<1>6. EraseBacked(calls[d])'
  <2> SUFFICES ASSUME call.kind \in {"leave", "close"}, call.step \in {"locking", "decided"}
               PROVE  EraseBacked(call)'
    BY <1>20 DEF EraseBacked
  <2>1. /\ call.actor \in Users /\ call.actor \in call.held /\ accounts[call.actor] = "active"
        /\ EraseBacked(call)
    BY <1>1, <1>20 DEF Backed, EraseBacked, WellFormed, Call
  <2>2. /\ accounts'[call.actor] = "active"
        /\ OrganizationsOf(call.actor)' \subseteq OrganizationsOf(call.actor)
    BY <1>1, <2>1 DEF Keeps, RowsKept, AccountsKept, OrganizationsOf
  <2>3. ASSUME call.kind = "leave", call.step = "decided",
               NEW o \in OrganizationsOf(call.actor)', o \notin call.dooms
        PROVE  (Owners(o) # {call.actor})'
    <3>1. o \in Orgs /\ o \in OrganizationsOf(call.actor) /\ Live(o)
      BY <2>2 DEF OrganizationsOf
    <3>2. o \in call.held /\ Owners(o) # {call.actor}
      BY <2>1, <2>3, <3>1 DEF EraseBacked
    <3>3. members'[o] = members[o]
      BY <1>3, <3>1, <3>2
    <3>4. QED
      BY <3>2, <3>3 DEF Owners, RoleOf
  <2>4. ASSUME call.step = "decided" PROVE Reaches(call)'
    <3>1. Reaches(call) /\ call.dooms \subseteq call.held /\ call.dooms \subseteq Orgs
      BY <1>1, <2>1, <2>4 DEF EraseBacked, Call
    <3>2. ASSUME NEW i \in Invites
          PROVE  /\ \A o \in call.dooms : invitations'[i].org = o => invitations[i].org = o
                 /\ call.actor \in {invitations'[i].by, invitations'[i].acceptedBy} =>
                       call.actor \in {invitations[i].by, invitations[i].acceptedBy}
      BY <1>1, <2>1, <3>1 DEF Keeps, RowsKept, NamesKept
    <3>3. QED
      BY <3>1, <3>2 DEF Reaches
  <2>5. QED
    BY <2>1, <2>2, <2>3, <2>4 DEF EraseBacked
<1>7. QED
  BY <1>2, <1>4, <1>41, <1>5, <1>6 DEF Backed

\* A step keeps the rows in order and leaves the callers of D what they hold.
RowsFine(D) ==
    /\ accounts' \in [Users -> {"unregistered", "active", "deleted"}]
    /\ orgs' \in [Orgs -> {"absent", "live", "deleted"}]
    /\ members' \in [Orgs -> [Users -> Roles \cup {"none"}]]
    /\ invitations' \in [Invites -> Invitation]
    /\ InvitationsSound' /\ MembersAreActive' /\ InvitationsKept
    /\ \A d \in D : RowsKept(d)

LEMMA QuietRows ==
    ASSUME Inv, RowsUnchanged, NEW D \in SUBSET Callers
    PROVE  RowsFine(D)
<1>1. InvitationsSound' /\ MembersAreActive'
  BY DEF Inv, RowsUnchanged, InvitationsSound, MembersAreActive, IsMember, RoleOf, Live
<1>2. InvitationsKept
  BY DEF RowsUnchanged, InvitationsKept, Open
<1>3. \A d \in D : RowsKept(d)
  BY DEF RowsUnchanged, RowsKept, OrgsKept, AccountsKept, HeldKept, NamesKept, IsMember, RoleOf,
     Live, Open
<1>4. QED
  BY <1>1, <1>2, <1>3 DEF RowsFine, RowsUnchanged, Inv, TypeOK

\* A step of one caller: the others keep what they have.
LEMMA CallerStep ==
    ASSUME Inv, NEW c \in Callers, NEW x \in Call, calls' = [calls EXCEPT ![c] = x],
           RowsFine(Callers \ {c}), WellFormed(x)', Backed(x)',
           \A d \in Callers \ {c} : x.held \cap calls[d].held = {}
    PROVE  Inv'
<1>1. /\ calls'[c] = x
      /\ \A d \in Callers \ {c} : calls'[d] = calls[d]
      /\ calls' \in [Callers -> Call]
  BY DEF Inv, TypeOK
<1>2. TypeOK' /\ InvitationsSound' /\ MembersAreActive'
  BY <1>1 DEF RowsFine, TypeOK
<1>3. LocksAreExclusive'
  BY <1>1 DEF Inv, LocksAreExclusive
<1>4. ASSUME NEW d \in Callers \ {c} PROVE WellFormed(calls[d])' /\ Backed(calls[d])'
  BY <1>1, <1>2, Bystander DEF RowsFine, Keeps
<1>5. WellFormed(calls[c])' /\ Backed(calls[c])'
  <2>1. WellFormed(calls[c])'
    BY <1>1 DEF WellFormed
  <2>2. MemberBacked(calls[c])'
    BY <1>1 DEF Backed, MemberBacked, OwnerStays
  <2>3. AcceptBacked(calls[c])' /\ InviteBacked(calls[c])' /\ RevokeBacked(calls[c])'
    BY <1>1 DEF Backed, AcceptBacked, InviteBacked, RevokeBacked
  <2>4. EraseBacked(calls[c])'
    BY <1>1 DEF Backed, EraseBacked, Reaches
  <2>5. QED
    BY <2>1, <2>2, <2>3, <2>4 DEF Backed
<1>6. QED
  BY <1>2, <1>3, <1>4, <1>5 DEF Inv

\* A step of nobody.
LEMMA NobodyStep ==
    ASSUME Inv, calls' = calls, RowsFine(Callers)
    PROVE  Inv'
<1>1. TypeOK' /\ InvitationsSound' /\ MembersAreActive'
  BY DEF RowsFine, TypeOK, Inv
<1>2. LocksAreExclusive'
  BY DEF Inv, LocksAreExclusive
<1>3. ASSUME NEW d \in Callers PROVE WellFormed(calls[d])' /\ Backed(calls[d])'
  BY <1>1, Bystander DEF RowsFine, Keeps
<1>4. QED
  BY <1>1, <1>2, <1>3 DEF Inv

LEMMA EndsInv ==
    ASSUME Inv, NEW c \in Callers, Ends(c), RowsFine(Callers \ {c})
    PROVE  Inv'
<1>1. calls' = [calls EXCEPT ![c] = NoCall]
  BY DEF Ends, Releases
<1>2. WellFormed(NoCall)' /\ Backed(NoCall)'
  BY DEF NoCall, WellFormed, Backed, MemberBacked, InviteBacked, RevokeBacked, AcceptBacked,
     EraseBacked
<1>3. NoCall.held = {}
  BY DEF NoCall
<1>4. QED
  BY <1>1, <1>2, <1>3, NoCallType, CallerStep

LEMMA RefusedInv ==
    ASSUME Inv, NEW c \in Callers, Refused(c)
    PROVE  Inv'
BY QuietRows, EndsInv DEF Refused

LEMMA StartsInv ==
    ASSUME Inv, NEW c \in Callers, Starts(c), ~Register(c)
    PROVE  Inv'
<1>1. RowsUnchanged
  BY StartsOpen DEF Inv
<1>2. PICK call \in Call : Opening(call) /\ calls' = [calls EXCEPT ![c] = call]
  BY StartsOpen DEF Inv
<1>3. RowsFine(Callers \ {c})
  BY <1>1, QuietRows
<1>4. WellFormed(call)' /\ Backed(call)'
  <2>1. invitations' = invitations /\ WellFormed(call) /\ call.step = "begun"
    BY <1>1, <1>2 DEF RowsUnchanged, Opening
  <2>2. WellFormed(call)'
    BY <2>1 DEF WellFormed, Open
  <2>3. QED
    BY <2>1, <2>2
       DEF Backed, MemberBacked, InviteBacked, RevokeBacked, AcceptBacked, EraseBacked
<1>5. QED
  BY <1>2, <1>3, <1>4, CallerStep DEF Opening

\* A call that decided is the call that began, holding what it decided on.
LEMMA DecidedCall ==
    ASSUME Inv, NEW c \in Callers, NEW held \in SUBSET (Orgs \cup Users \cup Invites),
           NEW dooms \in SUBSET Orgs, Decided(c, held, dooms)
    PROVE  \E x \in Call :
              /\ calls' = [calls EXCEPT ![c] = x]
              /\ x.kind = calls[c].kind /\ x.step = "decided" /\ x.actor = calls[c].actor
              /\ x.org = calls[c].org /\ x.target = calls[c].target /\ x.role = calls[c].role
              /\ x.invite = calls[c].invite /\ x.held = held /\ x.toLock = calls[c].toLock
              /\ x.dooms = dooms
<1> DEFINE x == [calls[c] EXCEPT !.step = "decided", !.held = held, !.dooms = dooms]
<1>1. calls[c] \in Call
  BY DEF Inv, TypeOK
<1>2. x \in Call
  BY <1>1 DEF Call
<1>3. /\ x.kind = calls[c].kind /\ x.step = "decided" /\ x.actor = calls[c].actor
      /\ x.org = calls[c].org /\ x.target = calls[c].target /\ x.role = calls[c].role
      /\ x.invite = calls[c].invite /\ x.held = held /\ x.toLock = calls[c].toLock
      /\ x.dooms = dooms
  BY <1>1 DEF Call
<1>4. calls' = [calls EXCEPT ![c] = x]
  BY DEF Decided, Inv, TypeOK
<1> HIDE DEF x
<1>5. QED
  BY <1>2, <1>3, <1>4

\* An erasure that planned holds what it held.
LEMMA PlannedCall ==
    ASSUME NEW c \in Callers, Inv, NEW plan \in Call, Plans(c, plan)
    PROVE  \E x \in Call :
              /\ calls' = [calls EXCEPT ![c] = x]
              /\ x.kind = plan.kind /\ x.step = plan.step /\ x.actor = plan.actor
              /\ x.org = plan.org /\ x.held = plan.held /\ x.toLock = plan.toLock
              /\ x.dooms = plan.dooms
              /\ x.toClear = {i \in Invites : Touches(plan, invitations[i])}
<1> DEFINE rows == {i \in Invites : Touches(plan, invitations[i])}
           x == [plan EXCEPT !.toClear = rows]
<1>1. rows \in SUBSET Invites
  OBVIOUS
<1>2. calls' = [calls EXCEPT ![c] = x]
  BY DEF Plans
<1> HIDE DEF rows
<1>3. /\ x \in Call /\ x.kind = plan.kind /\ x.step = plan.step /\ x.actor = plan.actor
      /\ x.org = plan.org /\ x.held = plan.held /\ x.toLock = plan.toLock
      /\ x.dooms = plan.dooms /\ x.toClear = rows
  BY <1>1 DEF Call
<1> HIDE DEF x
<1>4. QED
  BY <1>2, <1>3 DEF rows

LEMMA MemberDecidesInv ==
    ASSUME Inv, NEW c \in Callers, MemberDecides(c)
    PROVE  Inv'
<1>1. CASE Refused(c)
  BY <1>1, RefusedInv
<1>2. CASE ~Refused(c)
  <2>1. /\ calls[c].kind \in {"role", "remove"} /\ Free(calls[c].org, c)
        /\ Decided(c, {calls[c].org}, {})
        /\ Live(calls[c].org) /\ IsMember(calls[c].target, calls[c].org)
        /\ IsMember(calls[c].actor, calls[c].org)
        /\ MayManage(RoleOf(calls[c].actor, calls[c].org),
                     RoleOf(calls[c].target, calls[c].org), calls[c].role)
        /\ OwnerStays(calls[c])
    BY <1>2 DEF MemberDecides, ActorAuthorized, At, LocksOrganization
  <2>2. WellFormed(calls[c]) /\ calls[c].org \in Orgs
    BY <2>1 DEF Inv, WellFormed
  <2>3. PICK x \in Call :
              /\ calls' = [calls EXCEPT ![c] = x]
              /\ x.kind = calls[c].kind /\ x.step = "decided" /\ x.actor = calls[c].actor
              /\ x.org = calls[c].org /\ x.target = calls[c].target /\ x.role = calls[c].role
              /\ x.held = {calls[c].org}
    BY <2>1, <2>2, DecidedCall
  <2>4. RowsUnchanged
    BY <2>1 DEF Decided
  <2>5. WellFormed(x)'
    BY <2>1, <2>2, <2>3 DEF WellFormed
  <2>6. MemberBacked(x)'
    BY <2>1, <2>3, <2>4
       DEF MemberBacked, OwnerStays, RowsUnchanged, Live, RoleOf, IsMember, Owners
  <2>7. AcceptBacked(x)' /\ EraseBacked(x)' /\ InviteBacked(x)' /\ RevokeBacked(x)'
    BY <2>1, <2>3 DEF AcceptBacked, EraseBacked, InviteBacked, RevokeBacked
  <2>8. \A d \in Callers \ {c} : x.held \cap calls[d].held = {}
    BY <2>1, <2>3 DEF Free
  <2>9. QED
    BY <2>3, <2>4, <2>5, <2>6, <2>7, <2>8, QuietRows, CallerStep DEF Backed
<1>3. QED
  BY <1>1, <1>2

LEMMA AcceptDecidesInv ==
    ASSUME Inv, NEW c \in Callers, AcceptDecides(c)
    PROVE  Inv'
<1>1. CASE Refused(c)
  BY <1>1, RefusedInv
<1>2. CASE ~Refused(c)
  <2>1. /\ calls[c].kind \in {"accept", "join"} /\ Free(calls[c].org, c)
        /\ Decided(c, {calls[c].org}, {}) /\ Live(calls[c].org)
        /\ calls[c].kind = "accept" => ~IsMember(calls[c].actor, calls[c].org)
        /\ InviterAuthorized(calls[c].invite)
    BY <1>2 DEF AcceptDecides, At, LocksOrganization
  <2>2. WellFormed(calls[c]) /\ calls[c].org \in Orgs
    BY <2>1 DEF Inv, WellFormed
  <2>3. PICK x \in Call :
              /\ calls' = [calls EXCEPT ![c] = x]
              /\ x.kind = calls[c].kind /\ x.step = "decided" /\ x.actor = calls[c].actor
              /\ x.org = calls[c].org /\ x.role = calls[c].role
              /\ x.invite = calls[c].invite /\ x.held = {calls[c].org}
    BY <2>1, <2>2, DecidedCall
  <2>4. RowsUnchanged
    BY <2>1 DEF Decided
  <2>5. WellFormed(x)'
    BY <2>1, <2>2, <2>3, <2>4 DEF WellFormed, RowsUnchanged, Open
  <2>6. AcceptBacked(x)'
    BY <2>1, <2>3, <2>4
       DEF AcceptBacked, InviterAuthorized, RowsUnchanged, Live, RoleOf, IsMember
  <2>7. MemberBacked(x)' /\ EraseBacked(x)' /\ InviteBacked(x)' /\ RevokeBacked(x)'
    BY <2>1, <2>3 DEF MemberBacked, EraseBacked, InviteBacked, RevokeBacked
  <2>8. \A d \in Callers \ {c} : x.held \cap calls[d].held = {}
    BY <2>1, <2>3 DEF Free
  <2>9. QED
    BY <2>3, <2>4, <2>5, <2>6, <2>7, <2>8, QuietRows, CallerStep DEF Backed
<1>3. QED
  BY <1>1, <1>2

LEMMA EraseLocksUserInv ==
    ASSUME Inv, NEW c \in Callers, EraseLocksUser(c)
    PROVE  Inv'
<1>1. CASE Refused(c)
  BY <1>1, RefusedInv
<1>2. CASE ~Refused(c)
  <2>1. /\ calls[c].kind \in {"leave", "close"} /\ Free(calls[c].actor, c)
        /\ accounts[calls[c].actor] = "active" /\ RowsUnchanged
    BY <1>2 DEF EraseLocksUser, At
  <2>2. /\ WellFormed(calls[c]) /\ calls[c] \in Call /\ calls[c].actor \in Users
        /\ calls[c].kind = "close" => calls[c].org \in Orgs
    BY <2>1 DEF Inv, WellFormed, TypeOK
  <2>3. PICK toLock \in SUBSET Orgs :
          toLock = IF calls[c].kind = "leave" THEN OrganizationsOf(calls[c].actor)
                   ELSE {calls[c].org}
    BY <2>1, <2>2 DEF OrganizationsOf
  <2> DEFINE y == [calls[c] EXCEPT !.step = "locking", !.held = {calls[c].actor},
                                   !.toLock = toLock]
  <2>4. /\ y \in Call /\ y.kind = calls[c].kind /\ y.step = "locking"
        /\ y.actor = calls[c].actor /\ y.org = calls[c].org
        /\ y.held = {calls[c].actor} /\ y.toLock = toLock
    BY <2>2, <2>3 DEF Call
  <2>5. calls' = [calls EXCEPT ![c] = y]
    BY <1>2, <2>3 DEF EraseLocksUser, Inv, TypeOK
  <2> HIDE DEF y
  <2>6. PICK x \in Call : x = y
    BY <2>4
  <2>7. WellFormed(x)'
    BY <2>1, <2>2, <2>4, <2>6 DEF WellFormed
  <2>8. EraseBacked(x)'
    BY <2>1, <2>3, <2>4, <2>6
       DEF EraseBacked, OrganizationsOf, RowsUnchanged, Live, IsMember, RoleOf
  <2>9. MemberBacked(x)' /\ AcceptBacked(x)' /\ InviteBacked(x)' /\ RevokeBacked(x)'
    BY <2>1, <2>4, <2>6 DEF MemberBacked, AcceptBacked, InviteBacked, RevokeBacked
  <2>10. \A d \in Callers \ {c} : x.held \cap calls[d].held = {}
    BY <2>1, <2>4, <2>6 DEF Free
  <2>11. QED
    BY <2>1, <2>5, <2>6, <2>7, <2>8, <2>9, <2>10, QuietRows, CallerStep DEF Backed
<1>3. QED
  BY <1>1, <1>2

LEMMA EraseLocksOrganizationInv ==
    ASSUME Inv, NEW c \in Callers, EraseLocksOrganization(c)
    PROVE  Inv'
<1>1. CASE Refused(c)
  BY <1>1, RefusedInv
<1>2. CASE ~Refused(c)
  <2>1. PICK o \in Orgs : o = NextToLock(c) /\ o \in calls[c].toLock
    BY NextToLockIs DEF EraseLocksOrganization, Inv
  <2>2. /\ calls[c].kind \in {"leave", "close"} /\ calls[c].step = "locking"
        /\ Free(o, c) /\ RowsUnchanged
        /\ calls' = [calls EXCEPT ![c].held = @ \cup {o}, ![c].toLock = @ \ {o}]
    BY <1>2, <2>1 DEF EraseLocksOrganization, At, LocksOrganization
  <2>3. WellFormed(calls[c]) /\ calls[c] \in Call /\ EraseBacked(calls[c])
    BY DEF Inv, TypeOK, Backed
  <2> DEFINE y == [calls[c] EXCEPT !.held = @ \cup {o}, !.toLock = @ \ {o}]
  <2>4. /\ y \in Call /\ y.kind = calls[c].kind /\ y.step = "locking"
        /\ y.actor = calls[c].actor /\ y.org = calls[c].org
        /\ y.held = calls[c].held \cup {o} /\ y.toLock = calls[c].toLock \ {o}
    BY <2>2, <2>3 DEF Call
  <2>5. calls' = [calls EXCEPT ![c] = y]
    BY <2>2 DEF Inv, TypeOK
  <2> HIDE DEF y
  <2>6. PICK x \in Call : x = y
    BY <2>4
  <2>7. WellFormed(x)'
    BY <2>2, <2>3, <2>4, <2>6 DEF WellFormed
  <2>8. EraseBacked(x)'
    BY <2>2, <2>3, <2>4, <2>6
       DEF EraseBacked, OrganizationsOf, RowsUnchanged, Live, IsMember, RoleOf
  <2>9. MemberBacked(x)' /\ AcceptBacked(x)' /\ InviteBacked(x)' /\ RevokeBacked(x)'
    BY <2>2, <2>4, <2>6 DEF MemberBacked, AcceptBacked, InviteBacked, RevokeBacked
  <2>10. \A d \in Callers \ {c} : x.held \cap calls[d].held = {}
    BY <2>2, <2>4, <2>6 DEF Free, Inv, LocksAreExclusive
  <2>11. QED
    BY <2>2, <2>5, <2>6, <2>7, <2>8, <2>9, <2>10, QuietRows, CallerStep DEF Backed
<1>3. QED
  BY <1>1, <1>2

LEMMA EraseDecidesInv ==
    ASSUME Inv, NEW c \in Callers, EraseDecides(c)
    PROVE  Inv'
<1>1. CASE Refused(c)
  BY <1>1, RefusedInv
<1>2. CASE ~Refused(c)
  <2>1. /\ WellFormed(calls[c]) /\ calls[c] \in Call /\ EraseBacked(calls[c])
        /\ calls[c].kind \in {"leave", "close"} /\ calls[c].step = "locking"
        /\ calls[c].toLock = {}
    BY DEF Inv, TypeOK, Backed, EraseDecides, At
  <2>2. PICK dooms \in SUBSET Orgs :
          dooms = IF calls[c].kind = "leave" THEN AloneIn(calls[c].actor) ELSE {calls[c].org}
    BY <2>1 DEF WellFormed, AloneIn, OrganizationsOf
  <2> DEFINE plan == [calls[c] EXCEPT !.step = "decided", !.dooms = dooms]
  <2>3. /\ Plans(c, plan)
        /\ calls[c].kind = "leave" => ~SoleOwner(calls[c].actor)
    BY <1>2, <2>2 DEF EraseDecides
  <2>4. /\ plan \in Call /\ plan.kind = calls[c].kind /\ plan.step = "decided"
        /\ plan.actor = calls[c].actor /\ plan.org = calls[c].org /\ plan.held = calls[c].held
        /\ plan.toLock = calls[c].toLock /\ plan.dooms = dooms
    BY <2>1, <2>2 DEF Call
  <2> HIDE DEF plan
  <2>5. PICK x \in Call :
              /\ calls' = [calls EXCEPT ![c] = x]
              /\ x.kind = plan.kind /\ x.step = plan.step /\ x.actor = plan.actor
              /\ x.org = plan.org /\ x.held = plan.held /\ x.toLock = plan.toLock
              /\ x.dooms = plan.dooms
              /\ x.toClear = {i \in Invites : Touches(plan, invitations[i])}
    BY <2>3, <2>4, PlannedCall
  <2>6. RowsUnchanged
    BY <2>3 DEF Plans
  <2>7. WellFormed(x)'
    BY <2>1, <2>4, <2>5 DEF WellFormed
  <2>8. EraseBacked(x)
    <3>1. x.actor \in x.held /\ accounts[x.actor] = "active"
      BY <2>1, <2>4, <2>5 DEF EraseBacked
    <3>2. x.kind = "leave" => OrganizationsOf(x.actor) \subseteq x.held
      BY <2>1, <2>4, <2>5 DEF EraseBacked
    <3>3. x.dooms \subseteq x.held
      BY <2>1, <2>2, <2>4, <2>5, <3>2 DEF EraseBacked, AloneIn
    <3>4. ASSUME x.kind = "leave", NEW o \in OrganizationsOf(x.actor) \ x.dooms
          PROVE  Owners(o) # {x.actor}
      BY <2>2, <2>3, <2>4, <2>5, <3>4 DEF SoleOwner, AloneIn
    <3>5. Reaches(x)
      BY <2>4, <2>5 DEF Reaches, Touches, Goes
    <3>6. QED
      BY <2>1, <2>4, <2>5, <3>1, <3>2, <3>3, <3>4, <3>5 DEF EraseBacked
  <2>9. EraseBacked(x)'
    BY <2>6, <2>8
       DEF EraseBacked, Reaches, OrganizationsOf, RowsUnchanged, Live, IsMember, RoleOf, Owners
  <2>10. MemberBacked(x)' /\ AcceptBacked(x)' /\ InviteBacked(x)' /\ RevokeBacked(x)'
    BY <2>1, <2>4, <2>5 DEF MemberBacked, AcceptBacked, InviteBacked, RevokeBacked
  <2>11. \A d \in Callers \ {c} : x.held \cap calls[d].held = {}
    BY <2>4, <2>5 DEF Inv, LocksAreExclusive
  <2>12. QED
    BY <2>5, <2>6, <2>7, <2>9, <2>10, <2>11, QuietRows, CallerStep DEF Backed
<1>3. QED
  BY <1>1, <1>2

\* The erasure by address plans; it holds nothing yet.
LEMMA ForgetDecidesInv ==
    ASSUME Inv, NEW c \in Callers, ForgetDecides(c)
    PROVE  Inv'
<1>1. /\ WellFormed(calls[c]) /\ calls[c] \in Call /\ calls[c].kind = "forget"
      /\ RowsUnchanged
  BY DEF Inv, TypeOK, ForgetDecides, At, Plans
<1> DEFINE plan == [calls[c] EXCEPT !.step = "decided"]
<1>2. /\ plan \in Call /\ plan.kind = "forget" /\ plan.step = "decided"
      /\ plan.held = calls[c].held /\ plan.dooms = calls[c].dooms
  BY <1>1 DEF Call
<1>3. Plans(c, plan)
  BY DEF ForgetDecides
<1> HIDE DEF plan
<1>4. PICK x \in Call :
          /\ calls' = [calls EXCEPT ![c] = x]
          /\ x.kind = plan.kind /\ x.step = plan.step /\ x.held = plan.held
          /\ x.dooms = plan.dooms
  BY <1>2, <1>3, PlannedCall
<1>5. WellFormed(x)' /\ Backed(x)'
  BY <1>1, <1>2, <1>4 DEF WellFormed, Backed, MemberBacked, InviteBacked, RevokeBacked,
     AcceptBacked, EraseBacked
<1>6. \A d \in Callers \ {c} : x.held \cap calls[d].held = {}
  BY <1>2, <1>4 DEF Inv, LocksAreExclusive
<1>7. QED
  BY <1>1, <1>4, <1>5, <1>6, QuietRows, CallerStep

\* It comes to an invitation and, when the row is free, holds it.
LEMMA EraseReachesInv ==
    ASSUME Inv, NEW c \in Callers, EraseReaches(c) \/ EraseLocksInvitation(c)
    PROVE  Inv'
<1>1. /\ WellFormed(calls[c]) /\ calls[c] \in Call /\ EraseBacked(calls[c])
      /\ calls[c].kind \in {"leave", "close", "forget"} /\ calls[c].step = "decided"
      /\ RowsUnchanged
  BY DEF Inv, TypeOK, Backed, EraseReaches, EraseLocksInvitation, At
<1>2. PICK invite \in Invites \cup {None}, rows \in SUBSET Invites :
        /\ calls' = [calls EXCEPT ![c] = [calls[c] EXCEPT !.invite = invite,
                        !.held = calls[c].held \cup rows, !.toClear = calls[c].toClear \ rows]]
        /\ \A i \in rows : Free(i, c)
  <2>1. CASE EraseReaches(c)
    <3>1. PICK i \in calls[c].toClear : calls' = [calls EXCEPT ![c].invite = i]
      BY <2>1 DEF EraseReaches
    <3>2. i \in Invites
      BY <1>1 DEF Call
    <3>3. [calls[c] EXCEPT !.invite = i, !.held = calls[c].held \cup {},
                           !.toClear = calls[c].toClear \ {}] = [calls[c] EXCEPT !.invite = i]
      BY <1>1 DEF Call
    <3>4. calls' = [calls EXCEPT ![c] = [calls[c] EXCEPT !.invite = i,
                       !.held = calls[c].held \cup {}, !.toClear = calls[c].toClear \ {}]]
      BY <3>1, <3>3 DEF Inv, TypeOK
    <3>5. {} \in SUBSET Invites /\ \A j \in {} : Free(j, c)
      OBVIOUS
    <3>6. QED
      BY <3>2, <3>4, <3>5, Zenon
  <2>2. CASE EraseLocksInvitation(c)
    <3>1. PICK i \in Invites : i = calls[c].invite
      BY <1>1, <2>2 DEF EraseLocksInvitation, Call
    <3>2. /\ Free(i, c)
          /\ calls' = [calls EXCEPT ![c].invite = None, ![c].held = @ \cup {i},
                                    ![c].toClear = @ \ {i}]
      BY <2>2, <3>1 DEF EraseLocksInvitation
    <3>3. calls' = [calls EXCEPT ![c] = [calls[c] EXCEPT !.invite = None,
                       !.held = calls[c].held \cup {i}, !.toClear = calls[c].toClear \ {i}]]
      BY <3>2 DEF Inv, TypeOK
    <3>4. {i} \in SUBSET Invites /\ \A j \in {i} : Free(j, c)
      BY <3>2
    <3>5. None \in Invites \cup {None}
      OBVIOUS
    <3>6. QED
      BY <3>3, <3>4, <3>5, Zenon
  <2>3. QED
    BY <2>1, <2>2
<1> DEFINE y == [calls[c] EXCEPT !.invite = invite, !.held = calls[c].held \cup rows,
                                 !.toClear = calls[c].toClear \ rows]
<1>3. /\ y \in Call /\ y.kind = calls[c].kind /\ y.step = "decided"
      /\ y.actor = calls[c].actor /\ y.org = calls[c].org /\ y.toLock = calls[c].toLock
      /\ y.dooms = calls[c].dooms /\ y.held = calls[c].held \cup rows
      /\ y.toClear = calls[c].toClear \ rows
  BY <1>1 DEF Call
<1>4. calls' = [calls EXCEPT ![c] = y]
  BY <1>2
<1> HIDE DEF y
<1>5. PICK x \in Call : x = y
  BY <1>3
<1>6. WellFormed(x)'
  BY <1>1, <1>3, <1>5 DEF WellFormed
<1>7. EraseBacked(x)
  <2>1. Reaches(calls[c]) => Reaches(x)
    BY <1>3, <1>5 DEF Reaches
  <2>2. QED
    BY <1>1, <1>3, <1>5, <2>1 DEF EraseBacked
<1>8. EraseBacked(x)'
  BY <1>1, <1>7
     DEF EraseBacked, Reaches, OrganizationsOf, RowsUnchanged, Live, IsMember, RoleOf, Owners
<1>9. MemberBacked(x)' /\ AcceptBacked(x)' /\ InviteBacked(x)' /\ RevokeBacked(x)'
  BY <1>1, <1>3, <1>5 DEF MemberBacked, AcceptBacked, InviteBacked, RevokeBacked
<1>10. \A d \in Callers \ {c} : x.held \cap calls[d].held = {}
  BY <1>2, <1>3, <1>5 DEF Free, Inv, LocksAreExclusive
<1>11. QED
  BY <1>1, <1>4, <1>5, <1>6, <1>8, <1>9, <1>10, QuietRows, CallerStep DEF Backed

\* A call that locks the invitations it writes, and decides nothing else.
LEMMA LocksInvitationInv ==
    ASSUME Inv, NEW c \in Callers, InviteSupersedes(c) \/ RevokeUpdates(c)
    PROVE  Inv'
<1>1. CASE Refused(c)
  BY <1>1, RefusedInv
<1>2. CASE ~Refused(c)
  <2>1. PICK rows \in SUBSET Invites :
          /\ Decided(c, rows, {}) /\ \A i \in rows : Open(i) /\ Free(i, c)
          /\ calls[c].kind \in {"invite", "revoke"}
          /\ calls[c].kind = "revoke" => rows = {calls[c].invite}
    <3>1. CASE InviteSupersedes(c)
      <4>1. {calls[c].invite} \ {None} \in SUBSET Invites
        BY DEF Inv, TypeOK, Call
      <4>2. QED
        BY <3>1, <4>1 DEF InviteSupersedes, At
    <3>2. CASE RevokeUpdates(c)
      <4>1. calls[c].invite \in Invites
        BY <3>2 DEF RevokeUpdates, At, Inv, WellFormed
      <4>2. QED
        BY <1>2, <3>2, <4>1 DEF RevokeUpdates, StillPending, At
    <3>3. QED
      BY <3>1, <3>2
  <2>2. WellFormed(calls[c]) /\ RowsUnchanged
    BY <2>1 DEF Inv, Decided
  <2>3. PICK x \in Call :
              /\ calls' = [calls EXCEPT ![c] = x]
              /\ x.kind = calls[c].kind /\ x.step = "decided" /\ x.actor = calls[c].actor
              /\ x.org = calls[c].org /\ x.target = calls[c].target /\ x.role = calls[c].role
              /\ x.invite = calls[c].invite /\ x.held = rows
    BY <2>1, DecidedCall
  <2>4. WellFormed(x)'
    BY <2>1, <2>2, <2>3 DEF WellFormed, RowsUnchanged, Open
  <2>5. InviteBacked(x)' /\ RevokeBacked(x)'
    BY <2>1, <2>2, <2>3 DEF InviteBacked, RevokeBacked, RowsUnchanged, Open
  <2>6. MemberBacked(x)' /\ AcceptBacked(x)' /\ EraseBacked(x)'
    BY <2>1, <2>3 DEF MemberBacked, AcceptBacked, EraseBacked
  <2>7. \A d \in Callers \ {c} : x.held \cap calls[d].held = {}
    BY <2>1, <2>3 DEF Free
  <2>8. QED
    BY <2>2, <2>3, <2>4, <2>5, <2>6, <2>7, QuietRows, CallerStep DEF Backed
<1>3. QED
  BY <1>1, <1>2

\* An invitation that is claimed is open, and held with its organization.
LEMMA AcceptClaimsInv ==
    ASSUME Inv, NEW c \in Callers, AcceptClaims(c)
    PROVE  Inv'
<1>1. CASE Refused(c)
  BY <1>1, RefusedInv
<1>2. CASE ~Refused(c)
  <2>1. /\ WellFormed(calls[c]) /\ calls[c] \in Call /\ AcceptBacked(calls[c])
        /\ calls[c].kind \in {"accept", "join"} /\ calls[c].step = "decided"
    BY DEF Inv, TypeOK, Backed, AcceptClaims, At
  <2>2. PICK i \in Invites : i = calls[c].invite
    BY <2>1 DEF WellFormed
  <2>3. /\ Free(i, c) /\ Open(i) /\ RowsUnchanged
        /\ calls' = [calls EXCEPT ![c].step = "claimed", ![c].held = @ \cup {i}]
    BY <1>2, <2>2 DEF AcceptClaims, StillPending
  <2> DEFINE y == [calls[c] EXCEPT !.step = "claimed", !.held = calls[c].held \cup {i}]
  <2>4. /\ y \in Call /\ y.kind = calls[c].kind /\ y.step = "claimed"
        /\ y.actor = calls[c].actor /\ y.org = calls[c].org /\ y.role = calls[c].role
        /\ y.invite = i /\ y.held = calls[c].held \cup {i}
    BY <2>1, <2>2 DEF Call
  <2>5. calls' = [calls EXCEPT ![c] = y]
    BY <2>3 DEF Inv, TypeOK
  <2> HIDE DEF y
  <2>6. PICK x \in Call : x = y
    BY <2>4
  <2>7. WellFormed(x)'
    BY <2>1, <2>2, <2>3, <2>4, <2>6 DEF WellFormed, RowsUnchanged, Open
  <2>8. AcceptBacked(x)'
    BY <2>1, <2>2, <2>3, <2>4, <2>6
       DEF AcceptBacked, InviterAuthorized, RowsUnchanged, Live, RoleOf, IsMember, Open
  <2>9. MemberBacked(x)' /\ EraseBacked(x)' /\ InviteBacked(x)' /\ RevokeBacked(x)'
    BY <2>1, <2>4, <2>6 DEF MemberBacked, EraseBacked, InviteBacked, RevokeBacked
  <2>10. \A d \in Callers \ {c} : x.held \cap calls[d].held = {}
    BY <2>3, <2>4, <2>6 DEF Free, Inv, LocksAreExclusive
  <2>11. QED
    BY <2>3, <2>5, <2>6, <2>7, <2>8, <2>9, <2>10, QuietRows, CallerStep DEF Backed
<1>3. QED
  BY <1>1, <1>2

-----------------------------------------------------------------------------
(***************************************************************************)
(* The steps that write rows.                                              *)
(***************************************************************************)

\* A membership write of a call that holds the organization.
LEMMA MemberCommitsInv ==
    ASSUME Inv, NEW c \in Callers, MemberCommits(c)
    PROVE  Inv'
<1>1. CASE Refused(c)
  BY <1>1, RefusedInv
<1>2. CASE ~Refused(c)
  <2>1. PICK o \in Orgs, t \in Users : o = calls[c].org /\ t = calls[c].target
    BY DEF MemberCommits, At, Inv, WellFormed
  <2>2. PICK role \in Roles \cup {"none"} :
          role = IF calls[c].kind = "role" /\ members[o][t] # "none" THEN calls[c].role ELSE "none"
    BY DEF Inv, TypeOK, Call
  <2>3. /\ members' = [members EXCEPT ![o][t] = role]
        /\ Ends(c) /\ accounts' = accounts /\ orgs' = orgs /\ invitations' = invitations
    BY <1>2, <2>1, <2>2 DEF MemberCommits, Inv, TypeOK
  <2>4. /\ members' \in [Orgs -> [Users -> Roles \cup {"none"}]]
        /\ \A p \in Orgs \ {o} : members'[p] = members[p]
        /\ \A v \in Users \ {t} : members'[o][v] = members[o][v]
        /\ members'[o][t] = role
    BY <2>3 DEF Inv, TypeOK
  <2>5. o \in calls[c].held /\ Live(o) /\ RoleOf(t, o) # "none"
    BY <2>1 DEF MemberCommits, At, Inv, Backed, MemberBacked
  <2>6. \A p \in Orgs, v \in Users : IsMember(v, p)' => IsMember(v, p)
    BY <2>1, <2>4, <2>5 DEF IsMember, RoleOf
  <2>7. MembersAreActive' /\ InvitationsSound'
    BY <2>3, <2>6 DEF Inv, MembersAreActive, InvitationsSound, Live
  <2>8. InvitationsKept
    BY <2>3 DEF InvitationsKept, Open
  <2>9. ASSUME NEW d \in Callers \ {c} PROVE RowsKept(d)
    <3>1. o \notin calls[d].held
      BY <2>5 DEF Inv, LocksAreExclusive
    <3>2. HeldKept(d) /\ NamesKept(d)
      BY <2>3 DEF HeldKept, NamesKept, Open
    <3>3. QED
      BY <2>3, <2>4, <2>6, <3>1, <3>2 DEF RowsKept, OrgsKept, AccountsKept, Live
  <2>10. RowsFine(Callers \ {c})
    BY <2>3, <2>4, <2>7, <2>8, <2>9 DEF RowsFine, Inv, TypeOK
  <2>11. QED
    BY <2>3, <2>10, EndsInv
<1>3. QED
  BY <1>1, <1>2

\* Steps that write invitations alone, for the callers of D.
LEMMA InvitationsOnly ==
    ASSUME Inv, accounts' = accounts, orgs' = orgs, members' = members,
           invitations' \in [Invites -> Invitation], InvitationsSound', InvitationsKept,
           NEW D \in SUBSET Callers, \A d \in D : HeldKept(d) /\ NamesKept(d)
    PROVE  RowsFine(D)
<1>1. MembersAreActive'
  BY DEF Inv, MembersAreActive, IsMember, RoleOf, Live
<1>2. \A d \in D : RowsKept(d)
  BY DEF RowsKept, OrgsKept, AccountsKept, IsMember, RoleOf, Live
<1>3. QED
  BY <1>1, <1>2 DEF RowsFine, Inv, TypeOK

LEMMA InviteCommitsInv ==
    ASSUME Inv, NEW c \in Callers, InviteCommits(c)
    PROVE  Inv'
<1>1. CASE Refused(c)
  BY <1>1, RefusedInv
<1>2. CASE ~Refused(c)
  <2>1. PICK o \in Orgs, email \in Users, role \in Invitable, by \in Users :
          o = calls[c].org /\ email = calls[c].target /\ role = calls[c].role /\ by = calls[c].actor
    BY DEF InviteCommits, At, Inv, WellFormed
  <2>2. PICK i \in Unused : i = CHOOSE j \in Unused : TRUE
    BY <1>2 DEF InviteCommits
  <2>3. i \in Invites /\ invitations[i].state = "none"
    BY <2>2 DEF Unused
  <2> DEFINE fresh == [NoInvitation EXCEPT !.state = "open", !.org = o, !.email = email,
                                           !.role = role, !.by = by]
             gone(j) == [invitations[j] EXCEPT !.state = "revoked"]
  <2>4. /\ invitations' = [j \in Invites |->
                  IF j = i THEN fresh
                  ELSE IF j \in calls[c].held THEN gone(j) ELSE invitations[j]]
        /\ Ends(c) /\ accounts' = accounts /\ orgs' = orgs /\ members' = members
        /\ Free(o, c) /\ Free(by, c)
    BY <1>2, <2>1, <2>2 DEF InviteCommits
  <2>5. /\ fresh \in Invitation /\ fresh.state = "open" /\ fresh.org = o /\ fresh.email = email
        /\ fresh.by = by /\ fresh.acceptedBy = None
    BY DEF NoInvitation, Invitation, Invitable
  <2>6. ASSUME NEW j \in Invites
        PROVE  /\ invitations[j] \in Invitation /\ gone(j) \in Invitation
               /\ gone(j).state = "revoked" /\ gone(j).org = invitations[j].org
               /\ gone(j).email = invitations[j].email /\ gone(j).by = invitations[j].by
               /\ gone(j).acceptedBy = invitations[j].acceptedBy
    <3>1. invitations[j] \in Invitation
      BY DEF Inv, TypeOK
    <3>2. QED
      BY <3>1 DEF Invitation
  <2> HIDE DEF fresh, gone
  <2>7. invitations' \in [Invites -> Invitation]
    BY <2>4, <2>5, <2>6
  <2>8. \A j \in Invites : j \in calls[c].held => Open(j)
    BY DEF InviteCommits, At, Inv, Backed, InviteBacked
  <2>9. InvitationsSound'
    BY <2>4, <2>5, <2>6, <2>8 DEF Inv, InvitationsSound, Open
  <2>10. InvitationsKept
    BY <2>3, <2>4, <2>6 DEF InvitationsKept, Open
  <2>11. ASSUME NEW d \in Callers \ {c} PROVE HeldKept(d) /\ NamesKept(d)
    <3>1. o \notin calls[d].held /\ by \notin calls[d].held
      BY <2>4 DEF Free
    <3>2. calls[c].held \cap calls[d].held = {}
      BY DEF Inv, LocksAreExclusive
    <3>3. HeldKept(d)
      BY <2>3, <2>4, <3>2 DEF HeldKept, Open
    <3>4. ASSUME NEW j \in Invites
          PROVE  /\ invitations'[j].org \in {invitations[j].org, o}
                 /\ invitations'[j].by \in {invitations[j].by, by}
                 /\ invitations'[j].acceptedBy \in {invitations[j].acceptedBy, None}
      BY <2>4, <2>5, <2>6
    <3>5. NamesKept(d)
      BY <3>1, <3>4, NoneIsNothing DEF NamesKept
    <3>6. QED
      BY <3>3, <3>5
  <2>12. QED
    BY <2>4, <2>7, <2>9, <2>10, <2>11, InvitationsOnly, EndsInv
<1>3. QED
  BY <1>1, <1>2

LEMMA RevokeCommitsInv ==
    ASSUME Inv, NEW c \in Callers, RevokeCommits(c)
    PROVE  Inv'
<1>1. CASE Refused(c)
  BY <1>1, RefusedInv
<1>2. CASE ~Refused(c)
  <2>1. PICK i \in Invites : i = calls[c].invite
    BY DEF RevokeCommits, At, Inv, WellFormed
  <2>2. /\ invitations' = [invitations EXCEPT ![i].state = "revoked"]
        /\ Ends(c) /\ accounts' = accounts /\ orgs' = orgs /\ members' = members
    BY <1>2, <2>1 DEF RevokeCommits
  <2>20. i \in calls[c].held /\ Open(i)
    BY <2>1 DEF RevokeCommits, At, Inv, Backed, RevokeBacked
  <2>3. invitations' \in [Invites -> Invitation]
    <3>1. [invitations[i] EXCEPT !.state = "revoked"] \in Invitation
      BY DEF Inv, TypeOK, Invitation
    <3>2. QED
      BY <2>2, <3>1 DEF Inv, TypeOK
  <2>4. /\ invitations'[i].state = "revoked" /\ invitations'[i].org = invitations[i].org
        /\ invitations'[i].email = invitations[i].email /\ invitations'[i].by = invitations[i].by
        /\ invitations'[i].acceptedBy = invitations[i].acceptedBy
        /\ \A j \in Invites \ {i} : invitations'[j] = invitations[j]
    BY <2>2 DEF Inv, TypeOK, Invitation
  <2>5. InvitationsSound'
    BY <2>20, <2>4 DEF Inv, InvitationsSound, Open
  <2>6. InvitationsKept
    BY <2>4 DEF InvitationsKept, Open
  <2>7. ASSUME NEW d \in Callers \ {c} PROVE HeldKept(d) /\ NamesKept(d)
    <3>1. i \notin calls[d].held
      BY <2>20 DEF Inv, LocksAreExclusive
    <3>2. QED
      BY <2>4, <3>1 DEF HeldKept, NamesKept, Open
  <2>8. QED
    BY <2>2, <2>3, <2>5, <2>6, <2>7, InvitationsOnly, EndsInv
<1>3. QED
  BY <1>1, <1>2

LEMMA InvitationExpiresInv ==
    ASSUME Inv, NEW i \in Invites, InvitationExpires(i)
    PROVE  Inv'
<1>1. /\ invitations' = [invitations EXCEPT ![i].expired = TRUE] /\ calls' = calls
      /\ accounts' = accounts /\ orgs' = orgs /\ members' = members
  BY DEF InvitationExpires
<1>2. invitations' \in [Invites -> Invitation]
  <2>1. [invitations[i] EXCEPT !.expired = TRUE] \in Invitation
    BY DEF Inv, TypeOK, Invitation
  <2>2. QED
    BY <1>1, <2>1 DEF Inv, TypeOK
<1>3. \A j \in Invites :
         /\ invitations'[j].state = invitations[j].state /\ invitations'[j].org = invitations[j].org
         /\ invitations'[j].email = invitations[j].email /\ invitations'[j].by = invitations[j].by
         /\ invitations'[j].role = invitations[j].role
         /\ invitations'[j].acceptedBy = invitations[j].acceptedBy
  BY <1>1 DEF Inv, TypeOK, Invitation
<1>4. InvitationsSound' /\ InvitationsKept
  BY <1>3 DEF Inv, InvitationsSound, InvitationsKept, Open
<1>5. \A d \in Callers : HeldKept(d) /\ NamesKept(d)
  BY <1>3 DEF HeldKept, NamesKept, Open
<1>6. QED
  BY <1>1, <1>2, <1>4, <1>5, InvitationsOnly, NobodyStep

\* The membership an invitation gives: nobody else holds the organization or the account.
LEMMA AcceptCommitsInv ==
    ASSUME Inv, NEW c \in Callers, AcceptCommits(c)
    PROVE  Inv'
<1>1. CASE Refused(c)
  BY <1>1, RefusedInv
<1>2. CASE ~Refused(c)
  <2>1. PICK o \in Orgs, u \in Users, role \in Invitable, i \in Invites :
          o = calls[c].org /\ u = calls[c].actor /\ role = calls[c].role /\ i = calls[c].invite
    BY DEF AcceptCommits, At, Inv, WellFormed
  <2>2. /\ accounts' = [accounts EXCEPT ![u] = "active"]
        /\ members' = [members EXCEPT ![o][u] = role]
        /\ invitations' = [invitations EXCEPT ![i].state = "accepted", ![i].acceptedBy = u]
        /\ Ends(c) /\ orgs' = orgs /\ Free(u, c)
    BY <1>2, <2>1 DEF AcceptCommits
  <2>3. o \in calls[c].held /\ Live(o) /\ i \in calls[c].held /\ Open(i)
    BY <2>1 DEF AcceptCommits, At, Inv, Backed, AcceptBacked
  <2>4. /\ accounts' \in [Users -> {"unregistered", "active", "deleted"}]
        /\ members' \in [Orgs -> [Users -> Roles \cup {"none"}]]
        /\ \A p \in Orgs \ {o} : members'[p] = members[p]
        /\ \A v \in Users \ {u} : members'[o][v] = members[o][v]
        /\ accounts'[u] = "active" /\ \A v \in Users \ {u} : accounts'[v] = accounts[v]
    BY <2>2 DEF Inv, TypeOK, Invitable
  <2> DEFINE used == [[invitations[i] EXCEPT !.state = "accepted"] EXCEPT !.acceptedBy = u]
  <2>5. /\ used \in Invitation /\ used.state = "accepted" /\ used.org = invitations[i].org
        /\ used.email = invitations[i].email /\ used.by = invitations[i].by
        /\ used.acceptedBy = u
    <3>1. invitations[i] \in Invitation
      BY DEF Inv, TypeOK
    <3>2. QED
      BY <3>1 DEF Invitation
  <2>6. invitations' = [invitations EXCEPT ![i] = used]
    BY <2>2 DEF Inv, TypeOK
  <2> HIDE DEF used
  <2>7. invitations' \in [Invites -> Invitation]
    BY <2>5, <2>6 DEF Inv, TypeOK
  <2>8. /\ invitations'[i] = used
        /\ \A j \in Invites \ {i} : invitations'[j] = invitations[j]
    BY <2>6 DEF Inv, TypeOK
  <2>9. InvitationsSound' /\ InvitationsKept
    BY <2>3, <2>5, <2>8 DEF Inv, InvitationsSound, InvitationsKept, Open
  <2>10. MembersAreActive'
    <3> SUFFICES ASSUME NEW p \in Orgs, NEW v \in Users, IsMember(v, p)'
                 PROVE  Live(p)' /\ accounts'[v] = "active"
      BY DEF MembersAreActive
    <3>1. CASE p = o /\ v = u
      BY <2>2, <2>3, <2>4, <3>1 DEF Live
    <3>2. CASE ~(p = o /\ v = u)
      <4>1. IsMember(v, p)
        BY <2>4, <3>2 DEF IsMember, RoleOf
      <4>2. Live(p) /\ accounts[v] = "active"
        BY <4>1 DEF Inv, MembersAreActive
      <4>3. QED
        BY <2>2, <2>4, <4>2 DEF Live
    <3>3. QED
      BY <3>1, <3>2
  <2>11. ASSUME NEW d \in Callers \ {c} PROVE RowsKept(d)
    <3>1. o \notin calls[d].held /\ u \notin calls[d].held /\ i \notin calls[d].held
      BY <2>2, <2>3 DEF Inv, LocksAreExclusive, Free
    <3>2. OrgsKept(d)
      BY <2>2, <2>4, <3>1 DEF OrgsKept, Live
    <3>3. AccountsKept(d)
      BY <2>2, <2>4, <3>1 DEF AccountsKept, Live, IsMember, RoleOf
    <3>4. HeldKept(d) /\ NamesKept(d)
      BY <2>5, <2>8, <3>1 DEF HeldKept, NamesKept, Open
    <3>5. QED
      BY <3>2, <3>3, <3>4 DEF RowsKept
  <2>12. RowsFine(Callers \ {c})
    BY <2>2, <2>4, <2>7, <2>9, <2>10, <2>11 DEF RowsFine, Inv, TypeOK
  <2>13. QED
    BY <2>2, <2>12, EndsInv
<1>3. QED
  BY <1>1, <1>2

\* A new account with a new organization: no call can hold either yet.
LEMMA RegisterInv ==
    ASSUME Inv, NEW c \in Callers, Register(c)
    PROVE  Inv'
<1>1. PICK u \in Users, o \in Orgs :
        /\ accounts[u] = "unregistered" /\ orgs[o] = "absent"
        /\ accounts' = [accounts EXCEPT ![u] = "active"]
        /\ orgs' = [orgs EXCEPT ![o] = "live"]
        /\ members' = [members EXCEPT ![o][u] = "owner"]
        /\ invitations' = invitations /\ calls' = calls
  BY DEF Register
<1>2. /\ accounts' \in [Users -> {"unregistered", "active", "deleted"}]
      /\ orgs' \in [Orgs -> {"absent", "live", "deleted"}]
      /\ members' \in [Orgs -> [Users -> Roles \cup {"none"}]]
      /\ \A p \in Orgs \ {o} : members'[p] = members[p] /\ orgs'[p] = orgs[p]
      /\ \A v \in Users \ {u} : members'[o][v] = members[o][v] /\ accounts'[v] = accounts[v]
      /\ accounts'[u] = "active" /\ orgs'[o] = "live"
  BY <1>1 DEF Inv, TypeOK, Roles
<1>3. ASSUME NEW p \in Orgs, NEW v \in Users, IsMember(v, p)', ~(p = o /\ v = u)
      PROVE  IsMember(v, p) /\ p # o /\ v # u
  <2>1. IsMember(v, p)
    BY <1>2, <1>3 DEF IsMember, RoleOf
  <2>2. Live(p) /\ accounts[v] = "active"
    BY <2>1 DEF Inv, MembersAreActive
  <2>3. QED
    BY <1>1, <2>1, <2>2 DEF Live
<1>4. MembersAreActive'
  <2> SUFFICES ASSUME NEW p \in Orgs, NEW v \in Users, IsMember(v, p)'
               PROVE  Live(p)' /\ accounts'[v] = "active"
    BY DEF MembersAreActive
  <2>1. CASE p = o /\ v = u
    BY <1>2, <2>1 DEF Live
  <2>2. CASE ~(p = o /\ v = u)
    <3>1. IsMember(v, p) /\ p # o /\ v # u
      BY <1>3, <2>2
    <3>2. Live(p) /\ accounts[v] = "active"
      BY <3>1 DEF Inv, MembersAreActive
    <3>3. QED
      BY <1>2, <3>1, <3>2 DEF Live
  <2>3. QED
    BY <2>1, <2>2
<1>5. ASSUME NEW d \in Callers PROVE RowsKept(d)
  <2>1. OrgsKept(d)
    BY <1>1, <1>2 DEF OrgsKept, Live
  <2>2. ASSUME NEW v \in Users, accounts[v] = "active"
        PROVE  /\ accounts'[v] = "active"
               /\ \A p \in Orgs : Live(p)' /\ IsMember(v, p)' => Live(p) /\ IsMember(v, p)
    <3>1. v # u
      BY <1>1, <2>2
    <3>2. \A p \in Orgs : IsMember(v, p)' => IsMember(v, p) /\ Live(p)
      BY <1>3, <3>1 DEF Inv, MembersAreActive
    <3>3. QED
      BY <1>2, <2>2, <3>1, <3>2
  <2>3. HeldKept(d) /\ NamesKept(d)
    BY <1>1 DEF HeldKept, NamesKept, Open
  <2>4. QED
    BY <2>1, <2>2, <2>3 DEF AccountsKept, RowsKept
<1>6. InvitationsSound' /\ InvitationsKept
  BY <1>1 DEF Inv, InvitationsSound, InvitationsKept, Open
<1>7. QED
  BY <1>1, <1>2, <1>4, <1>5, <1>6, NobodyStep DEF RowsFine, Inv, TypeOK

\* An erasure: the organizations that go are held, and so is each one the account leaves.
LEMMA EraseCommitsFacts ==
    ASSUME Inv, NEW c \in Callers, EraseCommits(c), NEW o \in Orgs, NEW v \in Users
    PROVE  /\ o \in calls[c].dooms => o \in calls[c].held /\ orgs'[o] = "deleted"
                                        /\ members'[o][v] = "none"
           /\ o \notin calls[c].dooms => orgs'[o] = orgs[o]
           /\ members'[o][v] \in {RoleOf(v, o), "none"}
           /\ members'[o][v] # RoleOf(v, o) => o \in calls[c].held
           /\ accounts'[v] # accounts[v] => /\ v = calls[c].actor /\ v \in calls[c].held
                                            /\ calls[c].kind = "leave"
                                            /\ accounts'[v] = "deleted"
           /\ calls[c].kind = "leave" /\ v = calls[c].actor =>
                 accounts'[v] = "deleted" /\ members'[o][v] = "none"
<1>1. /\ calls[c].kind \in {"leave", "close", "forget"} /\ calls[c].step = "decided"
      /\ EraseBacked(calls[c]) /\ WellFormed(calls[c])
  BY DEF EraseCommits, At, Inv, Backed
<1>2. /\ calls[c].dooms \subseteq calls[c].held
      /\ calls[c].kind = "leave" => /\ calls[c].actor \in calls[c].held
                                    /\ calls[c].actor \in Users
                                    /\ OrganizationsOf(calls[c].actor) \subseteq calls[c].held
  BY <1>1 DEF EraseBacked, WellFormed
<1>3. /\ accounts' = IF calls[c].kind = "leave"
                     THEN [accounts EXCEPT ![calls[c].actor] = "deleted"] ELSE accounts
      /\ orgs'[o] = IF o \in calls[c].dooms THEN "deleted" ELSE orgs[o]
      /\ members'[o][v] = IF \/ o \in calls[c].dooms
                             \/ calls[c].kind = "leave" /\ v = calls[c].actor
                          THEN "none" ELSE members[o][v]
  BY DEF EraseCommits
<1>4. members'[o][v] # RoleOf(v, o) => o \in calls[c].held
  <2> SUFFICES ASSUME members'[o][v] # RoleOf(v, o), o \notin calls[c].dooms
               PROVE  o \in calls[c].held
    BY <1>2
  <2>1. calls[c].kind = "leave" /\ v = calls[c].actor /\ IsMember(v, o)
    BY <1>3 DEF RoleOf, IsMember
  <2>2. o \in OrganizationsOf(v)
    BY <2>1 DEF Inv, MembersAreActive, OrganizationsOf
  <2>3. QED
    BY <1>2, <2>1, <2>2
<1>5. accounts'[v] # accounts[v] =>
         /\ v = calls[c].actor /\ v \in calls[c].held /\ calls[c].kind = "leave"
         /\ accounts'[v] = "deleted"
  BY <1>1, <1>2, <1>3 DEF Inv, TypeOK
<1>6. QED
  BY <1>1, <1>2, <1>3, <1>4, <1>5 DEF RoleOf, Inv, TypeOK

\* What it does to an invitation.
LEMMA EraseCommitsInvitations ==
    ASSUME Inv, NEW c \in Callers, EraseCommits(c), NEW i \in Invites
    PROVE  /\ invitations'[i] \in Invitation
           /\ \/ invitations'[i] = invitations[i]
              \/ i \in calls[c].held /\ invitations'[i] = Erased
              \/ /\ i \in calls[c].held /\ calls[c].kind = "leave"
                 /\ invitations'[i] = Cleared(invitations[i], calls[c].actor)
                 /\ invitations'[i].state = invitations[i].state
                 /\ invitations'[i].org = invitations[i].org
                 /\ invitations'[i].email = invitations[i].email
                 /\ invitations'[i].role = invitations[i].role
                 /\ \/ invitations'[i].by = invitations[i].by
                    \/ invitations'[i].by = None /\ invitations[i].by = calls[c].actor
                 /\ invitations'[i].acceptedBy \in {invitations[i].acceptedBy, None}
           /\ invitations'[i].org \notin calls[c].dooms
           /\ calls[c].kind = "leave" =>
                 calls[c].actor \notin {invitations'[i].by, invitations'[i].acceptedBy}
<1>1. /\ invitations[i] \in Invitation /\ calls[c].dooms \in SUBSET Orgs
      /\ calls[c].kind \in {"leave", "close", "forget"} /\ calls[c].step = "decided"
      /\ calls[c].toClear = {} /\ WellFormed(calls[c]) /\ EraseBacked(calls[c])
  BY DEF Inv, TypeOK, Call, EraseCommits, At, Backed
<1>2. invitations'[i] =
         IF i \notin calls[c].held THEN invitations[i]
         ELSE IF Goes(calls[c], invitations[i]) THEN Erased
         ELSE IF calls[c].kind = "leave" THEN Cleared(invitations[i], calls[c].actor)
         ELSE invitations[i]
  BY DEF EraseCommits
<1>3. ASSUME NEW u
      PROVE  /\ Cleared(invitations[i], u) \in Invitation
             /\ Cleared(invitations[i], u).state = invitations[i].state
             /\ Cleared(invitations[i], u).org = invitations[i].org
             /\ Cleared(invitations[i], u).email = invitations[i].email
             /\ Cleared(invitations[i], u).role = invitations[i].role
             /\ Cleared(invitations[i], u).by =
                   IF invitations[i].by = u THEN None ELSE invitations[i].by
             /\ Cleared(invitations[i], u).acceptedBy =
                   IF invitations[i].acceptedBy = u THEN None ELSE invitations[i].acceptedBy
  BY <1>1 DEF Cleared, Invitation
<1>4. /\ Erased \in Invitation /\ Erased.org \notin Orgs /\ Erased.by = None
      /\ Erased.acceptedBy = None
  BY ErasedType, NoneIsNothing DEF Erased, NoInvitation
<1>5. /\ invitations[i].org \in calls[c].dooms => i \in calls[c].held
      /\ calls[c].kind = "leave" /\ calls[c].actor \in {invitations[i].by, invitations[i].acceptedBy}
            => i \in calls[c].held
  BY <1>1 DEF EraseBacked, Reaches, WellFormed
<1>6. invitations[i].org \in calls[c].dooms => Goes(calls[c], invitations[i])
  BY DEF Goes
<1>7. calls[c].kind = "leave" => calls[c].actor # None
  BY <1>1, NoneIsNothing DEF WellFormed
<1>8. CASE invitations'[i] = Erased /\ i \in calls[c].held
  BY <1>1, <1>4, <1>7, <1>8
<1>9. CASE /\ i \in calls[c].held /\ calls[c].kind = "leave"
           /\ invitations'[i] = Cleared(invitations[i], calls[c].actor)
           /\ invitations[i].org \notin calls[c].dooms
  BY <1>3, <1>7, <1>9
<1>10. CASE /\ invitations'[i] = invitations[i] /\ invitations[i].org \notin calls[c].dooms
            /\ i \notin calls[c].held \/ calls[c].kind # "leave"
  BY <1>1, <1>5, <1>10
<1>11. QED
  BY <1>2, <1>5, <1>6, <1>8, <1>9, <1>10

LEMMA EraseCommitsInv ==
    ASSUME Inv, NEW c \in Callers, EraseCommits(c)
    PROVE  Inv'
<1>1. /\ accounts' \in [Users -> {"unregistered", "active", "deleted"}]
      /\ orgs' \in [Orgs -> {"absent", "live", "deleted"}]
      /\ members' \in [Orgs -> [Users -> Roles \cup {"none"}]]
  BY DEF EraseCommits, Inv, TypeOK
<1>2. invitations' \in [Invites -> Invitation]
  BY EraseCommitsInvitations DEF EraseCommits
<1>3. InvitationsSound'
  <2> SUFFICES ASSUME NEW i \in Invites
               PROVE  /\ invitations'[i].state \in {"none", "erased"} =>
                            /\ invitations'[i].org = None /\ invitations'[i].by = None
                            /\ invitations'[i].acceptedBy = None
                      /\ invitations'[i].state \notin {"none", "erased"} =>
                            invitations'[i].org \in Orgs /\ invitations'[i].email \in Users
    BY DEF InvitationsSound
  <2>1. /\ Erased.state = "erased" /\ Erased.org = None /\ Erased.by = None
        /\ Erased.acceptedBy = None
    BY DEF Erased, NoInvitation
  <2>2. \/ invitations'[i] = invitations[i] \/ invitations'[i] = Erased
        \/ /\ invitations'[i].state = invitations[i].state
           /\ invitations'[i].org = invitations[i].org
           /\ invitations'[i].email = invitations[i].email
           /\ invitations'[i].by \in {invitations[i].by, None}
           /\ invitations'[i].acceptedBy \in {invitations[i].acceptedBy, None}
    BY EraseCommitsInvitations
  <2>3. QED
    BY <2>1, <2>2 DEF Inv, InvitationsSound
<1>4. MembersAreActive'
  <2> SUFFICES ASSUME NEW o \in Orgs, NEW v \in Users, IsMember(v, o)'
               PROVE  Live(o)' /\ accounts'[v] = "active"
    BY DEF MembersAreActive
  <2>1. IsMember(v, o) /\ o \notin calls[c].dooms
    BY EraseCommitsFacts DEF IsMember, RoleOf
  <2>2. Live(o) /\ accounts[v] = "active"
    BY <2>1 DEF Inv, MembersAreActive
  <2>3. Live(o)'
    BY <2>1, <2>2, EraseCommitsFacts DEF Live
  <2>4. accounts'[v] = accounts[v]
    BY EraseCommitsFacts DEF IsMember, RoleOf
  <2>5. QED
    BY <2>2, <2>3, <2>4
<1>5. InvitationsKept
  <2> SUFFICES ASSUME NEW i \in Invites, invitations[i].state # "none"
               PROVE  /\ invitations'[i].state # "none"
                      /\ Open(i)' =>
                           /\ Open(i)
                           /\ invitations'[i].org = invitations[i].org
                           /\ invitations'[i].email = invitations[i].email
                           /\ invitations'[i].role = invitations[i].role
                           /\ \/ invitations'[i].by = invitations[i].by
                              \/ /\ invitations[i].by \in Users
                                 /\ accounts'[invitations[i].by] = "deleted"
    BY DEF InvitationsKept
  <2>1. Erased.state = "erased"
    BY DEF Erased, NoInvitation
  <2>2. calls[c].kind = "leave" => calls[c].actor \in Users
    BY DEF Inv, WellFormed
  <2>3. calls[c].kind = "leave" => accounts'[calls[c].actor] = "deleted"
    BY <2>2 DEF EraseCommits, Inv, TypeOK
  <2>4. QED
    BY <2>1, <2>2, <2>3, EraseCommitsInvitations DEF Open
<1>6. ASSUME NEW d \in Callers \ {c} PROVE RowsKept(d)
  <2>1. calls[c].held \cap calls[d].held = {}
    BY DEF Inv, LocksAreExclusive
  <2>2. ASSUME NEW o \in Orgs, o \in calls[d].held, Live(o)
        PROVE  members'[o] = members[o] /\ Live(o)'
    <3>1. o \notin calls[c].held
      BY <2>1, <2>2
    <3>2. \A v \in Users : members'[o][v] = members[o][v]
      BY <3>1, EraseCommitsFacts DEF RoleOf
    <3>3. members'[o] = members[o]
      BY <1>1, <3>2 DEF Inv, TypeOK
    <3>4. o \notin calls[c].dooms
      BY <3>1 DEF EraseCommits, At, Inv, Backed, EraseBacked, WellFormed
    <3>5. Live(o)'
      BY <2>2, <3>4 DEF EraseCommits, Live
    <3>6. QED
      BY <3>3, <3>5
  <2>3. ASSUME NEW u \in Users, u \in calls[d].held, accounts[u] = "active"
        PROVE  /\ accounts'[u] = "active"
               /\ \A o \in Orgs : Live(o)' /\ IsMember(u, o)' => Live(o) /\ IsMember(u, o)
    <3>1. u \notin calls[c].held
      BY <2>1, <2>3
    <3>2. calls[c].kind = "leave" => u # calls[c].actor
      BY <3>1 DEF EraseCommits, At, Inv, Backed, EraseBacked
    <3>3. accounts'[u] = "active"
      BY <2>3, <3>2 DEF EraseCommits, Inv, TypeOK
    <3>4. ASSUME NEW o \in Orgs, Live(o)', IsMember(u, o)' PROVE Live(o) /\ IsMember(u, o)
      BY <3>4, EraseCommitsFacts DEF Live, IsMember, RoleOf
    <3>5. QED
      BY <3>3, <3>4
  <2>4. ASSUME NEW i \in Invites
        PROVE  /\ i \in calls[d].held => invitations'[i] = invitations[i]
               /\ invitations'[i].org \in {invitations[i].org, None}
               /\ invitations'[i].by \in {invitations[i].by, None}
               /\ invitations'[i].acceptedBy \in {invitations[i].acceptedBy, None}
    <3>1. Erased.org = None /\ Erased.by = None /\ Erased.acceptedBy = None
      BY DEF Erased, NoInvitation
    <3>2. QED
      BY <2>1, <3>1, EraseCommitsInvitations
  <2>5. HeldKept(d) /\ NamesKept(d)
    BY <2>4, NoneIsNothing DEF HeldKept, NamesKept, Open
  <2>6. QED
    BY <2>2, <2>3, <2>5 DEF RowsKept, OrgsKept, AccountsKept
<1>7. QED
  BY <1>1, <1>2, <1>3, <1>4, <1>5, <1>6, EndsInv DEF RowsFine, EraseCommits

LEMMA InitInv == Init => Inv
<1> SUFFICES ASSUME Init PROVE Inv
  OBVIOUS
<1>1. TypeOK
  BY InitType
<1>2. InvitationsSound
  BY DEF Init, InvitationsSound, NoInvitation
<1>3. MembersAreActive
  BY DEF Init, MembersAreActive, IsMember, RoleOf, Live
<1>4. LocksAreExclusive
  BY DEF Init, LocksAreExclusive, NoCall
<1>5. ASSUME NEW c \in Callers PROVE WellFormed(calls[c]) /\ Backed(calls[c])
  BY DEF Init, NoCall, WellFormed, Backed, MemberBacked, InviteBacked, RevokeBacked,
     AcceptBacked, EraseBacked
<1>6. QED
  BY <1>1, <1>2, <1>3, <1>4, <1>5 DEF Inv

LEMMA NextInv ==
    ASSUME Inv, [Next]_vars
    PROVE  Inv'
<1>1. ASSUME NEW c \in Callers, Starts(c) PROVE Inv'
  BY <1>1, StartsInv, RegisterInv
<1>2. ASSUME NEW c \in Callers, Proceeds(c) PROVE Inv'
  BY <1>2, MemberDecidesInv, MemberCommitsInv, LocksInvitationInv, InviteCommitsInv,
     RevokeCommitsInv, AcceptDecidesInv, AcceptClaimsInv, AcceptCommitsInv, EraseLocksUserInv,
     EraseLocksOrganizationInv, EraseDecidesInv, ForgetDecidesInv, EraseReachesInv,
     EraseCommitsInv, RefusedInv DEF Proceeds, DeadlockAborts
<1>3. CASE UNCHANGED vars
  BY <1>3, QuietRows, NobodyStep DEF vars, RowsUnchanged
<1>4. QED
  BY <1>1, <1>2, <1>3, InvitationExpiresInv DEF Next

LEMMA Invariance == Spec => []Inv
BY InitInv, NextInv, PTL DEF Spec

\* Every state is well typed, and no invitation is ever for an owner.
THEOREM TypeCorrect == Spec => []TypeOK
<1>1. Inv => TypeOK
  BY DEF Inv
<1>2. QED
  BY <1>1, Invariance, PTL

-----------------------------------------------------------------------------
(***************************************************************************)
(* Which steps write a membership, and what they write.                    *)
(***************************************************************************)

StaffUnchanged == accounts' = accounts /\ orgs' = orgs /\ members' = members

\* A change of role or a removal that commits.
Managed(c) ==
    /\ Ends(c)
    /\ calls[c].kind \in {"role", "remove"} /\ calls[c].step = "decided"
    /\ calls[c].org \in Orgs /\ calls[c].target \in Users /\ calls[c].actor \in Users
    /\ calls[c].target # calls[c].actor /\ calls[c].role \in Roles
    /\ accounts' = accounts /\ orgs' = orgs /\ invitations' = invitations
    /\ members' = [members EXCEPT ![calls[c].org][calls[c].target] =
                      IF calls[c].kind = "role" THEN calls[c].role ELSE "none"]

\* An invitation that becomes a membership.
Joined(c) ==
    /\ Ends(c)
    /\ calls[c].kind \in {"accept", "join"} /\ calls[c].step = "claimed"
    /\ calls[c].org \in Orgs /\ calls[c].actor \in Users /\ calls[c].invite \in Invites
    /\ calls[c].role \in Invitable
    /\ Open(calls[c].invite)
    /\ accounts[calls[c].actor] = IF calls[c].kind = "accept" THEN "active" ELSE "unregistered"
    /\ orgs' = orgs /\ accounts' = [accounts EXCEPT ![calls[c].actor] = "active"]
    /\ members' = [members EXCEPT ![calls[c].org][calls[c].actor] = calls[c].role]
    /\ invitations' = [invitations EXCEPT ![calls[c].invite].state = "accepted",
                                          ![calls[c].invite].acceptedBy = calls[c].actor]

Registered ==
    \E u \in Users, o \in Orgs :
        /\ accounts[u] = "unregistered" /\ orgs[o] = "absent"
        /\ accounts' = [accounts EXCEPT ![u] = "active"]
        /\ orgs' = [orgs EXCEPT ![o] = "live"]
        /\ members' = [members EXCEPT ![o][u] = "owner"]
        /\ invitations' = invitations

\* The steps of a call that decide or lock write no row.
DecidesOrLocks(c) ==
    \/ MemberDecides(c) \/ InviteSupersedes(c) \/ RevokeUpdates(c)
    \/ AcceptDecides(c) \/ AcceptClaims(c)
    \/ EraseLocksUser(c) \/ EraseLocksOrganization(c) \/ EraseDecides(c)
    \/ ForgetDecides(c) \/ EraseReaches(c) \/ EraseLocksInvitation(c) \/ DeadlockAborts(c)

LEMMA DecidesOrLocksQuietly ==
    ASSUME NEW c, DecidesOrLocks(c)
    PROVE  RowsUnchanged
<1>1. CASE \/ MemberDecides(c) \/ InviteSupersedes(c) \/ RevokeUpdates(c)
           \/ AcceptDecides(c) \/ AcceptClaims(c)
  BY <1>1 DEF MemberDecides, InviteSupersedes, RevokeUpdates, AcceptDecides, AcceptClaims,
     Decided, Refused
<1>2. CASE \/ EraseLocksUser(c) \/ EraseLocksOrganization(c) \/ EraseDecides(c)
           \/ ForgetDecides(c) \/ EraseReaches(c) \/ EraseLocksInvitation(c)
           \/ DeadlockAborts(c)
  BY <1>2 DEF EraseLocksUser, EraseLocksOrganization, EraseDecides, ForgetDecides,
     EraseReaches, EraseLocksInvitation, DeadlockAborts, Plans, Refused
<1>3. QED
  BY <1>1, <1>2 DEF DecidesOrLocks

LEMMA ManagedWhen ==
    ASSUME Inv, NEW c \in Callers, MemberCommits(c)
    PROVE  \/ StaffUnchanged /\ invitations' = invitations
           \/ Managed(c)
<1>1. /\ calls[c].kind \in {"role", "remove"} /\ calls[c].step = "decided"
      /\ WellFormed(calls[c]) /\ MemberBacked(calls[c]) /\ calls[c] \in Call
  BY DEF MemberCommits, At, Inv, Backed, TypeOK
<1>2. /\ calls[c].org \in Orgs /\ calls[c].target \in Users /\ calls[c].actor \in Users
      /\ calls[c].target # calls[c].actor /\ calls[c].role \in Roles
      /\ members[calls[c].org][calls[c].target] # "none"
  BY <1>1 DEF WellFormed, MemberBacked, RoleOf, Call
<1>3. CASE accounts[calls[c].actor] = "active"
  BY <1>1, <1>2, <1>3 DEF MemberCommits, Managed
<1>4. CASE accounts[calls[c].actor] # "active"
  BY <1>4 DEF MemberCommits, Refused, RowsUnchanged, StaffUnchanged
<1>5. QED
  BY <1>3, <1>4

LEMMA JoinedWhen ==
    ASSUME Inv, NEW c \in Callers, AcceptCommits(c)
    PROVE  \/ StaffUnchanged /\ invitations' = invitations
           \/ Joined(c)
<1>1. /\ calls[c].kind \in {"accept", "join"} /\ calls[c].step = "claimed"
      /\ WellFormed(calls[c]) /\ AcceptBacked(calls[c])
  BY DEF AcceptCommits, At, Inv, Backed
<1>2. /\ calls[c].org \in Orgs /\ calls[c].actor \in Users /\ calls[c].invite \in Invites
      /\ calls[c].role \in Invitable /\ Open(calls[c].invite)
  BY <1>1 DEF WellFormed, AcceptBacked
<1>3. CASE Refused(c)
  BY <1>3 DEF Refused, RowsUnchanged, StaffUnchanged
<1>4. CASE ~Refused(c)
  BY <1>1, <1>2, <1>4 DEF AcceptCommits, Joined
<1>5. QED
  BY <1>3, <1>4

LEMMA WhoWrites ==
    ASSUME Inv, [Next]_vars
    PROVE  \/ StaffUnchanged
           \/ \E c \in Callers : Managed(c) \/ Joined(c) \/ EraseCommits(c)
           \/ Registered
<1>1. ASSUME NEW c \in Callers, Starts(c)
      PROVE  StaffUnchanged \/ Registered
  <2>1. CASE Register(c)
    BY <2>1 DEF Register, Registered
  <2>2. CASE ~Register(c)
    BY <1>1, <2>2, StartsOpen DEF Inv, RowsUnchanged, StaffUnchanged
  <2>3. QED
    BY <2>1, <2>2
<1>2. ASSUME NEW c \in Callers, Proceeds(c)
      PROVE  StaffUnchanged \/ Managed(c) \/ Joined(c) \/ EraseCommits(c)
  <2>1. CASE MemberCommits(c)
    BY <2>1, ManagedWhen
  <2>2. CASE AcceptCommits(c)
    BY <2>2, JoinedWhen
  <2>3. CASE EraseCommits(c)
    BY <2>3
  <2>4. CASE DecidesOrLocks(c)
    BY <2>4, DecidesOrLocksQuietly DEF RowsUnchanged, StaffUnchanged
  <2>5. CASE InviteCommits(c)
    BY <2>5 DEF InviteCommits, Refused, RowsUnchanged, StaffUnchanged
  <2>6. CASE RevokeCommits(c)
    BY <2>6 DEF RevokeCommits, Refused, RowsUnchanged, StaffUnchanged
  <2>7. QED
    BY <1>2, <2>1, <2>2, <2>3, <2>4, <2>5, <2>6 DEF Proceeds, DecidesOrLocks
<1>3. ASSUME UNCHANGED vars \/ \E i \in Invites : InvitationExpires(i)
      PROVE  StaffUnchanged
  BY <1>3 DEF vars, InvitationExpires, StaffUnchanged
<1>4. QED
  BY <1>1, <1>2, <1>3 DEF Next

-----------------------------------------------------------------------------
(***************************************************************************)
(* The last owner.                                                         *)
(***************************************************************************)

Owned == \A o \in Orgs : Live(o) => Owners(o) # {}

\* With two owners or more, one of them is somebody else.
LEMMA AnotherOwner ==
    ASSUME NEW o \in Orgs, Cardinality(Owners(o)) >= 2, NEW u
    PROVE  \E v \in Users : v # u /\ RoleOf(v, o) = "owner"
<1>1. Owners(o) \in SUBSET Users /\ IsFiniteSet(Users)
  BY TenancyAssumption DEF Owners
<1>2. IsFiniteSet(Owners(o))
  BY <1>1, FS_Subset
<1>3. Cardinality({u}) = 1 /\ Cardinality({}) = 0
  BY FS_Singleton, FS_EmptySet
<1>4. Owners(o) # {u} /\ Owners(o) # {}
  BY <1>3
<1>5. QED
  BY <1>4 DEF Owners

LEMMA OwnedStep ==
    ASSUME Inv, Owned, [Next]_vars
    PROVE  Owned'
<1> SUFFICES ASSUME NEW o \in Orgs, Live(o)'
             PROVE  \E v \in Users : members'[o][v] = "owner"
  BY DEF Owned, Owners, RoleOf
<1>1. ASSUME Live(o) PROVE \E v \in Users : members[o][v] = "owner"
  BY <1>1 DEF Owned, Owners, RoleOf
<1>2. CASE StaffUnchanged
  BY <1>1, <1>2 DEF StaffUnchanged, Live
<1>3. ASSUME NEW c \in Callers, Managed(c)
      PROVE  \E v \in Users : members'[o][v] = "owner"
  <2>1. Live(o)
    BY <1>3 DEF Managed, Live
  <2>2. PICK p \in Orgs, t \in Users : p = calls[c].org /\ t = calls[c].target
    BY <1>3 DEF Managed
  <2>3. /\ p # o => members'[o] = members[o]
        /\ \A v \in Users \ {t} : members'[o][v] = members[o][v]
        /\ p = o => members'[o][t] = IF calls[c].kind = "role" THEN calls[c].role ELSE "none"
    BY <1>3, <2>2 DEF Managed, Inv, TypeOK
  <2>4. OwnerStays(calls[c])
    BY <1>3 DEF Managed, Inv, Backed, MemberBacked
  <2>5. PICK w \in Users : members[o][w] = "owner"
    BY <1>1, <2>1
  <2>6. CASE p # o \/ w # t
    BY <2>3, <2>5, <2>6
  <2>7. CASE p = o /\ w = t /\ calls[c].kind = "role" /\ calls[c].role = "owner"
    BY <2>3, <2>7
  <2>8. CASE p = o /\ w = t /\ ~(calls[c].kind = "role" /\ calls[c].role = "owner")
    <3>1. Cardinality(Owners(o)) >= 2
      BY <2>2, <2>4, <2>5, <2>8 DEF OwnerStays, RoleOf
    <3>2. PICK v \in Users : v # t /\ RoleOf(v, o) = "owner"
      BY <3>1, AnotherOwner
    <3>3. QED
      BY <2>3, <3>2 DEF RoleOf
  <2>9. QED
    BY <2>6, <2>7, <2>8
<1>4. ASSUME NEW c \in Callers, Joined(c)
      PROVE  \E v \in Users : members'[o][v] = "owner"
  <2>1. Live(o)
    BY <1>4 DEF Joined, Live
  <2>2. PICK p \in Orgs, u \in Users : p = calls[c].org /\ u = calls[c].actor
    BY <1>4 DEF Joined
  <2>3. /\ p # o => members'[o] = members[o]
        /\ \A v \in Users \ {u} : members'[o][v] = members[o][v]
    BY <1>4, <2>2 DEF Joined, Inv, TypeOK
  <2>4. ~IsMember(u, p)
    BY <1>4, <2>2 DEF Joined, Inv, Backed, AcceptBacked, MembersAreActive
  <2>5. QED
    BY <1>1, <2>1, <2>3, <2>4 DEF IsMember, RoleOf
<1>5. ASSUME NEW c \in Callers, EraseCommits(c)
      PROVE  \E v \in Users : members'[o][v] = "owner"
  <2>1. o \notin calls[c].dooms /\ Live(o)
    BY <1>5, EraseCommitsFacts DEF EraseCommits, Live
  <2>2. members'[o] = [v \in Users |-> IF calls[c].kind = "leave" /\ v = calls[c].actor
                                       THEN "none" ELSE members[o][v]]
    BY <1>5, <2>1 DEF EraseCommits
  <2>3. PICK w \in Users : members[o][w] = "owner"
    BY <1>1, <2>1
  <2>4. CASE calls[c].kind # "leave" \/ w # calls[c].actor
    BY <2>2, <2>3, <2>4
  <2>5. CASE calls[c].kind = "leave" /\ w = calls[c].actor
    <3>1. o \in OrganizationsOf(w) \ calls[c].dooms
      BY <2>1, <2>3 DEF OrganizationsOf, IsMember, RoleOf
    <3>2. Owners(o) # {w}
      BY <1>5, <2>5, <3>1 DEF EraseCommits, At, Inv, Backed, EraseBacked
    <3>3. PICK v \in Users : v # w /\ members[o][v] = "owner"
      BY <2>3, <3>2 DEF Owners, RoleOf
    <3>4. QED
      BY <2>2, <2>5, <3>3
  <2>6. QED
    BY <2>4, <2>5
<1>6. CASE Registered
  <2>1. PICK u \in Users, p \in Orgs :
          /\ orgs' = [orgs EXCEPT ![p] = "live"]
          /\ members' = [members EXCEPT ![p][u] = "owner"]
    BY <1>6 DEF Registered
  <2>2. CASE p = o
    BY <2>1, <2>2 DEF Inv, TypeOK
  <2>3. CASE p # o
    BY <1>1, <2>1, <2>3 DEF Live, Inv, TypeOK
  <2>4. QED
    BY <2>2, <2>3
<1>7. QED
  BY <1>2, <1>3, <1>4, <1>5, <1>6, WhoWrites

LEMMA InitOwned == Init => Owned
<1> SUFFICES ASSUME Init, NEW o \in Orgs, Live(o) PROVE \E v \in Users : members[o][v] = "owner"
  BY DEF Owned, Owners, RoleOf
<1>1. PICK v \in Users : Staff[v] = "owner"
  BY TenancyAssumption
<1>2. members[o] = [u \in Users |-> Staff[u]]
  BY DEF Init, Live
<1>3. QED
  BY <1>1, <1>2

\* An organization that lives has an owner whose account exists: the calls that demote,
\* remove and erase count owners before they write, and the rows they hold meanwhile are
\* enough for the count to hold when they do (members.py, erasure.py).
THEOREM OwnersRemain == Spec => []OwnerRemains
<1>1. Inv /\ Owned => OwnerRemains
  <2> SUFFICES ASSUME Inv, Owned, NEW o \in Orgs, Live(o)
               PROVE  \E u \in Owners(o) : accounts[u] = "active"
    BY DEF OwnerRemains
  <2>1. PICK u \in Users : RoleOf(u, o) = "owner" /\ u \in Owners(o)
    BY DEF Owned, Owners
  <2>2. IsMember(u, o)
    BY <2>1 DEF IsMember
  <2>3. QED
    BY <2>1, <2>2 DEF Inv, MembersAreActive
<1>2. QED
  BY <1>1, InitOwned, OwnedStep, Invariance, PTL DEF Spec

-----------------------------------------------------------------------------
(***************************************************************************)
(* Invitations: what a step does to one, and what an erasure leaves.       *)
(***************************************************************************)

\* What any step but an erasure's commit does to an invitation.
Ordinary(i) ==
    /\ \/ invitations'[i].by \in {invitations[i].by, None}
       \/ invitations'[i].by \in Users /\ accounts[invitations'[i].by] = "active"
    /\ \/ invitations'[i].acceptedBy \in {invitations[i].acceptedBy, None}
       \/ invitations'[i].acceptedBy \in Users /\ accounts'[invitations'[i].acceptedBy] = "active"
    /\ \/ invitations'[i].org \in {invitations[i].org, None}
       \/ invitations'[i].org \in Orgs /\ Live(invitations'[i].org)
    /\ invitations[i].state \in {"accepted", "revoked"} =>
          invitations'[i].state \in {invitations[i].state, "erased"}

LEMMA SameIsOrdinary ==
    ASSUME NEW i, invitations'[i] = invitations[i]
    PROVE  Ordinary(i)
BY DEF Ordinary

LEMMA OrdinaryStep ==
    ASSUME Inv, [Next]_vars, \A c \in Callers : ~EraseCommits(c), NEW i \in Invites
    PROVE  Ordinary(i)
<1>0. invitations[i] \in Invitation
  BY DEF Inv, TypeOK
<1>1. ASSUME NEW c \in Callers, Starts(c) PROVE Ordinary(i)
  <2>1. invitations' = invitations
    BY <1>1, StartsOpen DEF Register, Inv, RowsUnchanged
  <2>2. QED
    BY <2>1, SameIsOrdinary
<1>2. ASSUME NEW c \in Callers, AcceptCommits(c) PROVE Ordinary(i)
  <2>1. CASE invitations' = invitations
    BY <2>1, SameIsOrdinary
  <2>2. CASE invitations' # invitations
    <3>1. Joined(c)
      BY <1>2, <2>2, JoinedWhen
    <3>2. PICK u \in Users, k \in Invites : u = calls[c].actor /\ k = calls[c].invite
      BY <3>1 DEF Joined
    <3>3. CASE k = i
      <4>1. /\ invitations'[i].by = invitations[i].by
            /\ invitations'[i].org = invitations[i].org
            /\ invitations'[i].acceptedBy = u
        BY <1>0, <3>1, <3>2, <3>3 DEF Joined, Inv, TypeOK, Invitation
      <4>2. accounts'[u] = "active" /\ invitations[i].state = "open"
        BY <3>1, <3>2, <3>3 DEF Joined, Open, Inv, TypeOK
      <4>3. QED
        BY <4>1, <4>2 DEF Ordinary
    <3>4. CASE k # i
      BY <3>1, <3>2, <3>4, SameIsOrdinary DEF Joined, Inv, TypeOK
    <3>5. QED
      BY <3>3, <3>4
  <2>3. QED
    BY <2>1, <2>2
<1>3. ASSUME NEW c \in Callers, InviteCommits(c) PROVE Ordinary(i)
  <2>1. CASE Refused(c)
    BY <2>1, SameIsOrdinary DEF Refused, RowsUnchanged
  <2>2. CASE ~Refused(c)
    <3>1. PICK o \in Orgs, email \in Users, role \in Invitable, by \in Users :
            o = calls[c].org /\ email = calls[c].target /\ role = calls[c].role
              /\ by = calls[c].actor
      BY <1>3 DEF InviteCommits, At, Inv, WellFormed
    <3>2. Live(o) /\ accounts[by] = "active"
      BY <1>3, <2>2, <3>1 DEF InviteCommits
    <3>3. PICK k \in Unused : k = CHOOSE j \in Unused : TRUE
      BY <1>3, <2>2 DEF InviteCommits
    <3> DEFINE fresh == [NoInvitation EXCEPT !.state = "open", !.org = o, !.email = email,
                                             !.role = role, !.by = by]
               gone == [invitations[i] EXCEPT !.state = "revoked"]
    <3>4. invitations'[i] = IF i = k THEN fresh
                            ELSE IF i \in calls[c].held THEN gone
                            ELSE invitations[i]
      BY <1>3, <2>2, <3>1, <3>3 DEF InviteCommits
    <3>5. fresh.by = by /\ fresh.org = o /\ fresh.acceptedBy = None
      BY DEF NoInvitation
    <3>6. /\ gone.by = invitations[i].by /\ gone.org = invitations[i].org
          /\ gone.acceptedBy = invitations[i].acceptedBy
      BY <1>0 DEF Invitation
    <3>7. i = k => invitations[i].state = "none"
      BY <3>3 DEF Unused
    <3>8. i \in calls[c].held => Open(i)
      BY <1>3 DEF InviteCommits, At, Inv, Backed, InviteBacked
    <3> HIDE DEF fresh, gone
    <3>9. QED
      BY <3>2, <3>4, <3>5, <3>6, <3>7, <3>8 DEF Ordinary, Open
  <2>3. QED
    BY <2>1, <2>2
<1>4. ASSUME NEW c \in Callers, RevokeCommits(c) PROVE Ordinary(i)
  <2>1. CASE invitations' = invitations
    BY <2>1, SameIsOrdinary
  <2>2. CASE invitations' # invitations
    <3>1. /\ invitations' = [invitations EXCEPT ![calls[c].invite].state = "revoked"]
          /\ Open(calls[c].invite)
      BY <1>4, <2>2 DEF RevokeCommits, Refused, RowsUnchanged, At, Inv, Backed, RevokeBacked
    <3>2. /\ invitations'[i].by = invitations[i].by /\ invitations'[i].org = invitations[i].org
          /\ invitations'[i].acceptedBy = invitations[i].acceptedBy
          /\ i # calls[c].invite => invitations'[i] = invitations[i]
      BY <1>0, <3>1 DEF Inv, TypeOK, Invitation
    <3>3. QED
      BY <3>1, <3>2 DEF Ordinary, Open
  <2>3. QED
    BY <2>1, <2>2
<1>5. ASSUME NEW c \in Callers, MemberCommits(c) \/ DecidesOrLocks(c) PROVE Ordinary(i)
  <2>1. invitations' = invitations
    BY <1>5, DecidesOrLocksQuietly DEF MemberCommits, Refused, RowsUnchanged
  <2>2. QED
    BY <2>1, SameIsOrdinary
<1>6. ASSUME NEW k \in Invites, InvitationExpires(k) PROVE Ordinary(i)
  <2>1. /\ invitations'[i].by = invitations[i].by /\ invitations'[i].org = invitations[i].org
        /\ invitations'[i].acceptedBy = invitations[i].acceptedBy
        /\ invitations'[i].state = invitations[i].state
    BY <1>0, <1>6 DEF InvitationExpires, Inv, TypeOK, Invitation
  <2>2. QED
    BY <2>1 DEF Ordinary
<1>7. CASE UNCHANGED vars
  BY <1>7, SameIsOrdinary DEF vars
<1>8. QED
  BY <1>1, <1>2, <1>3, <1>4, <1>5, <1>6, <1>7 DEF Next, Proceeds, DecidesOrLocks

\* An account or organization that is deleted became so by an erasure.
LEMMA OnlyErasureDeletes ==
    ASSUME Inv, [Next]_vars, \A c \in Callers : ~EraseCommits(c)
    PROVE  /\ \A u \in Users : accounts'[u] = "deleted" => accounts[u] = "deleted"
           /\ \A o \in Orgs : orgs'[o] = "deleted" => orgs[o] = "deleted"
<1>1. CASE StaffUnchanged
  BY <1>1 DEF StaffUnchanged
<1>2. ASSUME NEW c \in Callers, Managed(c) \/ Joined(c)
      PROVE  /\ \A u \in Users : accounts'[u] = "deleted" => accounts[u] = "deleted"
             /\ orgs' = orgs
  BY <1>2 DEF Managed, Joined, Inv, TypeOK
<1>3. CASE Registered
  BY <1>3 DEF Registered, Inv, TypeOK
<1>4. QED
  BY <1>1, <1>2, <1>3, WhoWrites

Forgotten ==
    \A i \in Invites :
        /\ \A u \in Users : accounts[u] = "deleted" =>
              u \notin {invitations[i].by, invitations[i].acceptedBy}
        /\ \A o \in Orgs : orgs[o] = "deleted" => invitations[i].org # o

LEMMA ForgottenStep ==
    ASSUME Inv, Forgotten, [Next]_vars
    PROVE  Forgotten'
<1> SUFFICES ASSUME NEW i \in Invites
             PROVE  /\ \A u \in Users : accounts'[u] = "deleted" =>
                          u \notin {invitations'[i].by, invitations'[i].acceptedBy}
                    /\ \A o \in Orgs : orgs'[o] = "deleted" => invitations'[i].org # o
  BY DEF Forgotten
<1>1. CASE \A c \in Callers : ~EraseCommits(c)
  <2>1. Ordinary(i)
    BY <1>1, OrdinaryStep
  <2>2. /\ \A u \in Users : accounts'[u] = "deleted" => accounts[u] = "deleted"
        /\ \A o \in Orgs : orgs'[o] = "deleted" => orgs[o] = "deleted"
    BY <1>1, OnlyErasureDeletes
  <2>3. QED
    BY <2>1, <2>2, NoneIsNothing DEF Ordinary, Forgotten, Live
<1>2. ASSUME NEW c \in Callers, EraseCommits(c)
      PROVE  /\ \A u \in Users : accounts'[u] = "deleted" =>
                   u \notin {invitations'[i].by, invitations'[i].acceptedBy}
             /\ \A o \in Orgs : orgs'[o] = "deleted" => invitations'[i].org # o
  <2>1. /\ Erased.org = None /\ Erased.by = None /\ Erased.acceptedBy = None
    BY DEF Erased, NoInvitation
  <2>2. /\ invitations'[i].org \in {invitations[i].org, None}
        /\ invitations'[i].by \in {invitations[i].by, None}
        /\ invitations'[i].acceptedBy \in {invitations[i].acceptedBy, None}
        /\ invitations'[i].org \notin calls[c].dooms
        /\ calls[c].kind = "leave" =>
              calls[c].actor \notin {invitations'[i].by, invitations'[i].acceptedBy}
    BY <1>2, <2>1, EraseCommitsInvitations
  <2>3. ASSUME NEW u \in Users, accounts'[u] = "deleted"
        PROVE  accounts[u] = "deleted" \/ (calls[c].kind = "leave" /\ u = calls[c].actor)
    BY <1>2, <2>3 DEF EraseCommits, Inv, TypeOK
  <2>4. ASSUME NEW o \in Orgs, orgs'[o] = "deleted"
        PROVE  orgs[o] = "deleted" \/ o \in calls[c].dooms
    BY <1>2, <2>4 DEF EraseCommits
  <2>5. QED
    BY <2>2, <2>3, <2>4, NoneIsNothing DEF Forgotten
<1>3. QED
  BY <1>1, <1>2

\* Erasing an account leaves no membership and no invitation that names it, and erasing an
\* organization none that belongs to it, whatever call was under way (erasure.py).
THEOREM ErasedIsForgotten == Spec => []ErasureLeavesNothing
<1>1. Init => Forgotten
  <2> SUFFICES ASSUME Init, NEW i \in Invites
               PROVE  /\ None \in {invitations[i].by} /\ invitations[i].acceptedBy = None
                      /\ invitations[i].org = None
    BY NoneIsNothing DEF Forgotten
  <2>1. QED
    BY DEF Init, NoInvitation
<1>2. Inv /\ Forgotten => ErasureLeavesNothing
  BY DEF Inv, Forgotten, MembersAreActive, ErasureLeavesNothing, MembersOf, Live
<1>3. QED
  BY <1>1, <1>2, ForgottenStep, Invariance, PTL DEF Spec

\* An invitation is used once: accepted or revoked, it stays so until it is erased
\* (_transition_pending).
THEOREM InvitationsFinal == Spec => InvitationsAreFinal
<1>1. ASSUME Inv, [Next]_vars, NEW i \in Invites, invitations[i].state \in {"accepted", "revoked"}
      PROVE  invitations'[i].state \in {invitations[i].state, "erased"}
  <2>1. CASE \A c \in Callers : ~EraseCommits(c)
    BY <1>1, <2>1, OrdinaryStep DEF Ordinary
  <2>2. ASSUME NEW c \in Callers, EraseCommits(c)
        PROVE  invitations'[i].state \in {invitations[i].state, "erased"}
    <3>1. Erased.state = "erased"
      BY DEF Erased, NoInvitation
    <3>2. QED
      BY <1>1, <2>2, <3>1, EraseCommitsInvitations
  <2>3. QED
    BY <2>1, <2>2
<1>2. Inv /\ [Next]_vars =>
        [\A i \in Invites : invitations[i].state \in {"accepted", "revoked"} =>
              invitations'[i].state \in {invitations[i].state, "erased"}]_vars
  BY <1>1
<1>3. QED
  BY <1>2, Invariance, PTL DEF Spec, InvitationsAreFinal

-----------------------------------------------------------------------------
(***************************************************************************)
(* Authority.                                                              *)
(***************************************************************************)

\* The call that commits has the authority: the checks were made on rows it still holds.
LEMMA ManagedBacks ==
    ASSUME Inv, NEW c \in Callers, Managed(c), NEW o \in Orgs, NEW u \in Users,
           members'[o][u] # RoleOf(u, o)
    PROVE  Backs(c, o, u)
<1>1. PICK p \in Orgs, t \in Users, v \in Users, role \in Roles :
        p = calls[c].org /\ t = calls[c].target /\ v = calls[c].actor /\ role = calls[c].role
  BY DEF Managed
<1>2. /\ members'[p][t] = IF calls[c].kind = "role" THEN role ELSE "none"
      /\ \A q \in Orgs, w \in Users : q # p \/ w # t => members'[q][w] = members[q][w]
  BY <1>1 DEF Managed, Inv, TypeOK
<1>3. o = p /\ u = t /\ v # t
  BY <1>1, <1>2 DEF RoleOf, Managed
<1>4. /\ RoleOf(t, p) # "none" /\ IsMember(v, p)
      /\ MayManage(RoleOf(v, p), RoleOf(t, p), role)
  BY <1>1 DEF Managed, Inv, Backed, MemberBacked
<1>5. accounts[v] = "active"
  BY <1>4 DEF Inv, MembersAreActive
<1>6. /\ Manages(v, p, RoleOf(t, p)) /\ Manages(v, p, role)
  BY <1>4, <1>5 DEF Manages, MayManage
<1>7. QED
  <2>1. calls'[c] = NoCall /\ NoCall.kind = "none"
    BY DEF Managed, Ends, Releases, Inv, TypeOK, NoCall
  <2>2. calls'[c] # calls[c]
    BY <2>1 DEF Managed
  <2>3. QED
    BY <1>1, <1>2, <1>3, <1>4, <1>6, <2>2 DEF Backs, IsMember, Managed

LEMMA JoinedBacks ==
    ASSUME Inv, NEW c \in Callers, Joined(c), NEW o \in Orgs, NEW u \in Users,
           members'[o][u] # RoleOf(u, o)
    PROVE  Backs(c, o, u)
<1>1. PICK p \in Orgs, v \in Users, role \in Invitable, i \in Invites :
        p = calls[c].org /\ v = calls[c].actor /\ role = calls[c].role /\ i = calls[c].invite
  BY DEF Joined
<1>2. /\ members'[p][v] = role
      /\ \A q \in Orgs, w \in Users : q # p \/ w # v => members'[q][w] = members[q][w]
  BY <1>1 DEF Joined, Inv, TypeOK
<1>3. o = p /\ u = v
  BY <1>2 DEF RoleOf
<1>4. ~IsMember(v, p)
  BY <1>1 DEF Joined, Inv, Backed, AcceptBacked, MembersAreActive
<1>5. Open(i) /\ InviterAuthorized(i)
  BY <1>1 DEF Joined, Inv, Backed, AcceptBacked
<1>6. invitations[i].org = p /\ invitations[i].email = v /\ invitations[i].role = role
  BY <1>1, <1>5 DEF Joined, Inv, WellFormed
<1>7. invitations'[i].state = "accepted" /\ invitations[i] \in Invitation
  BY <1>1 DEF Joined, Inv, TypeOK, Invitation
<1>8. invitations[i].by \in Users /\ Manages(invitations[i].by, p, role)
  BY <1>5, <1>6, <1>7 DEF InviterAuthorized, Manages, Invitation
<1>9. QED
  <2>1. calls'[c] = NoCall /\ NoCall.kind = "none"
    BY DEF Joined, Ends, Releases, Inv, TypeOK, NoCall
  <2>2. calls'[c] # calls[c]
    BY <2>1 DEF Joined
  <2>3. invitations[i].by # None
    BY <1>8, NoneIsNothing
  <2>4. QED
    BY <1>1, <1>2, <1>3, <1>4, <1>5, <1>6, <1>7, <1>8, <2>2, <2>3 DEF Backs, Joined

\* Whoever changes a role, removes a member or brings one in has the authority for it when
\* the change is committed, not only when it was checked: the actor of the very call that
\* commits, or the inviter of the very invitation it accepts (members.py, invitations.py).
THEOREM AuthorityHolds == Spec => AuthorityIsCurrent
<1>1. ASSUME Inv, [Next]_vars, NEW o \in Orgs, NEW u \in Users, Live(o), orgs'[o] = "live",
             accounts'[u] = "active", members'[o][u] # RoleOf(u, o)
      PROVE  \E c \in Callers : Backs(c, o, u)
  <2>1. ~StaffUnchanged
    BY <1>1 DEF StaffUnchanged, RoleOf
  <2>2. ~Registered
    <3> SUFFICES ASSUME Registered PROVE FALSE
      OBVIOUS
    <3>1. PICK v \in Users, p \in Orgs :
            orgs[p] = "absent" /\ members' = [members EXCEPT ![p][v] = "owner"]
      BY DEF Registered
    <3>2. p # o
      BY <1>1, <3>1 DEF Live
    <3>3. QED
      BY <1>1, <3>1, <3>2 DEF RoleOf, Inv, TypeOK
  <2>3. ASSUME NEW c \in Callers, EraseCommits(c) PROVE FALSE
    <3>1. o \notin calls[c].dooms
      BY <1>1, <2>3, EraseCommitsFacts
    <3>2. calls[c].kind = "leave" /\ u = calls[c].actor
      BY <1>1, <2>3, <3>1 DEF EraseCommits, RoleOf
    <3>3. QED
      BY <1>1, <2>3, <3>2, EraseCommitsFacts
  <2>4. QED
    BY <1>1, <2>1, <2>2, <2>3, WhoWrites, ManagedBacks, JoinedBacks
<1>2. Inv /\ [Next]_vars =>
        [\A o \in Orgs, u \in Users :
            /\ Live(o) /\ orgs'[o] = "live" /\ accounts'[u] = "active"
            /\ members'[o][u] # RoleOf(u, o)
            => \E c \in Callers : Backs(c, o, u)]_vars
  BY <1>1
<1>3. QED
  BY <1>2, Invariance, PTL DEF Spec, AuthorityIsCurrent

-----------------------------------------------------------------------------
(***************************************************************************)
(* Waiting.                                                                *)
(***************************************************************************)

\* Whoever follows a function on a finite set long enough walks in circles: some part of the
\* set is mapped onto itself, the least one that the function does not lead out of.
WalksInCircles(f, S) ==
    \E T \in SUBSET S :
        /\ T # {} /\ \A x \in T : f[x] \in T
        /\ \A y \in T : \E x \in T : f[x] = y

LEMMA Circles ==
    ASSUME NEW S, IsFiniteSet(S), S # {}, NEW f \in [S -> S]
    PROVE  WalksInCircles(f, S)
<1> DEFINE Closed == {T \in SUBSET S : T # {} /\ \A x \in T : f[x] \in T}
           Sizes == {Cardinality(T) : T \in Closed}
<1>1. \A T \in SUBSET S : IsFiniteSet(T) /\ Cardinality(T) \in Nat
  BY FS_Subset, FS_CardinalityType
<1>2. Sizes \in SUBSET Nat
  BY <1>1
<1>3. S \in Closed
  OBVIOUS
<1>4. PICK n \in Sizes : \A m \in Sizes : n <= m
  <2>1. Cardinality(S) \in Sizes
    BY <1>3
  <2> HIDE DEF Sizes
  <2>2. QED
    BY <1>2, <2>1, LeastNumber
<1>5. PICK T \in Closed : n = Cardinality(T)
  BY <1>4
<1> DEFINE Image == {f[x] : x \in T}
<1>6. Image \in Closed /\ Image \in SUBSET T
  BY <1>5
<1>7. Cardinality(T) <= Cardinality(Image)
  BY <1>4, <1>5, <1>6
<1>8. /\ IsFiniteSet(T) /\ Cardinality(T) \in Nat /\ Cardinality(Image) \in Nat
  BY <1>1, <1>5, <1>6
<1>9. T = Image
  <2> HIDE DEF Image
  <2>1. /\ Cardinality(Image) <= Cardinality(T)
        /\ Cardinality(T) = Cardinality(Image) => T = Image
    BY <1>6, <1>8, FS_Subset
  <2>2. QED
    BY <1>7, <1>8, <2>1
<1>10. \A y \in T : \E x \in T : f[x] = y
  BY <1>9
<1>11. QED
  BY <1>5, <1>10 DEF WalksInCircles

\* The locked rows are held by calls that are under way.
LEMMA HoldersAreUnderWay ==
    ASSUME Inv, NEW c \in Callers, calls[c].held # {}
    PROVE  c \in UnderWay
<1>1. WellFormed(calls[c])
  BY DEF Inv
<1>2. calls[c] # NoCall
  BY DEF NoCall
<1>3. QED
  BY <1>1, <1>2 DEF WellFormed, UnderWay

LEMMA SomeoneIsFree ==
    ASSUME Inv
    PROVE  SomeoneCanGo
<1> SUFFICES ASSUME UnderWay # {},
                    \A c \in UnderWay : \E row \in WaitsFor(c) : ~Free(row, c)
             PROVE  \E c \in UnderWay : InDeadlock(c)
  BY DEF SomeoneCanGo
<1>1. ASSUME NEW c \in UnderWay PROVE \E d \in UnderWay : WaitsOn(c, d)
  <2>1. PICK row \in WaitsFor(c) : ~Free(row, c)
    OBVIOUS
  <2>2. PICK d \in Callers \ {c} : row \in calls[d].held
    BY <2>1 DEF Free
  <2>3. d \in UnderWay
    BY <2>2, HoldersAreUnderWay
  <2>4. QED
    BY <2>1, <2>2, <2>3 DEF WaitsOn
<1> DEFINE f == [c \in UnderWay |-> CHOOSE d \in UnderWay : WaitsOn(c, d)]
<1>2. /\ f \in [UnderWay -> UnderWay]
      /\ \A c \in UnderWay : WaitsOn(c, f[c])
  BY <1>1
<1>3. UnderWay \in SUBSET Callers /\ IsFiniteSet(UnderWay)
  <2>1. UnderWay \in SUBSET Callers
    BY DEF UnderWay
  <2>2. QED
    BY <2>1, FS_Subset, TenancyAssumption
<1> HIDE DEF f
<1>4. PICK T \in SUBSET UnderWay :
          /\ T # {} /\ \A x \in T : f[x] \in T
          /\ \A y \in T : \E x \in T : f[x] = y
  <2>1. UnderWay # {} /\ IsFiniteSet(UnderWay) /\ f \in [UnderWay -> UnderWay]
    BY <1>2, <1>3
  <2>2. WalksInCircles(f, UnderWay)
    BY <2>1, Circles
  <2>3. QED
    BY <2>2 DEF WalksInCircles
<1> DEFINE next == [c \in T |-> f[c]]
<1>5. /\ next \in [T -> T]
      /\ \A c \in T : WaitsOn(c, next[c])
      /\ \A d \in T : \E c \in T : next[c] = d
  BY <1>2, <1>4
<1> HIDE DEF next
<1>6. Deadlocked(T)
  BY <1>5 DEF Deadlocked
<1>7. PICK c \in T : TRUE
  BY <1>4
<1>8. InDeadlock(c)
  BY <1>3, <1>6, <1>7 DEF InDeadlock
<1>9. QED
  BY <1>7, <1>8

\* NoStandstill, without ENABLED: while calls are under way, one of them finds the rows it
\* waits for free, or is in a deadlock that the database breaks.
THEOREM NobodyStandsStill == Spec => []SomeoneCanGo
<1>1. Inv => SomeoneCanGo
  BY SomeoneIsFree
<1>2. QED
  BY <1>1, Invariance, PTL

=============================================================================
