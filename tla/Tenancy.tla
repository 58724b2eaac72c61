------------------------------ MODULE Tenancy -------------------------------
(***************************************************************************)
(* Accounts, organizations, members and invitations, and their erasure     *)
(* (app/organizations/members.py, app/organizations/invitations.py,        *)
(* app/auth/service.py, app/privacy/erasure.py) on PostgreSQL.             *)
(*                                                                         *)
(* A call of a route is one transaction: it reads, waits for row locks,    *)
(* decides and commits.  Three kinds of lock matter: FOR UPDATE on an      *)
(* organization or on a user, the lock an UPDATE or a DELETE takes on an   *)
(* invitation, both held to the end of the transaction, and the key-share  *)
(* lock an INSERT takes on the rows its foreign keys name, which waits for *)
(* FOR UPDATE (an audit row names its actor, a membership its user, an     *)
(* invitation its organization and its inviter).  A call writes an         *)
(* invitation it holds when it commits, for nobody reads it before.  The   *)
(* database breaks a cycle of waits by aborting a call.                    *)
(*                                                                         *)
(* An address is identified with the account that may be registered for    *)
(* it; an account deleted is not registered again.  The three roles stand  *)
(* for OWNER, ADMIN and every role below them.                             *)
(***************************************************************************)
EXTENDS Naturals, FiniteSets

CONSTANTS
    Users,      \* accounts, and the addresses they are registered for
    Orgs,       \* organizations, a set of numbers: they are locked in id order
    Callers,    \* concurrent calls
    MayCall,    \* bound: the routes each of them calls
    Invites,    \* invitation rows (a bound)
    Verified,   \* the accounts whose address is verified
    Staff,      \* the first organization's initial members: a role of each user or "none"
    None        \* no user, no organization, no invitation

Ranks == [owner |-> 4, admin |-> 3, marketer |-> 2]
Roles == {"owner", "admin", "marketer"}
Rank(role) == Ranks[role]
\* ORGANIZATION_ADMIN_ROLES.
Admins == {"owner", "admin"}

Kinds == {"role", "remove", "invite", "revoke", "accept", "join", "leave", "close", "forget"}

ASSUME TenancyAssumption ==
    /\ Orgs \subseteq Nat /\ Orgs # {} /\ IsFiniteSet(Orgs) /\ IsFiniteSet(Users)
    /\ Users \cap Orgs = {} /\ Invites \cap (Users \cup Orgs) = {} /\ IsFiniteSet(Callers)
    /\ Staff \in [Users -> Roles \cup {"none"}] /\ (\E u \in Users : Staff[u] = "owner")
    /\ Verified \subseteq Users
    /\ None \notin Users \cup Orgs \cup Invites
    /\ MayCall \in [Callers -> SUBSET (Kinds \cup {"register"})]

VARIABLES
    accounts,     \* "unregistered", "active" or "deleted"
    orgs,         \* the same of each organization: "absent", "live" or "deleted"
    members,      \* role of each user in each organization
    invitations,  \* the invitation rows
    calls         \* the transaction of each caller

vars == <<accounts, orgs, members, invitations, calls>>

-----------------------------------------------------------------------------
\* INVITABLE_ROLES.
Invitable == Roles \ {"owner"}

NoInvitation == [state |-> "none", org |-> None, email |-> None, role |-> "marketer",
                 by |-> None, acceptedBy |-> None, expired |-> FALSE]

\* A transaction: what the request names and the rows it holds; an erasure also has
\* organizations yet to lock, the ones that go, and invitations yet to delete or clear.
NoCall == [kind |-> "none", step |-> "none", actor |-> None, org |-> None, target |-> None,
           role |-> "marketer", invite |-> None,
           held |-> {}, toLock |-> {}, dooms |-> {}, toClear |-> {}]

Live(o) == orgs[o] = "live"
RoleOf(u, o) == members[o][u]
IsMember(u, o) == RoleOf(u, o) # "none"
Owners(o) == {u \in Users : RoleOf(u, o) = "owner"}
MembersOf(o) == {u \in Users : IsMember(u, o)}

Free(row, c) == \A d \in Callers \ {c} : row \notin calls[d].held

Init ==
    LET first == CHOOSE o \in Orgs : \A p \in Orgs : o <= p IN
    /\ accounts = [u \in Users |-> IF Staff[u] = "none" THEN "unregistered" ELSE "active"]
    /\ orgs = [o \in Orgs |-> IF o = first THEN "live" ELSE "absent"]
    /\ members = [o \in Orgs |-> [u \in Users |->
                    IF o = first THEN Staff[u] ELSE "none"]]
    /\ invitations = [i \in Invites |-> NoInvitation]
    /\ calls = [c \in Callers |-> NoCall]

-----------------------------------------------------------------------------
\* Transactions.

RowsUnchanged == UNCHANGED <<accounts, orgs, members, invitations>>

\* A call that got past authentication, with what its dependencies read.
Begins(c, call) ==
    /\ call.kind \in MayCall[c]
    /\ calls' = [calls EXCEPT ![c] = [call EXCEPT !.step = "begun"]]
    /\ RowsUnchanged

\* Mutant: a call that ends keeps its row locks (no rollback).
ReleasesBug(c) == [NoCall EXCEPT !.held = calls[c].held]
\* get_db: the session commits or rolls back, and its locks are released.
Releases(c) == NoCall
Ends(c) == calls' = [calls EXCEPT ![c] = Releases(c)]

Refused(c) == Ends(c) /\ RowsUnchanged

\* The call passed its checks and waits to write, holding these rows.
Decided(c, held, dooms) ==
    /\ calls' = [calls EXCEPT ![c].step = "decided", ![c].held = held, ![c].dooms = dooms]
    /\ RowsUnchanged

At(c, kinds, step) == calls[c].kind \in kinds /\ calls[c].step = step

-----------------------------------------------------------------------------
\* Members: change a role, remove a member (members.py).

\* The route's dependency read the actor's role; the service reads it again.
MemberCall(c) ==
    \E kind \in {"role", "remove"}, o \in Orgs, u, target \in Users, role \in Roles :
        /\ Live(o) /\ accounts[u] = "active" /\ RoleOf(u, o) \in Admins /\ target # u
        /\ kind = "remove" => role = "marketer"
        /\ Begins(c, [NoCall EXCEPT !.kind = kind, !.actor = u, !.org = o,
                                    !.target = target, !.role = role])

\* Mutant: the organization row is not locked.
LocksOrganizationBug(c, o) == TRUE
\* lock_organization waits for the row.
LocksOrganization(c, o) == Free(o, c)

\* What the service requires of the roles.
MayManage(actorRole, currentRole, newRole) ==
    /\ actorRole \in Admins
    /\ "owner" \in {currentRole, newRole} => actorRole = "owner"
    /\ Rank(currentRole) <= Rank(actorRole) /\ Rank(newRole) <= Rank(actorRole)

\* Mutant: the role the dependency read is trusted.
ActorAuthorizedBug(call) == TRUE
\* _lock_and_authorize_actor reads the actor's role again under the lock.
ActorAuthorized(call) ==
    /\ IsMember(call.actor, call.org)
    /\ MayManage(RoleOf(call.actor, call.org), RoleOf(call.target, call.org), call.role)

\* The last owner stays: counted before the write and again after it.
OwnerStays(call) ==
    LET demoted == RoleOf(call.target, call.org) = "owner"
                   /\ ~(call.kind = "role" /\ call.role = "owner")
    IN demoted => Cardinality(Owners(call.org)) >= 2

MemberDecides(c) ==
    LET call == calls[c] IN
    /\ At(c, {"role", "remove"}, "begun")
    /\ LocksOrganization(c, call.org)
    /\ IF /\ Live(call.org) /\ IsMember(call.target, call.org)
          /\ ActorAuthorized(call) /\ OwnerStays(call)
       THEN Decided(c, {call.org}, {})
       ELSE Refused(c)

\* The audit row names the actor.
MemberCommits(c) ==
    LET call == calls[c] IN
    /\ At(c, {"role", "remove"}, "decided")
    /\ Free(call.actor, c)
    /\ IF accounts[call.actor] = "active"
       THEN /\ members' = [members EXCEPT ![call.org][call.target] =
                              IF call.kind = "role" /\ @ # "none" THEN call.role ELSE "none"]
            /\ Ends(c)
            /\ UNCHANGED <<accounts, orgs, invitations>>
       ELSE Refused(c)

-----------------------------------------------------------------------------
\* Invitations (invitations.py).  A call reads the clock once, when it resolves its
\* invitation: one that expires afterwards is still pending for it.

Open(i) == invitations[i].state = "open"
Pending(i) == Open(i) /\ ~invitations[i].expired
OpenFor(o, email) == {i \in Invites : Open(i) /\ invitations[i].org = o
                                       /\ invitations[i].email = email}
Unused == {i \in Invites : invitations[i].state = "none"}

InvitationExpires(i) ==
    /\ Pending(i)
    /\ invitations' = [invitations EXCEPT ![i].expired = TRUE]
    /\ UNCHANGED <<accounts, orgs, members, calls>>

\* create_invitation trusts the role the dependency read; it locks nothing.
InviteCall(c) ==
    \E o \in Orgs, u, email \in Users, role \in Invitable :
        /\ Live(o) /\ accounts[u] = "active" /\ RoleOf(u, o) \in Admins
        /\ Rank(role) <= Rank(RoleOf(u, o))
        /\ ~IsMember(email, o)
        /\ \A i \in OpenFor(o, email) : invitations[i].expired
        /\ Unused # {}
        /\ Begins(c, [NoCall EXCEPT !.kind = "invite", !.actor = u, !.org = o,
                 !.target = email, !.role = role,
                 !.invite = IF OpenFor(o, email) = {} THEN None
                            ELSE CHOOSE i \in OpenFor(o, email) : TRUE])

\* The expired invitation it found is revoked if it still is open: an UPDATE, which waits
\* for the row.
InviteSupersedes(c) ==
    LET found == {calls[c].invite} \ {None} IN
    /\ At(c, {"invite"}, "begun")
    /\ \A i \in found : Free(i, c)
    /\ Decided(c, {i \in found : Open(i)}, {})

\* A new one is inserted unless another is open (the partial unique index).
InviteCommits(c) ==
    LET call == calls[c] IN
    /\ At(c, {"invite"}, "decided")
    /\ Free(call.org, c) /\ Free(call.actor, c)
    /\ IF /\ Live(call.org) /\ accounts[call.actor] = "active" /\ Unused # {}
          /\ OpenFor(call.org, call.target) \subseteq call.held
       THEN LET i == CHOOSE j \in Unused : TRUE
                fresh == [NoInvitation EXCEPT !.state = "open", !.org = call.org,
                            !.email = call.target, !.role = call.role, !.by = call.actor]
            IN
            /\ invitations' = [j \in Invites |->
                  IF j = i THEN fresh
                  ELSE IF j \in call.held THEN [invitations[j] EXCEPT !.state = "revoked"]
                  ELSE invitations[j]]
            /\ Ends(c)
            /\ UNCHANGED <<accounts, orgs, members>>
       ELSE Refused(c)

RevokeCall(c) ==
    \E i \in Invites, u \in Users :
        LET o == invitations[i].org IN
        /\ Pending(i) /\ Live(o) /\ accounts[u] = "active" /\ RoleOf(u, o) \in Admins
        /\ Begins(c, [NoCall EXCEPT !.kind = "revoke", !.actor = u, !.org = o, !.invite = i])

\* _transition_pending: the WHERE of the UPDATE repeats the predicate, at the call's clock.
StillPending(i) == Open(i)

RevokeUpdates(c) ==
    LET i == calls[c].invite IN
    /\ At(c, {"revoke"}, "begun")
    /\ Free(i, c)
    /\ IF StillPending(i) THEN Decided(c, {i}, {}) ELSE Refused(c)

\* Its audit row names the actor.
RevokeCommits(c) ==
    LET call == calls[c] IN
    /\ At(c, {"revoke"}, "decided")
    /\ Free(call.actor, c)
    /\ IF accounts[call.actor] = "active"
       THEN /\ invitations' = [invitations EXCEPT ![call.invite].state = "revoked"]
            /\ Ends(c)
            /\ UNCHANGED <<accounts, orgs, members>>
       ELSE Refused(c)

\* An invitation is accepted by the signed-in account it is addressed to ("accept"), or by
\* registering that account ("join").
AcceptCall(c) ==
    \E i \in Invites, kind \in {"accept", "join"} :
        LET u == invitations[i].email IN
        /\ Pending(i)
        /\ IF kind = "accept" THEN accounts[u] = "active" ELSE accounts[u] = "unregistered"
        /\ Begins(c, [NoCall EXCEPT !.kind = kind, !.actor = u, !.org = invitations[i].org,
                                    !.role = invitations[i].role, !.invite = i])

\* _require_inviter_authorized, read under the organization lock.
InviterAuthorized(i) ==
    LET invitation == invitations[i] IN
    /\ invitation.by # None
    /\ accounts[invitation.by] = "active"
    /\ RoleOf(invitation.by, invitation.org) \in Admins
    /\ Rank(invitation.role) <= Rank(RoleOf(invitation.by, invitation.org))

AcceptDecides(c) ==
    LET call == calls[c] IN
    /\ At(c, {"accept", "join"}, "begun")
    /\ LocksOrganization(c, call.org)
    /\ IF /\ Live(call.org)
          /\ IF call.kind = "accept" THEN ~IsMember(call.actor, call.org)
                                     ELSE accounts[call.actor] = "unregistered"
          /\ InviterAuthorized(call.invite)
       THEN Decided(c, {call.org}, {})
       ELSE Refused(c)

\* The invitation is claimed first.
AcceptClaims(c) ==
    LET i == calls[c].invite IN
    /\ At(c, {"accept", "join"}, "decided")
    /\ Free(i, c)
    /\ IF StillPending(i)
       THEN /\ calls' = [calls EXCEPT ![c].step = "claimed", ![c].held = @ \cup {i}]
            /\ RowsUnchanged
       ELSE Refused(c)

\* Register the account that joins, add the membership.
AcceptCommits(c) ==
    LET call == calls[c]
        expected == IF call.kind = "accept" THEN "active" ELSE "unregistered"
    IN
    /\ At(c, {"accept", "join"}, "claimed")
    /\ Free(call.actor, c)
    /\ IF accounts[call.actor] = expected
       THEN /\ accounts' = [accounts EXCEPT ![call.actor] = "active"]
            /\ members' = [members EXCEPT ![call.org][call.actor] = call.role]
            /\ invitations' = [invitations EXCEPT ![call.invite].state = "accepted",
                                                  ![call.invite].acceptedBy = call.actor]
            /\ Ends(c)
            /\ UNCHANGED orgs
       ELSE Refused(c)

\* register: an account with an organization of its own.
Register(c) ==
    \E u \in Users, o \in Orgs :
        /\ "register" \in MayCall[c]
        /\ accounts[u] = "unregistered" /\ orgs[o] = "absent"
        /\ accounts' = [accounts EXCEPT ![u] = "active"]
        /\ orgs' = [orgs EXCEPT ![o] = "live"]
        /\ members' = [members EXCEPT ![o][u] = "owner"]
        /\ UNCHANGED <<invitations, calls>>

-----------------------------------------------------------------------------
\* Erasure (erasure.py): an account is deleted by its holder ("leave"), an organization by
\* one of its owners ("close"): both lock the user row first, then organizations, then the
\* invitations they delete or clear.  An operator erases a person by address ("forget").

EraseCall(c) ==
    \E kind \in {"leave", "close"}, u \in Users, o \in Orgs \cup {None} :
        /\ accounts[u] = "active"
        /\ IF kind = "leave" THEN o = None ELSE o # None /\ Live(o) /\ RoleOf(u, o) = "owner"
        /\ Begins(c, [NoCall EXCEPT !.kind = kind, !.actor = u, !.org = o])

\* The organizations delete_account locks.
OrganizationsOf(u) == {o \in Orgs : Live(o) /\ IsMember(u, o)}

EraseLocksUser(c) ==
    LET call == calls[c] IN
    /\ At(c, {"leave", "close"}, "begun")
    /\ Free(call.actor, c)
    /\ IF accounts[call.actor] = "active"
       THEN /\ calls' = [calls EXCEPT ![c].step = "locking", ![c].held = {call.actor},
                    ![c].toLock = IF call.kind = "leave" THEN OrganizationsOf(call.actor)
                                  ELSE {call.org}]
            /\ RowsUnchanged
       ELSE Refused(c)

\* In id order.
NextToLock(c) == CHOOSE o \in calls[c].toLock : \A p \in calls[c].toLock : o <= p

EraseLocksOrganization(c) ==
    /\ At(c, {"leave", "close"}, "locking") /\ calls[c].toLock # {}
    /\ LocksOrganization(c, NextToLock(c))
    /\ IF Live(NextToLock(c))
       THEN /\ calls' = [calls EXCEPT ![c].held = @ \cup {NextToLock(c)},
                                      ![c].toLock = @ \ {NextToLock(c)}]
            /\ RowsUnchanged
       ELSE Refused(c)

\* _require_no_active_jobs, for every organization that goes: a worker may run one.
NoActiveJobs(dooms) == IF dooms = {} THEN {TRUE} ELSE BOOLEAN

SoleOwner(u) == \E o \in OrganizationsOf(u) : Owners(o) = {u} /\ MembersOf(o) # {u}
AloneIn(u) == {o \in OrganizationsOf(u) : MembersOf(o) = {u}}

\* Whether the invitation goes: it is of an organization that goes, or of the account that
\* leaves, which accepted it, or to whose verified address it was sent; or it is addressed
\* to the person.
Goes(call, invitation) ==
    \/ invitation.org \in call.dooms
    \/ /\ call.kind = "leave"
       /\ \/ invitation.acceptedBy = call.actor
          \/ call.actor \in Verified /\ invitation.email = call.actor
    \/ call.kind = "forget" /\ invitation.email = call.target

\* The rows the foreign-key walk writes.
Touches(call, invitation) ==
    \/ Goes(call, invitation)
    \/ call.kind = "leave" /\ call.actor \in {invitation.by, invitation.acceptedBy}

\* The erasure reads the invitations it will delete or clear.
Plans(c, plan) ==
    /\ calls' = [calls EXCEPT ![c] = [plan EXCEPT !.toClear =
                     {i \in Invites : Touches(plan, invitations[i])}]]
    /\ RowsUnchanged

\* The plan, made under the locks.
EraseDecides(c) ==
    LET call == calls[c]
        dooms == IF call.kind = "leave" THEN AloneIn(call.actor) ELSE {call.org}
        plan == [call EXCEPT !.step = "decided", !.dooms = dooms]
    IN
    /\ At(c, {"leave", "close"}, "locking") /\ call.toLock = {}
    /\ \E idle \in NoActiveJobs(dooms) :
          IF /\ IF call.kind = "leave" THEN ~SoleOwner(call.actor)
                                       ELSE RoleOf(call.actor, call.org) = "owner"
             /\ idle
          THEN Plans(c, plan)
          ELSE Refused(c)

\* erase_invitee_email: refused when an account proved the address; it locks nothing else.
ForgetCall(c) ==
    \E email \in Users :
        /\ ~(accounts[email] = "active" /\ email \in Verified)
        /\ Begins(c, [NoCall EXCEPT !.kind = "forget", !.target = email])

ForgetDecides(c) ==
    /\ At(c, {"forget"}, "begun")
    /\ Plans(c, [calls[c] EXCEPT !.step = "decided"])

\* The walk comes to one of its rows, in whatever order the statements take them, and
\* waits for it.
EraseReaches(c) ==
    /\ At(c, {"leave", "close", "forget"}, "decided") /\ calls[c].invite = None
    /\ \E i \in calls[c].toClear : calls' = [calls EXCEPT ![c].invite = i]
    /\ RowsUnchanged

EraseLocksInvitation(c) ==
    LET i == calls[c].invite IN
    /\ At(c, {"leave", "close", "forget"}, "decided") /\ i # None
    /\ Free(i, c)
    /\ calls' = [calls EXCEPT ![c].invite = None, ![c].held = @ \cup {i},
                              ![c].toClear = @ \ {i}]
    /\ RowsUnchanged

Erased == [NoInvitation EXCEPT !.state = "erased"]

\* Mutant: the walk leaves the SET NULL columns of other rows alone.
ClearedBug(invitation, u) == invitation
\* The foreign-key walk clears invited_by and accepted_by.
Cleared(invitation, u) ==
    [invitation EXCEPT !.by = IF @ = u THEN None ELSE @,
                       !.acceptedBy = IF @ = u THEN None ELSE @]

EraseCommits(c) ==
    LET call == calls[c]
        leaves == call.kind = "leave"
    IN
    /\ At(c, {"leave", "close", "forget"}, "decided") /\ call.invite = None /\ call.toClear = {}
    /\ accounts' = IF leaves THEN [accounts EXCEPT ![call.actor] = "deleted"] ELSE accounts
    /\ orgs' = [o \in Orgs |-> IF o \in call.dooms THEN "deleted" ELSE orgs[o]]
    /\ members' = [o \in Orgs |-> [v \in Users |->
                     IF o \in call.dooms \/ (leaves /\ v = call.actor) THEN "none"
                     ELSE members[o][v]]]
    /\ invitations' = [i \in Invites |->
                     IF i \notin call.held THEN invitations[i]
                     ELSE IF Goes(call, invitations[i]) THEN Erased
                     ELSE IF leaves THEN Cleared(invitations[i], call.actor)
                     ELSE invitations[i]]
    /\ Ends(c)

-----------------------------------------------------------------------------
\* The rows a call waits for.
WaitsFor(c) ==
    LET call == calls[c] IN
    CASE At(c, {"role", "remove", "accept", "join"}, "begun") -> {call.org}
      [] At(c, {"invite", "revoke"}, "begun") -> {call.invite} \ {None}
      [] At(c, {"invite"}, "decided") -> {call.org, call.actor}
      [] At(c, {"accept", "join"}, "decided") -> {call.invite}
      [] \/ At(c, {"role", "remove", "revoke"}, "decided")
         \/ At(c, {"accept", "join"}, "claimed")
         \/ At(c, {"leave", "close"}, "begun") -> {call.actor}
      [] At(c, {"leave", "close"}, "locking") /\ call.toLock # {} -> {NextToLock(c)}
      [] At(c, {"leave", "close", "forget"}, "decided") -> {call.invite} \ {None}
      [] OTHER -> {}

WaitsOn(c, d) == c # d /\ WaitsFor(c) \cap calls[d].held # {}

\* Each of these calls waits for one of them, and each is the one another waits for.
Deadlocked(cycle) ==
    \E next \in [cycle -> cycle] :
        /\ \A c \in cycle : WaitsOn(c, next[c])
        /\ \A d \in cycle : \E c \in cycle : next[c] = d

\* The database aborts a call that waits in a cycle.
InDeadlock(c) == \E cycle \in SUBSET Callers : c \in cycle /\ Deadlocked(cycle)
DeadlockAborts(c) == InDeadlock(c) /\ Refused(c)

\* A caller makes one call at a time.
Starts(c) ==
    /\ calls[c] = NoCall
    /\ \/ MemberCall(c) \/ InviteCall(c) \/ RevokeCall(c) \/ AcceptCall(c)
       \/ EraseCall(c) \/ ForgetCall(c) \/ Register(c)

Proceeds(c) == MemberDecides(c) \/ MemberCommits(c) \/ InviteSupersedes(c) \/ InviteCommits(c)
               \/ RevokeUpdates(c) \/ RevokeCommits(c)
               \/ AcceptDecides(c) \/ AcceptClaims(c) \/ AcceptCommits(c)
               \/ EraseLocksUser(c) \/ EraseLocksOrganization(c) \/ EraseDecides(c)
               \/ ForgetDecides(c) \/ EraseReaches(c) \/ EraseLocksInvitation(c)
               \/ EraseCommits(c) \/ DeadlockAborts(c)

Next ==
    \/ \E c \in Callers : Starts(c) \/ Proceeds(c)
    \/ \E i \in Invites : InvitationExpires(i)

Spec == Init /\ [][Next]_vars

-----------------------------------------------------------------------------
(***************************************************************************)
(* Properties.                                                             *)
(***************************************************************************)

Invitation ==
    [state: {"none", "open", "accepted", "revoked", "erased"}, org: Orgs \cup {None},
     email: Users \cup {None}, role: Invitable, by: Users \cup {None},
     acceptedBy: Users \cup {None}, expired: BOOLEAN]

Call == [kind: Kinds \cup {"none"}, step: {"none", "begun", "locking", "decided", "claimed"},
         actor: Users \cup {None}, org: Orgs \cup {None}, target: Users \cup {None},
         role: Roles, invite: Invites \cup {None}, held: SUBSET (Orgs \cup Users \cup Invites),
         toLock: SUBSET Orgs, dooms: SUBSET Orgs, toClear: SUBSET Invites]

\* Every row and call holds values the code can store; no invitation is for an owner.
TypeOK ==
    /\ accounts \in [Users -> {"unregistered", "active", "deleted"}]
    /\ orgs \in [Orgs -> {"absent", "live", "deleted"}]
    /\ members \in [Orgs -> [Users -> Roles \cup {"none"}]]
    /\ invitations \in [Invites -> Invitation]
    /\ calls \in [Callers -> Call]

\* An organization always has an owner, and its owners' accounts exist: demotions,
\* removals, departures and erasures that overlap never leave it without one.
OwnerRemains ==
    \A o \in Orgs : Live(o) => \E u \in Owners(o) : accounts[u] = "active"

\* An account that was deleted is named by no membership and no invitation, and a deleted
\* organization keeps no members or invitations, whatever was under way meanwhile.
ErasureLeavesNothing ==
    /\ \A u \in Users : accounts[u] = "deleted" =>
          /\ \A o \in Orgs : ~IsMember(u, o)
          /\ \A i \in Invites : u \notin {invitations[i].by, invitations[i].acceptedBy}
    /\ \A o \in Orgs : orgs[o] = "deleted" =>
          /\ MembersOf(o) = {}
          /\ \A i \in Invites : invitations[i].org # o

Manages(v, o, role) ==
    accounts[v] = "active" /\ RoleOf(v, o) \in Admins /\ Rank(role) <= Rank(RoleOf(v, o))

\* The call c that ends writes the membership of u in o, and had the right to: of a member
\* its own actor manages the role that goes and the role that comes; a newcomer accepts an
\* open invitation whose inviter manages the role that comes.
Backs(c, o, u) ==
    LET call == calls[c] IN
    /\ calls'[c] # call /\ call.org = o
    /\ IF IsMember(u, o)
       THEN /\ call.kind \in {"role", "remove"} /\ call.target = u /\ call.actor # u
            /\ Manages(call.actor, o, RoleOf(u, o))
            /\ members'[o][u] # "none" => Manages(call.actor, o, members'[o][u])
       ELSE /\ call.kind \in {"accept", "join"} /\ call.actor = u
            /\ Open(call.invite) /\ invitations'[call.invite].state = "accepted"
            /\ invitations[call.invite].org = o /\ invitations[call.invite].email = u
            /\ invitations[call.invite].by # None
            /\ Manages(invitations[call.invite].by, o, members'[o][u])

\* Whoever changes a role, removes a member or brings one in has the authority for it at
\* the moment it is committed, although it was read earlier: the call of an administrator
\* who was demoted or removed meanwhile, or the invitation of one, changes nothing.
AuthorityIsCurrent ==
    [][\A o \in Orgs, u \in Users :
          /\ Live(o) /\ orgs'[o] = "live" /\ accounts'[u] = "active"
          /\ members'[o][u] # RoleOf(u, o)
          => \E c \in Callers : Backs(c, o, u)]_vars

\* An invitation is used once: accepted or revoked, it stays so until it is erased.
InvitationsAreFinal ==
    [][\A i \in Invites :
          invitations[i].state \in {"accepted", "revoked"} =>
              invitations'[i].state \in {invitations[i].state, "erased"}]_vars

\* Calls never stand still together: although an erasure locks a user before organizations
\* and the others an organization before a user, while a call is under way one can move.
UnderWay == {c \in Callers : calls[c].kind # "none"}
NoStandstill == UnderWay # {} => \E c \in Callers : ENABLED Proceeds(c)

\* The same without ENABLED: while calls are under way, the rows one of them waits for are
\* free, or it is in a deadlock that the database breaks.
SomeoneCanGo ==
    UnderWay # {} =>
        \E c \in UnderWay : (\A row \in WaitsFor(c) : Free(row, c)) \/ InDeadlock(c)

=============================================================================
