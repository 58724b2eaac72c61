----------------------------- MODULE MCTenancy ------------------------------
(***************************************************************************)
(* Small instances of Tenancy for TLC.                                     *)
(***************************************************************************)
EXTENDS Tenancy, TLC

CONSTANTS u1, u2, u3, i1, c1, c2

\* One caller invites, revokes, changes roles, registers and leaves, the other accepts, removes
\* members, leaves and closes an organization.
Routes == (c1 :> {"invite", "revoke", "role", "register", "leave", "forget"})
          @@ (c2 :> {"accept", "join", "remove", "leave", "close"})

\* Two owners, and an address without an account.
TwoOwners == (u1 :> "owner") @@ (u2 :> "owner") @@ (u3 :> "none")

EqualOwners == Permutations({u1, u2})

=============================================================================
