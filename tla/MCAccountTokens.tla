-------------------------- MODULE MCAccountTokens ---------------------------
(***************************************************************************)
(* A small instance of AccountTokens for TLC.                              *)
(***************************************************************************)
EXTENDS AccountTokens, TLC

CONSTANTS c1, c2

\* Both know the password and the mailbox.
Routes == (c1 :> {"login", "request_reset", "confirm_reset", "request_verify"})
          @@ (c2 :> {"change", "delete", "logout_all", "confirm_reset",
                     "request_verify", "confirm_verify"})

\* A third verification token meets the daily cap, and is mailed once the window has slid.
TokensOf == [reset |-> 1, verify |-> 3]

=============================================================================
