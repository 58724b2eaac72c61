--------------------------- MODULE AccountTokens ----------------------------
(***************************************************************************)
(* The credentials of one account (app/auth/service.py,                    *)
(* app/auth/account_tokens.py, app/auth/dependencies.py,                   *)
(* app/auth/mail_dispatch.py): its password and credential epoch, sign-in  *)
(* sessions and the access tokens minted in them, mailed password-reset    *)
(* and email-verification tokens.                                          *)
(*                                                                         *)
(* A call reads its rows and the database clock, hashes with bcrypt while  *)
(* it holds no lock, and then decides and writes in one transaction under  *)
(* FOR UPDATE on the user row: it has a first step and a last one.  Every  *)
(* row the last step decides on is written under that lock or by one       *)
(* conditional UPDATE, so it is one action.                                *)
(*                                                                         *)
(* A password is a version number.  A secret is held by whoever shows it:  *)
(* a caller knows the current password, or a token that was mailed.        *)
(***************************************************************************)
EXTENDS Naturals, Sequences, FiniteSets

CONSTANTS
    Callers,      \* concurrent requests
    MayCall,      \* bound: the routes each of them calls
    Cooldown,     \* auth_mail_cooldown_seconds
    Window,       \* the trailing window of the daily cap
    DailyCap,     \* auth_mail_daily_cap
    Ttl,          \* lifetime of a mailed token
    MaxNow,       \* bound on the clock
    MaxChanges,   \* bound on credential changes
    MaxTokens,    \* bound on the mailed tokens of each purpose
    MaxSessions   \* bound on sign-ins

Purposes == {"reset", "verify"}
Kinds == {"login", "logout", "logout_all", "change", "delete",
          "request_reset", "confirm_reset", "request_verify", "confirm_verify"}

ASSUME AccountTokensAssumption ==
    /\ {Cooldown, Window, DailyCap, Ttl} \subseteq Nat \ {0}
    /\ {MaxNow, MaxChanges, MaxSessions} \subseteq Nat
    /\ MaxTokens \in [Purposes -> Nat]
    /\ MayCall \in [Callers -> SUBSET Kinds]

VARIABLES
    now,        \* the database clock
    user,       \* the user row
    sessions,   \* auth_sessions: whether each one is over, revoked or expired
    access,     \* the access tokens that were handed out
    tokens,     \* per purpose, its table of mailed tokens, oldest first
    calls       \* what each request read

vars == <<now, user, sessions, access, tokens, calls>>

NoCall == [kind |-> "none", epoch |-> 0, password |-> 0, now |-> 0, id |-> 0]

Init ==
    /\ now = 0
    /\ user = [exists |-> TRUE, password |-> 0, epoch |-> 0, verified |-> FALSE]
    /\ sessions = <<>>
    /\ access = {}
    /\ tokens = [p \in Purposes |-> <<>>]
    /\ calls = [c \in Callers |-> NoCall]

Tick ==
    /\ now < MaxNow
    /\ now' = now + 1
    /\ UNCHANGED <<user, sessions, access, tokens, calls>>

-----------------------------------------------------------------------------
\* Requests.

Begins(c, call) ==
    /\ calls[c] = NoCall
    /\ call.kind \in MayCall[c]
    /\ calls' = [calls EXCEPT ![c] = call]
    /\ UNCHANGED <<now, user, sessions, access, tokens>>

Ends(c) == calls' = [calls EXCEPT ![c] = NoCall] /\ UNCHANGED now

Refused(c) == Ends(c) /\ UNCHANGED <<user, sessions, access, tokens>>

\* What a request that loads the user row carries: the values it was loaded with.
Loaded(kind, id) ==
    [NoCall EXCEPT !.kind = kind, !.id = id, !.epoch = user.epoch, !.password = user.password]

\* get_authenticated_session.
Authenticates(a) ==
    /\ user.exists
    /\ a.epoch = user.epoch
    /\ ~sessions[a.sid]

-----------------------------------------------------------------------------
\* Sign in and out.

\* authenticate: the password is verified against the row, with no lock.
LoginVerifies(c) == user.exists /\ Begins(c, Loaded("login", 0))

\* Mutant: the row is read again for the token.
MintedEpochBug(call) == user.epoch
\* issue_token: the epoch that was loaded with the verified hash.
MintedEpoch(call) == call.epoch

\* _fresh_session: the session and its audit rows are committed, then the token is minted.
LoginCommits(c) ==
    LET call == calls[c] IN
    /\ call.kind = "login"
    /\ IF user.exists /\ Len(sessions) < MaxSessions
       THEN /\ sessions' = Append(sessions, FALSE)
            /\ access' = access \cup {[sid |-> Len(sessions) + 1, epoch |-> MintedEpoch(call),
                                       proof |-> call.password]}
            /\ Ends(c) /\ UNCHANGED <<user, tokens>>
       ELSE Refused(c)

\* Its absolute lifetime is over.
SessionExpires(s) ==
    /\ s \in DOMAIN sessions /\ ~sessions[s]
    /\ sessions' = [sessions EXCEPT ![s] = TRUE]
    /\ UNCHANGED <<now, user, access, tokens, calls>>

LogoutAuthenticates(c) ==
    \E a \in access, kind \in {"logout", "logout_all"} :
        Authenticates(a) /\ Begins(c, Loaded(kind, a.sid))

LogoutCommits(c) ==
    /\ calls[c].kind \in {"logout", "logout_all"}
    /\ sessions' = [s \in DOMAIN sessions |->
                       sessions[s] \/ calls[c].kind = "logout_all" \/ s = calls[c].id]
    /\ Ends(c) /\ UNCHANGED <<user, access, tokens>>

-----------------------------------------------------------------------------
\* Mailed tokens.

Open(token) == ~token.used /\ ~token.revoked
\* _open_predicate.
OpenAt(token, time) == Open(token) /\ token.created + Ttl > time

\* _revoke_open.
RevokeOpen(rows) ==
    [t \in DOMAIN rows |-> IF Open(rows[t]) THEN [rows[t] EXCEPT !.revoked = TRUE] ELSE rows[t]]

\* Mutant: the rows created after the request read the clock are not counted.
CountedBug(rows, time) == {t \in DOMAIN rows : rows[t].created <= time}
\* Every row of the account, whenever it was created.
Counted(rows, time) == DOMAIN rows

\* _throttled, at the clock the request read before it waited for the lock.
Throttled(rows, time) ==
    LET mine == Counted(rows, time) IN
    \/ \E t \in mine : rows[t].created + Cooldown > time
    \/ Cardinality({t \in mine : rows[t].created + Window > time}) >= DailyCap

\* _issue revokes the open tokens first.
Superseded(rows) == RevokeOpen(rows)

\* A request for a token reads the clock: with an address only, or signed in.
RequestReads(c) ==
    \/ Begins(c, [NoCall EXCEPT !.kind = "request_reset", !.now = now])
    \/ \E a \in access :
          Authenticates(a) /\ Begins(c, [Loaded("request_verify", 0) EXCEPT !.now = now])

RequestMints(c) ==
    LET call == calls[c]
        p == IF call.kind = "request_reset" THEN "reset" ELSE "verify"
    IN
    /\ call.kind \in {"request_reset", "request_verify"}
    /\ IF /\ user.exists
          /\ p = "verify" => ~user.verified
          /\ ~Throttled(tokens[p], call.now)
          /\ Len(tokens[p]) < MaxTokens[p]
       THEN /\ tokens' = [tokens EXCEPT ![p] =
                  Append(Superseded(@), [used |-> FALSE, revoked |-> FALSE,
                      created |-> call.now, sent |-> FALSE, born |-> user.password])]
            /\ Ends(c) /\ UNCHANGED <<user, sessions, access>>
       ELSE Refused(c)

\* The background task of the request: the mail goes out, or the token is revoked in a
\* session of its own.  When that fails, or the process dies, nothing happens.
Delivers(p, t) ==
    /\ t \in DOMAIN tokens[p] /\ ~tokens[p][t].sent
    /\ \/ tokens' = [tokens EXCEPT ![p][t].sent = TRUE]
       \/ Open(tokens[p][t]) /\ tokens' = [tokens EXCEPT ![p][t].revoked = TRUE]
    /\ UNCHANGED <<now, user, sessions, access, calls>>

\* A token that reached the mailbox is presented: a reset with no sign-in, a verification by
\* the signed-in account.  The row is found and the clock is read.
ConfirmReads(c) ==
    \E p \in Purposes : \E t \in DOMAIN tokens[p] :
        /\ tokens[p][t].sent
        /\ \/ p = "reset" /\ OpenAt(tokens[p][t], now)
              /\ Begins(c, [NoCall EXCEPT !.kind = "confirm_reset", !.id = t, !.now = now])
           \/ p = "verify" /\ (\E a \in access : Authenticates(a))
              /\ Begins(c, [Loaded("confirm_verify", t) EXCEPT !.now = now])

\* Mutant: the claim does not repeat the open predicate.
ClaimableBug(token, time) == TRUE
\* _claim: the predicate is in the UPDATE, at the clock that was read.
Claimable(token, time) == OpenAt(token, time)

\* The token is spent and the account's other open ones are revoked.
Spent(rows, t) == RevokeOpen([rows EXCEPT ![t].used = TRUE])

ConfirmResetCommits(c) ==
    LET call == calls[c] IN
    /\ call.kind = "confirm_reset"
    /\ IF user.exists /\ Claimable(tokens["reset"][call.id], call.now)
       THEN /\ user.password < MaxChanges
            /\ user' = [user EXCEPT !.password = @ + 1, !.epoch = @ + 1, !.verified = TRUE]
            /\ tokens' = [tokens EXCEPT !["reset"] = Spent(@, call.id)]
            /\ Ends(c) /\ UNCHANGED <<sessions, access>>
       ELSE Refused(c)

ConfirmVerifyCommits(c) ==
    LET call == calls[c] IN
    /\ call.kind = "confirm_verify"
    /\ IF user.exists /\ Claimable(tokens["verify"][call.id], call.now)
       THEN /\ user' = [user EXCEPT !.verified = TRUE]
            /\ tokens' = [tokens EXCEPT !["verify"] = Spent(@, call.id)]
            /\ Ends(c) /\ UNCHANGED <<sessions, access>>
       ELSE Refused(c)

-----------------------------------------------------------------------------
\* Change the password, delete the account: signed in, with the current password again.

ProofReads(c) ==
    \E a \in access, kind \in {"change", "delete"} :
        Authenticates(a) /\ Begins(c, Loaded(kind, 0))

\* Mutant: the locked row is not compared with what was verified.
UnchangedSinceVerifiedBug(call) == user.exists
\* _unchanged_since_verified, on the locked row.
UnchangedSinceVerified(call) ==
    user.exists /\ user.epoch = call.epoch /\ user.password = call.password

ChangeCommits(c) ==
    LET call == calls[c] IN
    /\ call.kind = "change"
    /\ IF UnchangedSinceVerified(call)
       THEN /\ user.password < MaxChanges
            /\ user' = [user EXCEPT !.password = @ + 1, !.epoch = @ + 1]
            /\ tokens' = [tokens EXCEPT !["reset"] = RevokeOpen(@)]
            /\ Ends(c) /\ UNCHANGED <<sessions, access>>
       ELSE Refused(c)

\* delete_account: the row goes, and with it its sessions and tokens.
DeleteCommits(c) ==
    /\ calls[c].kind = "delete"
    /\ IF UnchangedSinceVerified(calls[c])
       THEN /\ user' = [user EXCEPT !.exists = FALSE]
            /\ tokens' = [p \in Purposes |-> RevokeOpen(tokens[p])]
            /\ sessions' = [s \in DOMAIN sessions |-> TRUE]
            /\ Ends(c) /\ UNCHANGED access
       ELSE Refused(c)

Next ==
    \/ Tick
    \/ \E s \in 1..MaxSessions : SessionExpires(s)
    \/ \E p \in Purposes : \E t \in 1..MaxTokens[p] : Delivers(p, t)
    \/ \E c \in Callers :
          \/ LoginVerifies(c) \/ LoginCommits(c)
          \/ LogoutAuthenticates(c) \/ LogoutCommits(c)
          \/ RequestReads(c) \/ RequestMints(c)
          \/ ConfirmReads(c) \/ ConfirmResetCommits(c) \/ ConfirmVerifyCommits(c)
          \/ ProofReads(c) \/ ChangeCommits(c) \/ DeleteCommits(c)

Spec == Init /\ [][Next]_vars

-----------------------------------------------------------------------------
(***************************************************************************)
(* Properties.                                                             *)
(***************************************************************************)

TokenRow ==
    [used: BOOLEAN, revoked: BOOLEAN, created: 0..MaxNow, sent: BOOLEAN, born: 0..MaxChanges]

\* The rows and the requests hold values the code can store.
TypeOK ==
    /\ now \in 0..MaxNow
    /\ user \in [exists: BOOLEAN, password: 0..MaxChanges, epoch: 0..MaxChanges,
                 verified: BOOLEAN]
    /\ sessions \in Seq(BOOLEAN)
    /\ access \subseteq [sid: DOMAIN sessions, epoch: 0..MaxChanges, proof: 0..MaxChanges]
    /\ tokens \in [Purposes -> Seq(TokenRow)]
    /\ calls \in [Callers -> [kind: Kinds \cup {"none"}, epoch: 0..MaxChanges,
                              password: 0..MaxChanges, now: 0..MaxNow, id: Nat]]

AccessFollowsPassword ==
    \A a \in access : Authenticates(a) => a.proof = user.password

LinksFollowPassword ==
    \A t \in DOMAIN tokens["reset"] :
        Open(tokens["reset"][t]) => tokens["reset"][t].born = user.password

\* A change or a reset of the password ends what was obtained before it.  An access token
\* authenticates only while the password that opened its session is in force, that of a
\* sign-in which had verified the old password and committed afterwards included; and a
\* reset link mailed earlier cannot take the account back, though its request read the
\* clock and waited while the password changed.
CredentialsFollowPassword == AccessFollowsPassword /\ LinksFollowPassword

\* At most one token of each purpose is open, without the help of the unique index.
OneOpenToken ==
    \A p \in Purposes : \A s, t \in DOMAIN tokens[p] :
        Open(tokens[p][s]) /\ Open(tokens[p][t]) => s = t

\* The tokens issued in the window that ends with s.
IssuedBefore(rows, s) ==
    {t \in DOMAIN rows : /\ rows[t].created <= rows[s].created
                         /\ rows[t].created + Window > rows[s].created}

\* Tokens of one purpose are issued a cooldown apart and at most DailyCap in any window,
\* although requests read the clock first and then wait for each other.
MailIsThrottled ==
    \A p \in Purposes : \A s \in DOMAIN tokens[p] :
        /\ \A t \in DOMAIN tokens[p] :
              s < t => tokens[p][s].created + Cooldown <= tokens[p][t].created
        /\ Cardinality(IssuedBefore(tokens[p], s)) <= DailyCap

\* What the request goes by, a password or a link, belongs to the password in force.
Proves(call) ==
    \/ call.kind \in {"change", "delete"} /\ call.password = user.password
    \/ call.kind = "confirm_reset" /\ tokens["reset"][call.id].born = user.password

\* A password is replaced, and the account deleted, only by a request whose proof, the
\* password it verified or the link it presents, was made with that very password in force:
\* of two changes that began with one proof, one wins.
ProofIsCurrent ==
    [][user'.password # user.password \/ user'.exists # user.exists =>
          \E c \in Callers : calls'[c] # calls[c] /\ Proves(calls[c])]_vars

Presents(call, p, t) ==
    call.id = t /\ call.kind = (IF p = "reset" THEN "confirm_reset" ELSE "confirm_verify")

\* A token is spent once: of two confirmations that found it open, only one acts.  Used or
\* revoked it stays so, and a request that presents it then ends with the user as it was,
\* its password not replaced and its address not verified.
SpentOnce ==
    [][\A p \in Purposes : \A t \in DOMAIN tokens[p] :
          ~Open(tokens[p][t]) =>
              /\ tokens'[p][t].used = tokens[p][t].used
              /\ tokens'[p][t].revoked = tokens[p][t].revoked
              /\ \A c \in Callers :
                    Presents(calls[c], p, t) /\ calls'[c] # calls[c] => user' = user]_vars

=============================================================================
