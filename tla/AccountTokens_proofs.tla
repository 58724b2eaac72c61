------------------------ MODULE AccountTokens_proofs ------------------------
(***************************************************************************)
(* Proofs about the credentials of an account, for any callers, routes,    *)
(* cooldown, window, cap, lifetime and bounds: the types, that credentials *)
(* follow the password, that one link of a purpose is open, that a token   *)
(* is spent once and that a proof is current.                              *)
(***************************************************************************)
EXTENDS AccountTokens, TLAPS, SequenceTheorems, FiniteSetTheorems

-----------------------------------------------------------------------------
\* What a table of tokens keeps when it is written: its rows, their times and passwords;
\* no row opens again, and one that is not open is left as it is.
Aged(old, new) ==
    /\ new \in Seq(TokenRow)
    /\ Len(new) = Len(old)
    /\ \A t \in 1..Len(old) :
          /\ new[t].created = old[t].created /\ new[t].born = old[t].born
          /\ Open(new[t]) => Open(old[t])
          /\ ~Open(old[t]) => new[t].used = old[t].used /\ new[t].revoked = old[t].revoked

AllClosed(rows) == \A t \in 1..Len(rows) : ~Open(rows[t])

LEMMA RevokeOpenRows ==
    ASSUME NEW rows \in Seq(TokenRow)
    PROVE  Aged(rows, RevokeOpen(rows)) /\ AllClosed(RevokeOpen(rows))
<1> DEFINE row(t) == IF Open(rows[t]) THEN [rows[t] EXCEPT !.revoked = TRUE] ELSE rows[t]
<1>1. RevokeOpen(rows) = [t \in 1..Len(rows) |-> row(t)]
  BY DEF RevokeOpen
<1>2. ASSUME NEW t \in 1..Len(rows)
      PROVE  /\ row(t) \in TokenRow /\ ~Open(row(t))
             /\ row(t).created = rows[t].created /\ row(t).born = rows[t].born
             /\ ~Open(rows[t]) => row(t) = rows[t]
  <2>1. rows[t] \in TokenRow
    BY ElementOfSeq
  <2>2. QED
    BY <2>1 DEF TokenRow, Open
<1> HIDE DEF row
<1>3. RevokeOpen(rows) \in Seq(TokenRow) /\ Len(RevokeOpen(rows)) = Len(rows)
  BY <1>1, <1>2, IsASeq
<1>4. QED
  BY <1>1, <1>2, <1>3 DEF Aged, AllClosed

LEMMA RowsAge == ASSUME NEW rows \in Seq(TokenRow) PROVE Aged(rows, rows)
  BY DEF Aged

\* A token that is open is spent with all the others.
LEMMA SpentRows ==
    ASSUME NEW rows \in Seq(TokenRow), NEW t \in 1..Len(rows), Open(rows[t])
    PROVE  Aged(rows, Spent(rows, t)) /\ AllClosed(Spent(rows, t))
<1> DEFINE used == [rows EXCEPT ![t].used = TRUE]
<1>1. rows[t] \in TokenRow
  BY ElementOfSeq
<1>2. [rows[t] EXCEPT !.used = TRUE] \in TokenRow
  BY <1>1 DEF TokenRow
<1>3. used \in Seq(TokenRow) /\ Len(used) = Len(rows)
      /\ \A i \in 1..Len(rows) : used[i] = IF i = t THEN [rows[t] EXCEPT !.used = TRUE] ELSE rows[i]
  BY <1>2, ExceptSeq
<1>4. Aged(rows, used)
  <2> HIDE DEF used
  <2>1. ASSUME NEW i \in 1..Len(rows)
        PROVE  /\ used[i].created = rows[i].created /\ used[i].born = rows[i].born
               /\ Open(used[i]) => Open(rows[i])
               /\ ~Open(rows[i]) => used[i].used = rows[i].used /\ used[i].revoked = rows[i].revoked
    <3>1. CASE i = t
      BY <1>1, <1>3, <3>1 DEF Open, TokenRow
    <3>2. CASE i # t
      BY <1>3, <3>2
    <3>3. QED
      BY <3>1, <3>2
  <2>2. QED
    BY <1>3, <2>1 DEF Aged
<1> HIDE DEF used
<1>5. Aged(used, RevokeOpen(used)) /\ AllClosed(RevokeOpen(used))
  BY <1>3, RevokeOpenRows
<1>6. Spent(rows, t) = RevokeOpen(used)
  BY DEF Spent, used
<1>7. Aged(rows, RevokeOpen(used))
  BY <1>4, <1>5, <1>3 DEF Aged
<1>8. QED
  BY <1>5, <1>6, <1>7

-----------------------------------------------------------------------------
\* The epoch counts the passwords; what was read or minted together says so for ever; a
\* request that presents a link names a row.
Call == [kind: Kinds \cup {"none"}, epoch: 0..MaxChanges, password: 0..MaxChanges,
         now: 0..MaxNow, id: Nat]

SoundCall(call, tables) ==
    /\ call \in Call
    /\ call.epoch = call.password
    /\ call.kind = "confirm_reset" => call.id \in DOMAIN tables["reset"]
    /\ call.kind = "confirm_verify" => call.id \in DOMAIN tables["verify"]

EpochsFollow ==
    /\ user.epoch = user.password
    /\ \A a \in access : a.epoch = a.proof

CallsAreSound == \A c \in Callers : SoundCall(calls[c], tokens)

Inv == TypeOK /\ EpochsFollow /\ CallsAreSound /\ LinksFollowPassword /\ OneOpenToken

LEMMA PurposesAre == \A p : p \in Purposes <=> p = "reset" \/ p = "verify"
  BY DEF Purposes

LEMMA TablesTyped ==
    ASSUME TypeOK, NEW p \in Purposes
    PROVE  /\ tokens[p] \in Seq(TokenRow) /\ DOMAIN tokens[p] = 1..Len(tokens[p])
           /\ Len(tokens[p]) \in Nat
  BY LenProperties DEF TypeOK

LEMMA NoCallIsSound == \A tables : SoundCall(NoCall, tables)
<1>1. NoCall \in Call
  BY AccountTokensAssumption DEF NoCall, Call
<1>2. QED
  BY <1>1 DEF NoCall, SoundCall

-----------------------------------------------------------------------------
\* What a write of the token tables has to keep, whoever makes it.
TablesAge == /\ tokens' \in [Purposes -> Seq(TokenRow)]
             /\ \A p \in Purposes : Aged(tokens[p], tokens'[p])

LEMMA AgedTables ==
    ASSUME Inv, TablesAge,
           user'.password = user.password \/ AllClosed(tokens'["reset"])
    PROVE  /\ LinksFollowPassword' /\ OneOpenToken'
           /\ \A p \in Purposes : DOMAIN tokens'[p] = DOMAIN tokens[p]
<1> USE DEF Inv
<1>1. ASSUME NEW p \in Purposes
      PROVE  /\ DOMAIN tokens'[p] = DOMAIN tokens[p] /\ DOMAIN tokens[p] = 1..Len(tokens[p])
             /\ \A s, t \in DOMAIN tokens'[p] :
                   Open(tokens'[p][s]) /\ Open(tokens'[p][t]) => s = t
  <2>1. Aged(tokens[p], tokens'[p]) /\ tokens[p] \in Seq(TokenRow)
    BY TablesTyped DEF TablesAge
  <2>2. DOMAIN tokens[p] = 1..Len(tokens[p]) /\ DOMAIN tokens'[p] = 1..Len(tokens[p])
    BY <2>1, LenProperties DEF Aged
  <2>3. QED
    BY <2>1, <2>2 DEF Aged, OneOpenToken
<1>2. ASSUME NEW t \in DOMAIN tokens'["reset"], Open(tokens'["reset"][t])
      PROVE  tokens'["reset"][t].born = user'.password
  <2>1. Aged(tokens["reset"], tokens'["reset"])
    BY PurposesAre DEF TablesAge
  <2>2. t \in 1..Len(tokens["reset"]) /\ t \in DOMAIN tokens["reset"]
    BY <1>1, PurposesAre
  <2>3. user'.password = user.password
    BY <1>2, <2>1, <2>2 DEF AllClosed, Aged
  <2>4. QED
    BY <1>2, <2>1, <2>2, <2>3 DEF Aged, LinksFollowPassword
<1>3. LinksFollowPassword'
  BY <1>2 DEF LinksFollowPassword, Open
<1>4. OneOpenToken'
  BY <1>1 DEF OneOpenToken, Open
<1>5. QED
  BY <1>1, <1>3, <1>4

\* A request that ends leaves the others as they are.
LEMMA CallsAfter ==
    ASSUME Inv, NEW c \in Callers, NEW call, calls' = [calls EXCEPT ![c] = call],
           SoundCall(call, tokens'), \A p \in Purposes : DOMAIN tokens[p] \subseteq DOMAIN tokens'[p]
    PROVE  CallsAreSound' /\ calls' \in [Callers -> Call]
<1>1. calls \in [Callers -> Call]
  BY DEF Inv, TypeOK, Call
<1>2. ASSUME NEW d \in Callers PROVE SoundCall(calls'[d], tokens')
  <2>1. CASE d = c
    <3>1. calls'[d] = call
      BY <1>1, <2>1
    <3>2. QED
      BY <3>1
  <2>2. CASE d # c
    <3>1. calls'[d] = calls[d] /\ SoundCall(calls[d], tokens)
      BY <1>1, <2>2 DEF Inv, CallsAreSound
    <3>2. QED
      BY <3>1, PurposesAre DEF SoundCall
  <2>3. QED
    BY <2>1, <2>2
<1>3. CallsAreSound'
  BY <1>2 DEF CallsAreSound
<1>4. call \in Call
  BY DEF SoundCall
<1>5. QED
  BY <1>1, <1>3, <1>4

-----------------------------------------------------------------------------
\* A request begins, or ends and changes nothing else.
LEMMA OnlyCalls ==
    ASSUME Inv, NEW c \in Callers, NEW call, calls' = [calls EXCEPT ![c] = call],
           SoundCall(call, tokens), UNCHANGED <<now, user, sessions, access, tokens>>
    PROVE  Inv'
<1>1. CallsAreSound' /\ calls' \in [Callers -> Call]
  BY CallsAfter
<1>2. TypeOK'
  BY <1>1 DEF Inv, TypeOK, Call
<1>3. LinksFollowPassword' /\ OneOpenToken' /\ EpochsFollow'
  BY DEF Inv, LinksFollowPassword, OneOpenToken, EpochsFollow
<1>4. QED
  BY <1>1, <1>2, <1>3 DEF Inv

LEMMA BeginsKeeps ==
    ASSUME Inv, NEW c \in Callers, NEW call, Begins(c, call), SoundCall(call, tokens)
    PROVE  Inv'
  BY OnlyCalls DEF Begins

LEMMA RefusedKeeps == ASSUME Inv, NEW c \in Callers, Refused(c) PROVE Inv'
  BY OnlyCalls, NoCallIsSound DEF Refused, Ends

\* What loads the user row carries an epoch and a password that belong together.
LEMMA LoadedIsSound ==
    ASSUME Inv, NEW kind \in Kinds, NEW id \in Nat, NEW time \in 0..MaxNow,
           kind = "confirm_reset" => id \in DOMAIN tokens["reset"],
           kind = "confirm_verify" => id \in DOMAIN tokens["verify"]
    PROVE  /\ SoundCall(Loaded(kind, id), tokens)
           /\ SoundCall([Loaded(kind, id) EXCEPT !.now = time], tokens)
           /\ SoundCall([NoCall EXCEPT !.kind = kind, !.id = id, !.now = time], tokens)
           /\ id = 0 => SoundCall([NoCall EXCEPT !.kind = kind, !.now = time], tokens)
<1>1. user.epoch \in 0..MaxChanges /\ user.password = user.epoch
  BY DEF Inv, TypeOK, EpochsFollow
<1>2. 0 \in 0..MaxChanges /\ 0 \in 0..MaxNow
  BY AccountTokensAssumption
<1>3. QED
  BY <1>1, <1>2 DEF SoundCall, Call, Loaded, NoCall

LEMMA ReadingSteps ==
    ASSUME Inv, NEW c \in Callers,
           \/ LoginVerifies(c) \/ LogoutAuthenticates(c) \/ RequestReads(c)
           \/ ConfirmReads(c) \/ ProofReads(c)
    PROVE  Inv'
<1> USE DEF Kinds
<1>1. now \in 0..MaxNow /\ 0 \in 0..MaxNow /\ 0 \in Nat
  BY AccountTokensAssumption DEF Inv, TypeOK
<1>2. CASE LoginVerifies(c)
  BY <1>1, <1>2, BeginsKeeps, LoadedIsSound DEF LoginVerifies
<1>3. CASE LogoutAuthenticates(c)
  <2>1. PICK a \in access, kind \in {"logout", "logout_all"} : Begins(c, Loaded(kind, a.sid))
    BY <1>3 DEF LogoutAuthenticates
  <2>2. a.sid \in Nat
    BY LenProperties DEF Inv, TypeOK
  <2>3. SoundCall(Loaded(kind, a.sid), tokens)
    BY <1>1, <2>2, LoadedIsSound
  <2>4. QED
    BY <2>1, <2>3, BeginsKeeps
<1>4. CASE RequestReads(c)
  BY <1>1, <1>4, BeginsKeeps, LoadedIsSound DEF RequestReads
<1>5. CASE ConfirmReads(c)
  <2>0. PICK p \in Purposes : \E t \in DOMAIN tokens[p] :
           \/ p = "reset" /\ Begins(c, [NoCall EXCEPT !.kind = "confirm_reset", !.id = t, !.now = now])
           \/ p = "verify" /\ Begins(c, [Loaded("confirm_verify", t) EXCEPT !.now = now])
    BY <1>5 DEF ConfirmReads
  <2>1. PICK t \in DOMAIN tokens[p] :
           \/ p = "reset" /\ Begins(c, [NoCall EXCEPT !.kind = "confirm_reset", !.id = t, !.now = now])
           \/ p = "verify" /\ Begins(c, [Loaded("confirm_verify", t) EXCEPT !.now = now])
    BY <2>0
  <2>2. t \in Nat
    BY TablesTyped DEF Inv
  <2>3. CASE p = "reset"
    <3>1. SoundCall([NoCall EXCEPT !.kind = "confirm_reset", !.id = t, !.now = now], tokens)
      BY <1>1, <2>2, <2>3, LoadedIsSound
    <3>2. QED
      BY <2>1, <2>3, <3>1, BeginsKeeps
  <2>4. CASE p = "verify"
    <3>1. SoundCall([Loaded("confirm_verify", t) EXCEPT !.now = now], tokens)
      BY <1>1, <2>2, <2>4, LoadedIsSound
    <3>2. QED
      BY <2>1, <2>4, <3>1, BeginsKeeps
  <2>5. QED
    BY <2>3, <2>4, PurposesAre
<1>6. CASE ProofReads(c)
  <2>1. PICK kind \in {"change", "delete"} : Begins(c, Loaded(kind, 0))
    BY <1>6 DEF ProofReads
  <2>2. SoundCall(Loaded(kind, 0), tokens)
    BY <1>1, LoadedIsSound
  <2>3. QED
    BY <2>1, <2>2, BeginsKeeps
<1>7. QED
  BY <1>2, <1>3, <1>4, <1>5, <1>6

-----------------------------------------------------------------------------
\* Commits that add no token.
UserRow == [exists: BOOLEAN, password: 0..MaxChanges, epoch: 0..MaxChanges, verified: BOOLEAN]
AccessIn(rows) == [sid: DOMAIN rows, epoch: 0..MaxChanges, proof: 0..MaxChanges]

LEMMA CommitKeeps ==
    ASSUME Inv, NEW c \in Callers, Ends(c), TablesAge,
           user'.password = user.password \/ AllClosed(tokens'["reset"]),
           user' \in UserRow, user'.epoch = user'.password,
           sessions' \in Seq(BOOLEAN), DOMAIN sessions \subseteq DOMAIN sessions',
           \A a \in access' : a \in access \/ (a \in AccessIn(sessions') /\ a.epoch = a.proof)
    PROVE  Inv'
<1>1. LinksFollowPassword' /\ OneOpenToken'
      /\ \A p \in Purposes : DOMAIN tokens'[p] = DOMAIN tokens[p]
  BY AgedTables
<1>2. CallsAreSound' /\ calls' \in [Callers -> Call]
  BY <1>1, CallsAfter, NoCallIsSound DEF Ends
<1>3. \A a \in access' : a \in AccessIn(sessions') /\ a.epoch = a.proof
  BY DEF Inv, TypeOK, EpochsFollow, AccessIn
<1>4. TypeOK'
  BY <1>2, <1>3 DEF Inv, TypeOK, Call, UserRow, AccessIn, Ends, TablesAge
<1>5. EpochsFollow'
  BY <1>3 DEF EpochsFollow
<1>6. QED
  BY <1>1, <1>2, <1>4, <1>5 DEF Inv

LEMMA SameTables == ASSUME Inv, tokens' = tokens PROVE TablesAge
  BY TablesTyped, RowsAge DEF Inv, TypeOK, TablesAge

LEMMA OneTable ==
    ASSUME Inv, NEW p \in Purposes, NEW rows, tokens' = [tokens EXCEPT ![p] = rows],
           Aged(tokens[p], rows)
    PROVE  TablesAge /\ tokens'[p] = rows
<1>1. rows \in Seq(TokenRow) /\ tokens \in [Purposes -> Seq(TokenRow)]
  BY DEF Aged, Inv, TypeOK
<1>2. tokens' \in [Purposes -> Seq(TokenRow)] /\ tokens'[p] = rows
  BY <1>1
<1>3. ASSUME NEW q \in Purposes PROVE Aged(tokens[q], tokens'[q])
  <2>1. tokens[q] \in Seq(TokenRow) /\ (q # p => tokens'[q] = tokens[q])
    BY <1>1
  <2>2. QED
    BY <1>2, <2>1, RowsAge
<1>4. QED
  BY <1>2, <1>3 DEF TablesAge

LEMMA SessionsAre ==
    ASSUME Inv
    PROVE  /\ sessions \in Seq(BOOLEAN) /\ DOMAIN sessions = 1..Len(sessions)
           /\ Len(sessions) \in Nat /\ user \in UserRow /\ user.epoch = user.password
           /\ access \subseteq AccessIn(sessions)
  BY LenProperties DEF Inv, TypeOK, UserRow, AccessIn, EpochsFollow

LEMMA LoginKeeps == ASSUME Inv, NEW c \in Callers, LoginCommits(c) PROVE Inv'
<1> DEFINE token == [sid |-> Len(sessions) + 1, epoch |-> calls[c].epoch, proof |-> calls[c].password]
<1>1. CASE Refused(c)
  BY <1>1, RefusedKeeps
<1>2. CASE /\ Ends(c) /\ UNCHANGED <<user, tokens>>
           /\ sessions' = Append(sessions, FALSE) /\ access' = access \cup {token}
  <2>1. sessions' \in Seq(BOOLEAN) /\ Len(sessions') = Len(sessions) + 1
    BY <1>2, SessionsAre, AppendProperties, FALSE \in BOOLEAN
  <2>2. DOMAIN sessions' = 1..(Len(sessions) + 1)
    BY <2>1, LenProperties
  <2>3. calls[c].epoch = calls[c].password /\ calls[c].password \in 0..MaxChanges
    BY DEF Inv, CallsAreSound, SoundCall, Call
  <2>4. token \in AccessIn(sessions') /\ token.epoch = token.proof
    BY <2>2, <2>3, SessionsAre DEF AccessIn
  <2>5. DOMAIN sessions \subseteq DOMAIN sessions'
    BY <2>2, SessionsAre
  <2>6. TablesAge
    BY <1>2, SameTables
  <2>7. QED
    BY <1>2, <2>1, <2>4, <2>5, <2>6, SessionsAre, CommitKeeps
<1>3. QED
  BY <1>1, <1>2 DEF LoginCommits, MintedEpoch

\* Sessions only end.
LEMMA EndedSessions ==
    ASSUME Inv, sessions' \in [DOMAIN sessions -> BOOLEAN]
    PROVE  sessions' \in Seq(BOOLEAN) /\ DOMAIN sessions' = DOMAIN sessions
  BY SessionsAre, SeqDef

LEMMA SessionStepsKeep ==
    ASSUME Inv,
           \/ \E c \in Callers : LogoutCommits(c)
           \/ \E s \in 1..MaxSessions : SessionExpires(s)
    PROVE  Inv'
<1>1. \A s \in DOMAIN sessions : sessions[s] \in BOOLEAN
  BY SessionsAre, ElementOfSeq
<1>2. ASSUME NEW c \in Callers, LogoutCommits(c) PROVE Inv'
  <2>1. sessions' \in [DOMAIN sessions -> BOOLEAN]
    BY <1>1, <1>2, Zenon DEF LogoutCommits
  <2>2. TablesAge
    BY <1>2, SameTables DEF LogoutCommits
  <2>3. QED
    BY <1>2, <2>1, <2>2, EndedSessions, SessionsAre, CommitKeeps DEF LogoutCommits, AccessIn
<1>3. ASSUME NEW s \in 1..MaxSessions, SessionExpires(s) PROVE Inv'
  <2>1. sessions' \in [DOMAIN sessions -> BOOLEAN]
    BY <1>1, <1>3, SessionsAre DEF SessionExpires
  <2>2. sessions' \in Seq(BOOLEAN) /\ DOMAIN sessions' = DOMAIN sessions
    BY <2>1, EndedSessions
  <2>3. TypeOK'
    BY <1>3, <2>2 DEF SessionExpires, Inv, TypeOK
  <2>4. (EpochsFollow /\ CallsAreSound /\ LinksFollowPassword /\ OneOpenToken)'
    BY <1>3 DEF SessionExpires, Inv, EpochsFollow, CallsAreSound, LinksFollowPassword, OneOpenToken
  <2>5. QED
    BY <2>3, <2>4 DEF Inv
<1>4. QED
  BY <1>2, <1>3

-----------------------------------------------------------------------------
\* The commits that spend or revoke tokens.
LEMMA CallIs ==
    ASSUME Inv, NEW c \in Callers
    PROVE  SoundCall(calls[c], tokens)
  BY DEF Inv, CallsAreSound

LEMMA PasswordAfter ==
    ASSUME Inv, user.password < MaxChanges, NEW verified \in BOOLEAN,
           user' = [user EXCEPT !.password = @ + 1, !.epoch = @ + 1, !.verified = verified]
    PROVE  user' \in UserRow /\ user'.epoch = user'.password
<1>1. user.password \in 0..MaxChanges /\ user.epoch = user.password /\ user \in UserRow
  BY SessionsAre DEF UserRow
<1>2. MaxChanges \in Nat
  BY AccountTokensAssumption
<1>3. user.password + 1 \in 0..MaxChanges /\ user.epoch + 1 = user.password + 1
  BY <1>1, <1>2
<1> HIDE DEF Inv
<1>4. user' = [user EXCEPT !.password = user.password + 1, !.epoch = user.password + 1,
                           !.verified = verified]
  BY <1>3
<1>5. QED
  BY <1>1, <1>3, <1>4 DEF UserRow

LEMMA ConfirmResetKeeps == ASSUME Inv, NEW c \in Callers, ConfirmResetCommits(c) PROVE Inv' /\ TablesAge
<1> DEFINE t == calls[c].id
<1>1. CASE Refused(c)
  BY <1>1, RefusedKeeps, SameTables DEF Refused
<1>2. CASE ~Refused(c)
  <2>1. /\ Claimable(tokens["reset"][t], calls[c].now) /\ user.password < MaxChanges
        /\ user' = [user EXCEPT !.password = @ + 1, !.epoch = @ + 1, !.verified = TRUE]
        /\ tokens' = [tokens EXCEPT !["reset"] = Spent(@, t)]
        /\ Ends(c) /\ UNCHANGED <<sessions, access>> /\ calls[c].kind = "confirm_reset"
    BY <1>2, Zenon DEF ConfirmResetCommits
  <2>2. t \in 1..Len(tokens["reset"]) /\ tokens["reset"] \in Seq(TokenRow)
        /\ tokens \in [Purposes -> Seq(TokenRow)]
    BY <2>1, CallIs, TablesTyped, PurposesAre DEF SoundCall, Inv, TypeOK
  <2>3. Open(tokens["reset"][t])
    BY <2>1 DEF Claimable, OpenAt
  <2>4. Aged(tokens["reset"], Spent(tokens["reset"], t)) /\ AllClosed(Spent(tokens["reset"], t))
    BY <2>2, <2>3, SpentRows
  <2>5. TablesAge /\ AllClosed(tokens'["reset"])
    BY <2>1, <2>2, <2>4, OneTable, PurposesAre
  <2>6. user' \in UserRow /\ user'.epoch = user'.password
    BY <2>1, PasswordAfter
  <2>7. QED
    BY <2>1, <2>5, <2>6, SessionsAre, CommitKeeps
<1>3. QED
  BY <1>1, <1>2

LEMMA ConfirmVerifyKeeps == ASSUME Inv, NEW c \in Callers, ConfirmVerifyCommits(c) PROVE Inv' /\ TablesAge
<1> DEFINE t == calls[c].id
<1>1. CASE Refused(c)
  BY <1>1, RefusedKeeps, SameTables DEF Refused
<1>2. CASE ~Refused(c)
  <2>1. /\ Claimable(tokens["verify"][t], calls[c].now)
        /\ user' = [user EXCEPT !.verified = TRUE]
        /\ tokens' = [tokens EXCEPT !["verify"] = Spent(@, t)]
        /\ Ends(c) /\ UNCHANGED <<sessions, access>> /\ calls[c].kind = "confirm_verify"
    BY <1>2, Zenon DEF ConfirmVerifyCommits
  <2>2. t \in 1..Len(tokens["verify"]) /\ tokens["verify"] \in Seq(TokenRow)
    BY <2>1, CallIs, TablesTyped, PurposesAre DEF SoundCall, Inv
  <2>3. Open(tokens["verify"][t])
    BY <2>1 DEF Claimable, OpenAt
  <2>4. Aged(tokens["verify"], Spent(tokens["verify"], t))
    BY <2>2, <2>3, SpentRows
  <2>5. TablesAge
    BY <2>1, <2>4, OneTable, PurposesAre
  <2>6. user' \in UserRow /\ user'.epoch = user'.password /\ user'.password = user.password
    BY <2>1, SessionsAre DEF UserRow
  <2>7. QED
    BY <2>1, <2>5, <2>6, SessionsAre, CommitKeeps
<1>3. QED
  BY <1>1, <1>2

LEMMA ChangeKeeps == ASSUME Inv, NEW c \in Callers, ChangeCommits(c) PROVE Inv' /\ TablesAge
<1>1. CASE Refused(c)
  BY <1>1, RefusedKeeps, SameTables DEF Refused
<1>2. CASE ~Refused(c)
  <2>1. /\ user.password < MaxChanges
        /\ user' = [user EXCEPT !.password = @ + 1, !.epoch = @ + 1]
        /\ tokens' = [tokens EXCEPT !["reset"] = RevokeOpen(@)]
        /\ Ends(c) /\ UNCHANGED <<sessions, access>>
    BY <1>2, Zenon DEF ChangeCommits
  <2>2. tokens["reset"] \in Seq(TokenRow) /\ tokens \in [Purposes -> Seq(TokenRow)]
    BY TablesTyped, PurposesAre DEF Inv, TypeOK
  <2>3. Aged(tokens["reset"], RevokeOpen(tokens["reset"])) /\ AllClosed(RevokeOpen(tokens["reset"]))
    BY <2>2, RevokeOpenRows
  <2>4. TablesAge /\ AllClosed(tokens'["reset"])
    BY <2>1, <2>2, <2>3, OneTable, PurposesAre
  <2>5. user' \in UserRow /\ user'.epoch = user'.password
    <3>1. user' = [user EXCEPT !.password = @ + 1, !.epoch = @ + 1, !.verified = user.verified]
      BY <2>1, SessionsAre DEF UserRow
    <3>2. user.verified \in BOOLEAN
      BY SessionsAre DEF UserRow
    <3>3. QED
      BY <2>1, <3>1, <3>2, PasswordAfter
  <2>6. QED
    BY <2>1, <2>4, <2>5, SessionsAre, CommitKeeps
<1>3. QED
  BY <1>1, <1>2

LEMMA DeleteKeeps == ASSUME Inv, NEW c \in Callers, DeleteCommits(c) PROVE Inv' /\ TablesAge
<1>1. CASE Refused(c)
  BY <1>1, RefusedKeeps, SameTables DEF Refused
<1>2. CASE ~Refused(c)
  <2>1. /\ user' = [user EXCEPT !.exists = FALSE]
        /\ tokens' = [p \in Purposes |-> RevokeOpen(tokens[p])]
        /\ sessions' = [s \in DOMAIN sessions |-> TRUE]
        /\ Ends(c) /\ UNCHANGED access
    BY <1>2, Zenon DEF DeleteCommits
  <2>2. \A p \in Purposes : Aged(tokens[p], tokens'[p])
    BY <2>1, RevokeOpenRows DEF Inv, TypeOK
  <2>3. TablesAge
    BY <2>1, <2>2 DEF TablesAge, Aged
  <2>4. sessions' \in Seq(BOOLEAN) /\ DOMAIN sessions' = DOMAIN sessions
    <3>1. sessions' \in [DOMAIN sessions -> BOOLEAN]
      BY <2>1
    <3>2. QED
      BY <3>1, EndedSessions
  <2>5. user' \in UserRow /\ user'.epoch = user'.password /\ user'.password = user.password
    BY <2>1, SessionsAre DEF UserRow
  <2>6. QED
    BY <2>1, <2>3, <2>4, <2>5, SessionsAre, CommitKeeps DEF AccessIn
<1>3. QED
  BY <1>1, <1>2

-----------------------------------------------------------------------------
\* Minting: the open tokens of the purpose are revoked and one is added.
Mints(p, call) ==
    /\ tokens' = [tokens EXCEPT ![p] =
         Append(RevokeOpen(@), [used |-> FALSE, revoked |-> FALSE, created |-> call.now,
                                sent |-> FALSE, born |-> user.password])]
    /\ UNCHANGED <<now, user, sessions, access>>

\* The table afterwards: the rows of before, none open, and the new one.
LEMMA MintedRows ==
    ASSUME Inv, NEW p \in Purposes, NEW call \in Call, Mints(p, call)
    PROVE  /\ tokens' \in [Purposes -> Seq(TokenRow)]
           /\ Len(tokens'[p]) = Len(tokens[p]) + 1
           /\ DOMAIN tokens'[p] = 1..(Len(tokens[p]) + 1)
           /\ Len(tokens[p]) \in Nat /\ DOMAIN tokens[p] = 1..Len(tokens[p])
           /\ \A t \in 1..Len(tokens[p]) :
                 /\ ~Open(tokens'[p][t])
                 /\ tokens'[p][t].created = tokens[p][t].created
                 /\ ~Open(tokens[p][t]) => tokens'[p][t].used = tokens[p][t].used
                                           /\ tokens'[p][t].revoked = tokens[p][t].revoked
           /\ tokens'[p][Len(tokens[p]) + 1].created = call.now
           /\ tokens'[p][Len(tokens[p]) + 1].born = user.password
           /\ \A q \in Purposes \ {p} : tokens'[q] = tokens[q]
<1> DEFINE rows == tokens[p]
           old == RevokeOpen(rows)
           row == [used |-> FALSE, revoked |-> FALSE, created |-> call.now,
                   sent |-> FALSE, born |-> user.password]
<1>1. rows \in Seq(TokenRow) /\ DOMAIN rows = 1..Len(rows) /\ Len(rows) \in Nat
  BY TablesTyped DEF Inv
<1>2. Aged(rows, old) /\ AllClosed(old)
  BY <1>1, RevokeOpenRows
<1>3. row \in TokenRow /\ row.created = call.now /\ row.born = user.password
  BY SessionsAre DEF UserRow, TokenRow, Call
<1>4. tokens' = [tokens EXCEPT ![p] = Append(old, row)] /\ tokens \in [Purposes -> Seq(TokenRow)]
  BY DEF Mints, Inv, TypeOK
<1> HIDE DEF rows, old, row
<1>5. old \in Seq(TokenRow) /\ Len(old) = Len(rows)
  BY <1>2 DEF Aged
<1>6. /\ Append(old, row) \in Seq(TokenRow) /\ Len(Append(old, row)) = Len(rows) + 1
      /\ \A t \in 1..Len(rows) : Append(old, row)[t] = old[t]
      /\ Append(old, row)[Len(rows) + 1] = row
  BY <1>3, <1>5, AppendProperties
<1>7. tokens'[p] = Append(old, row) /\ tokens' \in [Purposes -> Seq(TokenRow)]
      /\ \A q \in Purposes \ {p} : tokens'[q] = tokens[q]
  BY <1>4, <1>6
<1>8. DOMAIN tokens'[p] = 1..(Len(rows) + 1)
  BY <1>6, <1>7, LenProperties
<1>9. \A t \in 1..Len(rows) :
         /\ ~Open(tokens'[p][t])
         /\ tokens'[p][t].created = rows[t].created
         /\ ~Open(rows[t]) => tokens'[p][t].used = rows[t].used
                              /\ tokens'[p][t].revoked = rows[t].revoked
  <2> SUFFICES ASSUME NEW t \in 1..Len(rows)
               PROVE  /\ ~Open(old[t])
                      /\ old[t].created = rows[t].created
                      /\ ~Open(rows[t]) => old[t].used = rows[t].used
                                           /\ old[t].revoked = rows[t].revoked
    BY <1>6, <1>7
  <2>1. t \in DOMAIN rows /\ t \in DOMAIN old
    BY <1>1, <1>5
  <2>2. QED
    BY <1>2, <2>1 DEF Aged, AllClosed
<1>10. tokens'[p][Len(rows) + 1].created = call.now /\ tokens'[p][Len(rows) + 1].born = user.password
  BY <1>3, <1>6, <1>7
<1>11. Len(tokens'[p]) = Len(rows) + 1
  BY <1>6, <1>7
<1> HIDE DEF Aged, AllClosed
<1>12. QED
  BY <1>1, <1>7, <1>8, <1>9, <1>10, <1>11, Zenon DEF rows

LEMMA MintKeeps ==
    ASSUME Inv, NEW c \in Callers, Ends(c), NEW p \in Purposes, Mints(p, calls[c])
    PROVE  Inv'
<1> DEFINE n == Len(tokens[p])
<1>1. calls[c] \in Call
  BY CallIs DEF SoundCall
<1>2. /\ tokens' \in [Purposes -> Seq(TokenRow)] /\ n \in Nat
      /\ DOMAIN tokens'[p] = 1..(n + 1) /\ DOMAIN tokens[p] = 1..n
      /\ \A t \in 1..n : ~Open(tokens'[p][t])
      /\ tokens'[p][n + 1].born = user.password
      /\ \A q \in Purposes \ {p} : tokens'[q] = tokens[q]
  BY <1>1, MintedRows
<1>3. CallsAreSound' /\ calls' \in [Callers -> Call]
  <2>1. \A q \in Purposes : DOMAIN tokens[q] \subseteq DOMAIN tokens'[q]
    BY <1>2
  <2>2. QED
    BY <2>1, CallsAfter, NoCallIsSound DEF Ends
<1>4. TypeOK'
  BY <1>2, <1>3 DEF Inv, TypeOK, Call, Mints
<1>5. EpochsFollow'
  BY DEF Inv, EpochsFollow, Mints
<1>6. ASSUME NEW t \in DOMAIN tokens'["reset"], Open(tokens'["reset"][t])
      PROVE  tokens'["reset"][t].born = user'.password
  <2>1. CASE p = "reset"
    BY <1>2, <1>6, <2>1 DEF Mints
  <2>2. CASE p # "reset"
    <3>1. tokens'["reset"] = tokens["reset"]
      BY <1>2, <2>2, PurposesAre
    <3>2. QED
      BY <1>6, <3>1 DEF Mints, Inv, LinksFollowPassword
  <2>3. QED
    BY <2>1, <2>2
<1>7. LinksFollowPassword'
  BY <1>6 DEF LinksFollowPassword, Open
<1>8. ASSUME NEW q \in Purposes, NEW s \in DOMAIN tokens'[q], NEW t \in DOMAIN tokens'[q],
             Open(tokens'[q][s]), Open(tokens'[q][t])
      PROVE  s = t
  <2>1. CASE q = p
    BY <1>2, <1>8, <2>1
  <2>2. CASE q # p
    BY <1>2, <1>8, <2>2 DEF Inv, OneOpenToken
  <2>3. QED
    BY <2>1, <2>2
<1>9. OneOpenToken'
  BY <1>8 DEF OneOpenToken, Open
<1>10. QED
  BY <1>3, <1>4, <1>5, <1>7, <1>9 DEF Inv

\* A request either mints, unthrottled, or is refused.
LEMMA RequestMintsOr ==
    ASSUME Inv, NEW c \in Callers, RequestMints(c)
    PROVE  \/ Refused(c)
           \/ \E p \in Purposes : ~Throttled(tokens[p], calls[c].now) /\ Mints(p, calls[c]) /\ Ends(c)
<1> DEFINE p == IF calls[c].kind = "request_reset" THEN "reset" ELSE "verify"
<1>1. p \in Purposes
  BY PurposesAre
<1>2. CASE ~Refused(c)
  <2>1. ~Throttled(tokens[p], calls[c].now) /\ Mints(p, calls[c]) /\ Ends(c)
    BY <1>2, Zenon DEF RequestMints, Mints, Superseded, Ends
  <2>2. QED
    BY <1>1, <2>1
<1>3. QED
  BY <1>2

\* Every step keeps the invariant, and ages the token tables or mints.
MintsUnthrottled ==
    \E c \in Callers, p \in Purposes :
        ~Throttled(tokens[p], calls[c].now) /\ Mints(p, calls[c])

LEMMA DeliverKeeps ==
    ASSUME Inv, NEW p \in Purposes, NEW t, Delivers(p, t)
    PROVE  Inv' /\ TablesAge
<1> DEFINE rows == tokens[p]
<1>1. rows \in Seq(TokenRow) /\ DOMAIN rows = 1..Len(rows) /\ t \in 1..Len(rows)
      /\ tokens \in [Purposes -> Seq(TokenRow)]
  BY TablesTyped DEF Inv, Delivers, TypeOK
<1>2. rows[t] \in TokenRow
  BY <1>1, ElementOfSeq
<1>3. PICK row \in TokenRow :
        /\ tokens' = [tokens EXCEPT ![p] = [rows EXCEPT ![t] = row]]
        /\ row.created = rows[t].created /\ row.born = rows[t].born
        /\ Open(row) => Open(rows[t])
        /\ ~Open(rows[t]) => row.used = rows[t].used /\ row.revoked = rows[t].revoked
  <2>1. CASE tokens' = [tokens EXCEPT ![p][t].sent = TRUE]
    <3>1. tokens' = [tokens EXCEPT ![p] = [rows EXCEPT ![t] = [rows[t] EXCEPT !.sent = TRUE]]]
      BY <2>1
    <3>2. [rows[t] EXCEPT !.sent = TRUE] \in TokenRow
      BY <1>2 DEF TokenRow
    <3>3. QED
      BY <1>2, <3>1, <3>2 DEF TokenRow, Open
  <2>2. CASE Open(rows[t]) /\ tokens' = [tokens EXCEPT ![p][t].revoked = TRUE]
    <3>1. tokens' = [tokens EXCEPT ![p] = [rows EXCEPT ![t] = [rows[t] EXCEPT !.revoked = TRUE]]]
      BY <2>2
    <3>2. [rows[t] EXCEPT !.revoked = TRUE] \in TokenRow
      BY <1>2 DEF TokenRow
    <3>3. QED
      BY <1>2, <2>2, <3>1, <3>2 DEF TokenRow, Open
  <2>3. QED
    BY <2>1, <2>2 DEF Delivers
<1> DEFINE new == [rows EXCEPT ![t] = row]
<1> HIDE DEF rows
<1>4. new \in Seq(TokenRow) /\ Len(new) = Len(rows)
      /\ \A i \in 1..Len(rows) : new[i] = IF i = t THEN row ELSE rows[i]
  BY <1>1, ExceptSeq
<1> HIDE DEF new
<1>5. Aged(rows, new)
  BY <1>3, <1>4 DEF Aged
<1>6. TablesAge
  BY <1>3, <1>5, OneTable DEF new, rows
<1>7. UNCHANGED <<now, user, sessions, access, calls>>
  BY DEF Delivers
<1>8. LinksFollowPassword' /\ OneOpenToken'
      /\ \A q \in Purposes : DOMAIN tokens'[q] = DOMAIN tokens[q]
  BY <1>6, <1>7, AgedTables
<1>9. CallsAreSound'
  BY <1>7, <1>8, PurposesAre DEF CallsAreSound, SoundCall, Inv
<1>10. TypeOK'
  BY <1>6, <1>7 DEF Inv, TypeOK, TablesAge
<1>11. EpochsFollow'
  BY <1>7 DEF Inv, EpochsFollow
<1>12. QED
  BY <1>6, <1>8, <1>9, <1>10, <1>11 DEF Inv

LEMMA InvStep ==
    ASSUME Inv, [Next]_vars
    PROVE  Inv' /\ (TablesAge \/ MintsUnthrottled)
<1>1. CASE UNCHANGED vars
  BY <1>1, SameTables DEF vars, Inv, TypeOK, EpochsFollow, CallsAreSound, LinksFollowPassword,
     OneOpenToken
<1>2. CASE Tick
  <2>1. now' \in 0..MaxNow
    BY <1>2, AccountTokensAssumption DEF Tick, Inv, TypeOK
  <2>2. Inv'
    BY <1>2, <2>1 DEF Tick, Inv, TypeOK, EpochsFollow, CallsAreSound, LinksFollowPassword,
       OneOpenToken
  <2>3. QED
    BY <1>2, <2>2, SameTables DEF Tick
<1>3. CASE \E s \in 1..MaxSessions : SessionExpires(s)
  BY <1>3, SessionStepsKeep, SameTables DEF SessionExpires
<1>4. CASE \E p \in Purposes : \E t \in 1..MaxTokens[p] : Delivers(p, t)
  BY <1>4, DeliverKeeps
<1>5. ASSUME NEW c \in Callers, LogoutCommits(c) PROVE Inv' /\ TablesAge
  BY <1>5, SessionStepsKeep, SameTables DEF LogoutCommits
<1>6. ASSUME NEW c \in Callers,
             \/ LoginVerifies(c) \/ LogoutAuthenticates(c) \/ RequestReads(c)
             \/ ConfirmReads(c) \/ ProofReads(c)
      PROVE  Inv' /\ TablesAge
  <2>1. Inv'
    BY <1>6, ReadingSteps
  <2>2. tokens' = tokens
    BY <1>6, Zenon DEF LoginVerifies, LogoutAuthenticates, RequestReads, ConfirmReads, ProofReads, Begins
  <2>3. QED
    BY <2>1, <2>2, SameTables
<1>7. ASSUME NEW c \in Callers, LoginCommits(c) PROVE Inv' /\ TablesAge
  BY <1>7, LoginKeeps, SameTables DEF LoginCommits, Refused
<1>8. ASSUME NEW c \in Callers, RequestMints(c) PROVE Inv' /\ (TablesAge \/ MintsUnthrottled)
  <2>1. CASE Refused(c)
    BY <2>1, RefusedKeeps, SameTables DEF Refused
  <2>2. CASE \E p \in Purposes :
                ~Throttled(tokens[p], calls[c].now) /\ Mints(p, calls[c]) /\ Ends(c)
    BY <2>2, MintKeeps DEF MintsUnthrottled
  <2>3. QED
    BY <1>8, <2>1, <2>2, RequestMintsOr
<1>9. ASSUME NEW c \in Callers,
             \/ ConfirmResetCommits(c) \/ ConfirmVerifyCommits(c)
             \/ ChangeCommits(c) \/ DeleteCommits(c)
      PROVE  Inv' /\ TablesAge
  BY <1>9, ConfirmResetKeeps, ConfirmVerifyKeeps, ChangeKeeps, DeleteKeeps
<1>10. QED
  BY <1>1, <1>2, <1>3, <1>4, <1>5, <1>6, <1>7, <1>8, <1>9 DEF Next

LEMMA InitInv == ASSUME Init PROVE Inv
<1>1. <<>> \in Seq(TokenRow) /\ <<>> \in Seq(BOOLEAN) /\ DOMAIN <<>> = {}
  BY EmptySeq
<1>2. TypeOK /\ EpochsFollow
  BY <1>1, AccountTokensAssumption DEF Init, TypeOK, EpochsFollow, NoCall
<1>3. CallsAreSound
  BY NoCallIsSound DEF Init, CallsAreSound
<1>4. LinksFollowPassword /\ OneOpenToken
  BY <1>1, PurposesAre DEF Init, LinksFollowPassword, OneOpenToken
<1>5. QED
  BY <1>2, <1>3, <1>4 DEF Inv

LEMMA InvAlways == Spec => []Inv
<1>1. Init => Inv
  BY InitInv
<1>2. Inv /\ [Next]_vars => Inv'
  BY InvStep
<1>3. QED
  BY <1>1, <1>2, PTL DEF Spec

-----------------------------------------------------------------------------
\* The rows and the requests of the account keep their types, in every instance.
THEOREM TypeCorrect == Spec => []TypeOK
<1>1. Inv => TypeOK
  BY DEF Inv
<1>2. QED
  BY <1>1, InvAlways, PTL

\* An access token authenticates only while the password that opened its session is in
\* force, and an open reset link was mailed under the password in force.
THEOREM CredentialsEnd == Spec => []CredentialsFollowPassword
<1>1. Inv => AccessFollowsPassword
  BY DEF Inv, EpochsFollow, AccessFollowsPassword, Authenticates
<1>2. Inv => LinksFollowPassword
  BY DEF Inv
<1>3. Inv => CredentialsFollowPassword
  BY <1>1, <1>2 DEF CredentialsFollowPassword
<1>4. QED
  BY <1>3, InvAlways, PTL

\* _issue and _spend keep at most one token of a purpose open, without the unique index.
THEOREM OneIsOpen == Spec => []OneOpenToken
<1>1. Inv => OneOpenToken
  BY DEF Inv
<1>2. QED
  BY <1>1, InvAlways, PTL

\* A used or revoked token stays so, and a request that presents it leaves the user as it
\* was: no request spends it twice or revives it.
THEOREM TokensAreSpentOnce == Spec => SpentOnce
<1> DEFINE Final == \A p \in Purposes : \A t \in DOMAIN tokens[p] :
                      ~Open(tokens[p][t]) => /\ tokens'[p][t].used = tokens[p][t].used
                                             /\ tokens'[p][t].revoked = tokens[p][t].revoked
           Refuses == \A p \in Purposes : \A t \in DOMAIN tokens[p] : \A c \in Callers :
                         ~Open(tokens[p][t]) /\ Presents(calls[c], p, t) /\ calls'[c] # calls[c]
                             => user' = user
<1>1. ASSUME Inv, [Next]_vars PROVE Final
  <2>1. CASE TablesAge
    BY <2>1, TablesTyped DEF TablesAge, Aged, Inv
  <2>2. CASE MintsUnthrottled
    <3>1. PICK c \in Callers, p \in Purposes : Mints(p, calls[c])
      BY <2>2 DEF MintsUnthrottled
    <3>2. calls[c] \in Call
      BY <1>1, CallIs DEF SoundCall
    <3>3. /\ DOMAIN tokens[p] = 1..Len(tokens[p])
          /\ \A t \in 1..Len(tokens[p]) : ~Open(tokens[p][t])
                => tokens'[p][t].used = tokens[p][t].used /\ tokens'[p][t].revoked = tokens[p][t].revoked
          /\ \A q \in Purposes \ {p} : tokens'[q] = tokens[q]
      BY <1>1, <3>1, <3>2, MintedRows
    <3>4. ASSUME NEW q \in Purposes, NEW t \in DOMAIN tokens[q], ~Open(tokens[q][t])
          PROVE  tokens'[q][t].used = tokens[q][t].used /\ tokens'[q][t].revoked = tokens[q][t].revoked
      <4>1. CASE q = p
        BY <3>3, <3>4, <4>1
      <4>2. CASE q # p
        BY <3>3, <4>2
      <4>3. QED
        BY <4>1, <4>2
    <3>5. QED
      BY <3>4
  <2>3. QED
    BY <1>1, <2>1, <2>2, InvStep
<1>2. ASSUME Inv, NEW c \in Callers, ConfirmResetCommits(c) \/ ConfirmVerifyCommits(c),
             NEW p \in Purposes, NEW t \in DOMAIN tokens[p], ~Open(tokens[p][t]),
             NEW d \in Callers, Presents(calls[d], p, t), calls'[d] # calls[d]
      PROVE  user' = user
  <2>1. c = d
    <3>1. Ends(c)
      BY <1>2, Zenon DEF ConfirmResetCommits, ConfirmVerifyCommits, Refused
    <3>2. QED
      BY <1>2, <3>1 DEF Ends, Inv, TypeOK
  <2>2. p = (IF calls[c].kind = "confirm_reset" THEN "reset" ELSE "verify") /\ calls[c].id = t
    BY <1>2, <2>1, PurposesAre DEF Presents
  <2>3. CASE ConfirmResetCommits(c)
    <3>1. calls[c].kind = "confirm_reset"
      BY <2>3 DEF ConfirmResetCommits
    <3>2. ~Claimable(tokens["reset"][calls[c].id], calls[c].now)
      BY <1>2, <2>2, <3>1 DEF Claimable, OpenAt
    <3>3. QED
      BY <2>3, <3>2, Zenon DEF ConfirmResetCommits, Refused
  <2>4. CASE ConfirmVerifyCommits(c)
    <3>1. calls[c].kind = "confirm_verify"
      BY <2>4 DEF ConfirmVerifyCommits
    <3>2. ~Claimable(tokens["verify"][calls[c].id], calls[c].now)
      BY <1>2, <2>2, <3>1 DEF Claimable, OpenAt
    <3>3. QED
      BY <2>4, <3>2, Zenon DEF ConfirmVerifyCommits, Refused
  <2>5. QED
    BY <1>2, <2>3, <2>4
<1>3. ASSUME Inv, NEW c \in Callers, ChangeCommits(c) \/ DeleteCommits(c) PROVE Refuses
  <2>1. \A d \in Callers : calls'[d] # calls[d] => d = c
    BY <1>3 DEF ChangeCommits, DeleteCommits, Refused, Ends, Inv, TypeOK
  <2>2. calls[c].kind \in {"change", "delete"}
    BY <1>3 DEF ChangeCommits, DeleteCommits
  <2>3. QED
    BY <2>1, <2>2 DEF Presents
<1>4. ASSUME NEW c \in Callers,
             \/ LoginVerifies(c) \/ LoginCommits(c) \/ LogoutAuthenticates(c) \/ LogoutCommits(c)
             \/ RequestReads(c) \/ RequestMints(c) \/ ConfirmReads(c) \/ ProofReads(c)
      PROVE  user' = user
  BY <1>4, Zenon DEF LoginVerifies, LoginCommits, LogoutAuthenticates, LogoutCommits, RequestReads,
     RequestMints, ConfirmReads, ProofReads, Begins, Refused
<1>5. ASSUME \/ Tick \/ (\E s \in 1..MaxSessions : SessionExpires(s))
             \/ (\E p \in Purposes : \E t \in 1..MaxTokens[p] : Delivers(p, t)) \/ UNCHANGED vars
      PROVE  user' = user
  BY <1>5 DEF Tick, SessionExpires, Delivers, vars
<1>6. ASSUME Inv, [Next]_vars PROVE Refuses
  BY <1>2, <1>3, <1>4, <1>5, <1>6, Zenon DEF Next
<1>7. Inv /\ [Next]_vars => [\A p \in Purposes : \A t \in DOMAIN tokens[p] :
          ~Open(tokens[p][t]) =>
              /\ tokens'[p][t].used = tokens[p][t].used
              /\ tokens'[p][t].revoked = tokens[p][t].revoked
              /\ \A c \in Callers :
                    Presents(calls[c], p, t) /\ calls'[c] # calls[c] => user' = user]_vars
  BY <1>1, <1>6
<1>8. QED
  BY <1>7, InvAlways, PTL DEF Spec, SpentOnce

\* Whoever replaces the password or deletes the account proved the very password that is
\* replaced, or presents a link that was mailed under it.
THEOREM ProofsAreCurrent == Spec => ProofIsCurrent
<1> DEFINE Proved ==
       user'.password # user.password \/ user'.exists # user.exists =>
          \E c \in Callers : calls'[c] # calls[c] /\ Proves(calls[c])
<1>1. ASSUME Inv, NEW c \in Callers, Ends(c), calls[c].kind # "none"
      PROVE  calls'[c] # calls[c]
  BY <1>1 DEF Ends, NoCall, Inv, TypeOK
<1>2. ASSUME Inv, NEW c \in Callers, ChangeCommits(c) \/ DeleteCommits(c) PROVE Proved
  <2>1. CASE UnchangedSinceVerified(calls[c])
    BY <1>1, <1>2, <2>1 DEF ChangeCommits, DeleteCommits, UnchangedSinceVerified, Proves
  <2>2. CASE ~UnchangedSinceVerified(calls[c])
    BY <1>2, <2>2 DEF ChangeCommits, DeleteCommits, Refused
  <2>3. QED
    BY <2>1, <2>2
<1>3. ASSUME Inv, NEW c \in Callers, ConfirmResetCommits(c) PROVE Proved
  <2>1. CASE Refused(c)
    BY <2>1 DEF Refused
  <2>2. CASE ~Refused(c)
    <3>1. /\ calls[c].kind = "confirm_reset" /\ Ends(c)
          /\ Claimable(tokens["reset"][calls[c].id], calls[c].now)
      BY <1>3, <2>2, Zenon DEF ConfirmResetCommits
    <3>2. calls[c].id \in DOMAIN tokens["reset"] /\ Open(tokens["reset"][calls[c].id])
      BY <1>3, <3>1, CallIs DEF SoundCall, Claimable, OpenAt
    <3>3. tokens["reset"][calls[c].id].born = user.password
      BY <1>3, <3>2 DEF Inv, LinksFollowPassword
    <3>4. QED
      BY <1>1, <1>3, <3>1, <3>3 DEF Proves
  <2>3. QED
    BY <2>1, <2>2
<1>4. ASSUME Inv, NEW c \in Callers, ConfirmVerifyCommits(c) PROVE Proved
  BY <1>4, SessionsAre DEF ConfirmVerifyCommits, Refused, UserRow
<1>5. ASSUME NEW c \in Callers,
             \/ LoginVerifies(c) \/ LoginCommits(c) \/ LogoutAuthenticates(c) \/ LogoutCommits(c)
             \/ RequestReads(c) \/ RequestMints(c) \/ ConfirmReads(c) \/ ProofReads(c)
      PROVE  user' = user
  BY <1>5, Zenon DEF LoginVerifies, LoginCommits, LogoutAuthenticates, LogoutCommits, RequestReads,
     RequestMints, ConfirmReads, ProofReads, Begins, Refused
<1>6. ASSUME \/ Tick \/ (\E s \in 1..MaxSessions : SessionExpires(s))
             \/ (\E p \in Purposes : \E t \in 1..MaxTokens[p] : Delivers(p, t)) \/ UNCHANGED vars
      PROVE  user' = user
  BY <1>6 DEF Tick, SessionExpires, Delivers, vars
<1>7. ASSUME Inv, [Next]_vars PROVE Proved
  BY <1>2, <1>3, <1>4, <1>5, <1>6, <1>7, Zenon DEF Next
<1>8. Inv /\ [Next]_vars => [Proved]_vars
  BY <1>7
<1>9. QED
  BY <1>8, InvAlways, PTL DEF Spec, ProofIsCurrent

-----------------------------------------------------------------------------
LEMMA RowTime == ASSUME NEW row \in TokenRow PROVE row.created \in Nat
<1>1. MaxNow \in Nat /\ row.created \in 0..MaxNow
  BY AccountTokensAssumption DEF TokenRow
<1>2. QED
  BY <1>1

\* Throttling looks at the times of a table only.
ThrottledTable(rows) ==
    \A s \in DOMAIN rows :
        /\ \A t \in DOMAIN rows : s < t => rows[s].created + Cooldown <= rows[t].created
        /\ Cardinality(IssuedBefore(rows, s)) <= DailyCap

LEMMA AgedTableThrottled ==
    ASSUME NEW old \in Seq(TokenRow), NEW new, Aged(old, new), ThrottledTable(old)
    PROVE  ThrottledTable(new)
<1>1. DOMAIN old = 1..Len(old) /\ DOMAIN new = 1..Len(old)
      /\ \A t \in 1..Len(old) : new[t].created = old[t].created
  BY LenProperties DEF Aged
<1>2. ASSUME NEW s \in DOMAIN new PROVE IssuedBefore(new, s) = IssuedBefore(old, s)
  BY <1>1 DEF IssuedBefore
<1>3. QED
  BY <1>1, <1>2 DEF ThrottledTable

\* The table with one more row, which was not throttled by the rows before it.
LEMMA MintedTableThrottled ==
    ASSUME NEW old \in Seq(TokenRow), NEW new \in Seq(TokenRow), NEW time \in Nat,
           ThrottledTable(old), ~Throttled(old, time),
           DOMAIN new = 1..(Len(old) + 1), new[Len(old) + 1].created = time,
           \A t \in 1..Len(old) : new[t].created = old[t].created
    PROVE  ThrottledTable(new)
<1> DEFINE n == Len(old)
           recent == {t \in 1..n : old[t].created + Window > time}
<1>1. n \in Nat /\ DOMAIN old = 1..n /\ Cooldown \in Nat \ {0} /\ DailyCap \in Nat /\ Window \in Nat
  BY LenProperties, AccountTokensAssumption
<1>2. \A t \in 1..n : old[t].created \in Nat /\ old[t].created + Cooldown <= time
  <2>1. ASSUME NEW t \in 1..n PROVE old[t].created \in Nat /\ old[t].created + Cooldown <= time
    <3>1. old[t] \in TokenRow
      BY ElementOfSeq
    <3>2. old[t].created \in Nat
      BY <3>1, RowTime
    <3>3. ~(old[t].created + Cooldown > time)
      BY <1>1 DEF Throttled, Counted
    <3>4. QED
      BY <1>1, <3>2, <3>3
  <2>2. QED
    BY <2>1
<1>3. IsFiniteSet(recent) /\ Cardinality(recent) \in Nat /\ Cardinality(recent) < DailyCap
  <2>1. IsFiniteSet(1..n)
    BY <1>1, FS_Interval
  <2>2. IsFiniteSet(recent)
    BY <2>1, FS_Subset
  <2>3. Cardinality(recent) \in Nat
    BY <2>2, FS_CardinalityType
  <2>4. ~(Cardinality(recent) >= DailyCap)
    BY <1>1, Zenon DEF Throttled, Counted
  <2> HIDE DEF recent
  <2>5. QED
    BY <1>1, <2>2, <2>3, <2>4
<1>4. ASSUME NEW s \in 1..(n + 1), NEW t \in 1..(n + 1), s < t
      PROVE  new[s].created + Cooldown <= new[t].created
  <2>1. s \in 1..n
    BY <1>1, <1>4
  <2>2. CASE t = n + 1
    BY <1>2, <2>1, <2>2
  <2>3. CASE t \in 1..n
    BY <1>1, <1>4, <2>1, <2>3 DEF ThrottledTable
  <2>4. QED
    BY <1>1, <2>2, <2>3
<1>5. ASSUME NEW s \in 1..n PROVE Cardinality(IssuedBefore(new, s)) <= DailyCap
  <2>1. new[s].created < new[n + 1].created
    BY <1>1, <1>2
  <2>2. IssuedBefore(new, s) = IssuedBefore(old, s)
    <3>1. \A t \in 1..n : new[t].created = old[t].created
      OBVIOUS
    <3>2. new[n + 1].created \in Nat /\ \A t \in 1..n : new[t].created \in Nat
      BY <1>2, <3>1
    <3>3. ~(new[n + 1].created <= new[s].created)
      BY <2>1, <3>2
    <3>4. DOMAIN new = (1..n) \cup {n + 1}
      BY <1>1
    <3> HIDE DEF n
    <3>5. QED
      BY <1>1, <3>1, <3>3, <3>4 DEF IssuedBefore
  <2>3. QED
    BY <1>1, <2>2 DEF ThrottledTable
<1>6. Cardinality(IssuedBefore(new, n + 1)) <= DailyCap
  <2>1. IssuedBefore(new, n + 1) \subseteq recent \cup {n + 1}
    BY <1>1, <1>2 DEF IssuedBefore
  <2>2. n + 1 \notin recent
    BY <1>1
  <2> HIDE DEF recent, n
  <2>3. IsFiniteSet(recent \cup {n + 1}) /\ Cardinality(recent \cup {n + 1}) = Cardinality(recent) + 1
    BY <1>3, <2>2, FS_AddElement
  <2>4. IsFiniteSet(IssuedBefore(new, n + 1))
        /\ Cardinality(IssuedBefore(new, n + 1)) <= Cardinality(recent) + 1
    BY <2>1, <2>3, FS_Subset
  <2>5. Cardinality(IssuedBefore(new, n + 1)) \in Nat
    BY <2>4, FS_CardinalityType
  <2>6. QED
    BY <1>1, <1>3, <2>4, <2>5
<1>7. QED
  BY <1>1, <1>4, <1>5, <1>6 DEF ThrottledTable

\* At most DailyCap mails of a purpose go out in any window, a cooldown apart, though a
\* request reads the clock before it waits for the lock.
THEOREM MailThrottled == Spec => []MailIsThrottled
<1>1. Init => MailIsThrottled
  BY EmptySeq DEF Init, MailIsThrottled
<1>2. ASSUME Inv, MailIsThrottled, [Next]_vars PROVE MailIsThrottled'
  <2>1. \A p \in Purposes : ThrottledTable(tokens[p])
    BY <1>2 DEF MailIsThrottled, ThrottledTable
  <2>2. ASSUME NEW p \in Purposes, TablesAge PROVE ThrottledTable(tokens'[p])
    BY <1>2, <2>1, <2>2, TablesTyped, AgedTableThrottled DEF TablesAge, Inv
  <2>3. ASSUME NEW c \in Callers, NEW q \in Purposes, NEW p \in Purposes,
               ~Throttled(tokens[q], calls[c].now), Mints(q, calls[c])
        PROVE  ThrottledTable(tokens'[p])
    <3>1. calls[c] \in Call /\ calls[c].now \in Nat
      BY <1>2, CallIs, AccountTokensAssumption DEF SoundCall, Call
    <3>2. /\ tokens' \in [Purposes -> Seq(TokenRow)]
          /\ DOMAIN tokens'[q] = 1..(Len(tokens[q]) + 1)
          /\ \A t \in 1..Len(tokens[q]) : tokens'[q][t].created = tokens[q][t].created
          /\ tokens'[q][Len(tokens[q]) + 1].created = calls[c].now
          /\ \A r \in Purposes \ {q} : tokens'[r] = tokens[r]
      BY <1>2, <2>3, <3>1, MintedRows
    <3>3. tokens[q] \in Seq(TokenRow) /\ tokens'[q] \in Seq(TokenRow)
      BY <1>2, <3>2, TablesTyped DEF Inv
    <3>4. ThrottledTable(tokens'[q])
      BY <2>1, <2>3, <3>1, <3>2, <3>3, MintedTableThrottled
    <3>5. QED
      BY <2>1, <3>2, <3>4
  <2>4. \A p \in Purposes : ThrottledTable(tokens'[p])
    BY <1>2, <2>2, <2>3, InvStep DEF MintsUnthrottled
  <2>5. QED
    BY <2>4 DEF MailIsThrottled, ThrottledTable, IssuedBefore
<1>3. QED
  BY <1>1, <1>2, InvAlways, PTL DEF Spec
=============================================================================
