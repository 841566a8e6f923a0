------------------------------- MODULE SignIn -------------------------------
(***************************************************************************)
(* Invites, sign-in with GitHub and sessions: packages/web/src/routes/     *)
(* auth.ts and invite.ts, the invites of routes/admin.ts, the tokens of    *)
(* routes/status.ts, auth-middleware.ts, crypto.ts and the tables of db.ts.*)
(*                                                                         *)
(* A flight is one run of a handler that waits: for GitHub ("exchange"),   *)
(* then for the encryption of the token it got ("encrypt").  Handlers      *)
(* without an await are one step.  A flight hands out at most one token,   *)
(* which is named after it.  A link whose PKCE verifier has been replaced  *)
(* by a later visit to /verify is refused by GitHub: a flight that fails.  *)
(***************************************************************************)
EXTENDS Integers, FiniteSets

CONSTANTS
  People,       \* GitHub users
  Nonces,       \* codes drawn for device_codes
  Invites,      \* invites drawn
  Flights,
  None,         \* null
  MaxKeys,      \* bound: encryption keys generated
  MaxLapses,    \* bound: codes, sessions and invites whose time is up
  MaxRestarts   \* bound: restarts of bench-web

ASSUME SignInAssumption ==
  /\ None \notin People \cup Nonces \cup Invites \cup Flights
  /\ Nonces \cap Flights = {}
  /\ {MaxKeys, MaxLapses, MaxRestarts} \subseteq Nat

\* A row for each nonce, and one for each token that an invite leads to.
Codes == Nonces \cup Flights

VARIABLES
  rows,       \* device_codes: [code -> row]
  users,      \* users: [GitHub user -> row, role "none" if there is none]
  invites,    \* invites: [invite -> state; "none" and "revoked" have no row]
  flights,    \* [flight -> what it remembers over its awaits]
  cookies,    \* flights whose token a browser was given; /logout only drops it there
  cli,        \* tokens the CLI has polled
  key, keyFile, keys,   \* _key, the file, and the keys generated so far
  unwritten,  \* a generated key could not be written
  ended,      \* flights whose session has reached its end
  admitted,   \* [invite -> users it has created]
  raced,      \* invites that two flights have held at once
  lapses, restarts

signInVars == <<rows, users, invites, flights, cookies, cli, key, keyFile, keys,
                unwritten, ended, admitted, raced, lapses, restarts>>

keyVars == <<key, keyFile, keys, unwritten>>
traceVars == <<ended, admitted, raced, lapses, restarts>>

Flows == {"device", "dashboard", "upgrade", "invite"}

\* The type invariant: the tables, the flights and the keys.
SignInTypeOK ==
  /\ \A n \in Codes :
       /\ rows[n].kind \in Flows \cup {"none", "gone", "session"}
       /\ (rows[n].token = None) = (rows[n].user = None)
       /\ rows[n].token \in Flights \cup {None} /\ rows[n].user \in People \cup {None}
       /\ rows[n].token # None => users[rows[n].user].role # "none"
  /\ \A p \in People : users[p].role \in {"none", "user", "admin"}
  /\ invites \in [Invites -> {"none", "open", "expired", "used", "revoked"}]
  /\ \A f \in Flights : flights[f].stage \in {"none", "exchange", "encrypt", "done"}
  /\ cookies \subseteq Flights /\ cli \subseteq Flights /\ ended \subseteq Flights
  /\ {key, keyFile} \subseteq 0..keys /\ keys \in 0..MaxKeys

NoRow == [kind |-> "none", invite |-> None, linked |-> FALSE, token |-> None,
          user |-> None, stale |-> FALSE, over |-> FALSE]
GoneRow == [NoRow EXCEPT !.kind = "gone"]
NoUser == [role |-> "none", scope |-> "read", token |-> 0, pat |-> 0]
NoFlight == [stage |-> "none", kind |-> "none", person |-> None, nonce |-> None,
             invite |-> None, role |-> "none", key |-> 0]

\* The first start, at which initDb draws the bootstrap invite.
FirstStart ==
  /\ users = [p \in People |-> NoUser]
  /\ \E i \in Invites : invites = [j \in Invites |-> IF j = i THEN "open" ELSE "none"]
  /\ keyFile = 0 /\ keys = 0

\* A later one: everybody registered long ago, the bootstrap invite is used.
LaterStart ==
  /\ MaxKeys > 0
  /\ \E a \in People : users = [p \in People |->
       [role |-> IF p = a THEN "admin" ELSE "user", scope |-> "read", token |-> 1, pat |-> 0]]
  /\ \E i \in Invites : invites = [j \in Invites |-> IF j = i THEN "used" ELSE "none"]
  /\ keyFile = 1 /\ keys = 1

SignInInit ==
  /\ FirstStart \/ LaterStart
  /\ rows = [n \in Codes |-> NoRow]
  /\ flights = [f \in Flights |-> NoFlight]
  /\ cookies = {} /\ cli = {} /\ ended = {} /\ raced = {}
  /\ key = 0 /\ unwritten = FALSE
  /\ admitted = [i \in Invites |-> {}]
  /\ lapses = 0 /\ restarts = 0

Known(p) == users[p].role # "none"

\* getUserByToken: the rows that hold the token of f and let it in.
Signed(f) == \E n \in Codes : rows[n].token = f /\ ~rows[n].over
UserOf(f) == rows[CHOOSE n \in Codes : rows[n].token = f].user
Admin(f) == f \in cookies /\ Signed(f) /\ users[UserOf(f)].role = "admin"

-----------------------------------------------------------------------------
(* Rows.                                                                   *)

\* /device, /login, /upgrade and /invite/:token: a row is drawn.  A device
\* code has no link before the user has opened /verify.
Draw(n, kind, i) ==
  /\ rows[n].kind = "none"
  /\ rows' = [rows EXCEPT ![n] = [NoRow EXCEPT !.kind = kind, !.invite = i,
                                               !.linked = (kind # "device")]]
  /\ UNCHANGED <<users, invites, flights, cookies, cli, keyVars, traceVars>>

StartFlow(n) == \E kind \in Flows \ {"invite"} : Draw(n, kind, None)

\* /verify shows the link of a device code.
Verify(n) ==
  /\ rows[n].kind = "device" /\ rows[n].token = None /\ ~rows[n].stale
  /\ rows' = [rows EXCEPT ![n].linked = TRUE]
  /\ UNCHANGED <<users, invites, flights, cookies, cli, keyVars, traceVars>>

\* Fault: an invite that was used is good for another.
AnyUnexpired(i) == invites[i] \in {"open", "used"}

\* validateInvite.
ValidInvite(i) == invites[i] = "open"

OpenInvite(n, i) == ValidInvite(i) /\ Draw(n, "invite", i)

Lapse == lapses < MaxLapses /\ lapses' = lapses + 1

\* expires_at passes: ten minutes for a nonce.
CodeExpires(n) ==
  /\ Lapse
  /\ rows[n].kind \in Flows /\ ~rows[n].stale
  /\ rows' = [rows EXCEPT ![n].stale = TRUE]
  /\ UNCHANGED <<users, invites, flights, cookies, cli, keyVars, ended, admitted, raced, restarts>>

\* session_expires_at passes: thirty days.
SessionEnds(n) ==
  /\ Lapse
  /\ rows[n].token # None /\ ~rows[n].over
  /\ rows' = [rows EXCEPT ![n].over = TRUE]
  /\ ended' = ended \cup {rows[n].token}
  /\ UNCHANGED <<users, invites, flights, cookies, cli, keyVars, admitted, raced, restarts>>

\* Fault: rows are purged by the time their nonce was good for.
PurgedByCode == {n \in Codes : rows[n].token # None /\ rows[n].stale}

\* What the cleanup deletes: sessions that have ended.
Purged == {n \in Codes : rows[n].token # None /\ rows[n].over}

Swept == [n \in Codes |-> IF n \in Purged THEN GoneRow ELSE rows[n]]

\* session-cleanup, a task of the scheduler.
SessionCleanup ==
  /\ rows' = Swept
  /\ UNCHANGED <<users, invites, flights, cookies, cli, keyVars, traceVars>>

\* /device/poll, once the row has a token: the CLI gets it and the row goes.
Poll(n) ==
  /\ rows[n].kind = "device" /\ ~rows[n].stale /\ rows[n].token # None
  /\ cli' = cli \cup {rows[n].token}
  /\ rows' = [rows EXCEPT ![n] = GoneRow]
  /\ UNCHANGED <<users, invites, flights, cookies, keyVars, traceVars>>

-----------------------------------------------------------------------------
(* Encryption.                                                             *)

\* The key that exists: in memory, or in the file.
KeyAtHand == IF key # 0 THEN key ELSE keyFile

\* Fault: a generated key stays in memory.
MemoryOnly(written) == keyFile

FileAfter(written) == IF written THEN keys + 1 ELSE keyFile

\* getKey up to its await: without a key one is generated and written, or not.
GetKey(f, flight) ==
  IF KeyAtHand # 0
  THEN /\ flights' = [flights EXCEPT ![f] = [flight EXCEPT !.stage = "encrypt", !.key = KeyAtHand]]
       /\ UNCHANGED keyVars
  ELSE /\ keys < MaxKeys /\ keys' = keys + 1
       /\ \E written \in BOOLEAN :
            /\ keyFile' = FileAfter(written)
            /\ unwritten' = (unwritten \/ ~written)
       /\ flights' = [flights EXCEPT ![f] = [flight EXCEPT !.stage = "encrypt", !.key = keys + 1]]
       /\ UNCHANGED key

\* What the properties look at of a flight that has ended: whose token it
\* handed out, and the row it may have changed.
Done(flight) ==
  CASE flight.kind = "pat" \/ (flight.stage = "exchange" /\ flight.kind = "invite") ->
         [NoFlight EXCEPT !.stage = "done"]
    [] flight.kind = "invite" /\ flight.stage # "exchange" ->
         [NoFlight EXCEPT !.stage = "done", !.kind = "invite", !.person = flight.person]
    [] flight.kind \notin {"pat", "invite"} ->
         [NoFlight EXCEPT !.stage = "done", !.kind = flight.kind, !.person = flight.person,
                          !.nonce = flight.nonce]

\* The end of encryptToken: the key is kept, and the token sealed with it.
Sealed(f) ==
  /\ flights[f].stage = "encrypt"
  /\ key' = flights[f].key
  /\ flights' = [flights EXCEPT ![f] = Done(@)]
  /\ UNCHANGED <<keyFile, keys, unwritten>>

-----------------------------------------------------------------------------
(* The callback.                                                           *)

InFlight(f) == flights[f].stage \in {"exchange", "encrypt"}

\* /callback: the row is looked up; an invite's is deleted when the invite is
\* no longer good.
Callback(f, p, n) ==
  /\ flights[f].stage = "none"
  /\ rows[n].kind \in Flows /\ rows[n].linked /\ rows[n].token = None /\ ~rows[n].stale
  /\ LET i == rows[n].invite
     IN IF i # None /\ ~ValidInvite(i)
        THEN rows' = [rows EXCEPT ![n] = GoneRow] /\ UNCHANGED <<flights, raced>>
        ELSE /\ flights' = [flights EXCEPT ![f] = [NoFlight EXCEPT
                              !.stage = "exchange", !.kind = rows[n].kind, !.person = p,
                              !.nonce = n, !.invite = i]]
             /\ raced' = IF i # None /\ \E g \in Flights : InFlight(g) /\ flights[g].invite = i
                         THEN raced \cup {i} ELSE raced
             /\ UNCHANGED rows
  /\ UNCHANGED <<users, invites, cookies, cli, keyVars, ended, admitted, lapses, restarts>>

\* GitHub refuses the code or does not answer, or the encryption throws.
Throws(f) ==
  /\ InFlight(f)
  /\ flights' = [flights EXCEPT ![f] = Done(@)]
  /\ UNCHANGED <<rows, users, invites, cookies, cli, keyVars, traceVars>>

\* Fault: the row keeps the user it has.
StampUnowned(n, f) ==
  IF rows[n].kind = "gone" THEN rows
  ELSE [rows EXCEPT ![n].token = f, ![n].over = FALSE,
                    ![n].user = IF @ = None THEN flights[f].person ELSE @]

\* The update of a row, if it is still there.
Stamp(n, f) ==
  IF rows[n].kind = "gone" THEN rows
  ELSE [rows EXCEPT ![n].token = f, ![n].over = FALSE, ![n].user = flights[f].person]

\* Fault: nobody asks whether there is such a user.
AnyoneWelcome(f) == TRUE

\* The lookup of the user by the id GitHub names.
Welcome(f) == Known(flights[f].person)

\* GitHub names somebody who is not a user: only a device code stays.
TurnAway(f) ==
  /\ flights[f].stage = "exchange"
  /\ flights[f].kind \in {"device", "dashboard", "upgrade"} /\ ~Welcome(f)
  /\ flights' = [flights EXCEPT ![f] = Done(@)]
  /\ rows' = IF flights[f].kind = "device" THEN rows
             ELSE [rows EXCEPT ![flights[f].nonce] = GoneRow]
  /\ UNCHANGED <<users, invites, cookies, cli, keyVars, traceVars>>

\* handleDeviceCallback and handleDashboardCallback: the row gets the token
\* before the encryption, ...
Recognise(f) ==
  /\ flights[f].stage = "exchange" /\ flights[f].kind \in {"device", "dashboard"}
  /\ Welcome(f)
  /\ rows' = Stamp(flights[f].nonce, f)
  /\ GetKey(f, flights[f])
  /\ UNCHANGED <<users, invites, cookies, cli, traceVars>>

\* ... and the user the sealed token after it.
SignsIn(f) ==
  /\ flights[f].kind \in {"device", "dashboard"} /\ Sealed(f)
  /\ users' = [users EXCEPT ![flights[f].person].token = flights[f].key]
  /\ cookies' = IF flights[f].kind = "dashboard" THEN cookies \cup {f} ELSE cookies
  /\ UNCHANGED <<rows, invites, cli, traceVars>>

\* handleUpgradeCallback writes both after the encryption.
Upgrade(f) ==
  /\ flights[f].stage = "exchange" /\ flights[f].kind = "upgrade" /\ Welcome(f)
  /\ GetKey(f, flights[f])
  /\ UNCHANGED <<rows, users, invites, cookies, cli, traceVars>>

Upgraded(f) ==
  /\ flights[f].kind = "upgrade" /\ Sealed(f)
  /\ users' = [users EXCEPT ![flights[f].person].token = flights[f].key,
                            ![flights[f].person].scope = "repo"]
  /\ rows' = Stamp(flights[f].nonce, f)
  /\ cookies' = cookies \cup {f}
  /\ UNCHANGED <<invites, cli, traceVars>>

\* handleInviteCallback decides on the role before the encryption, ...
Enrol(f) ==
  /\ flights[f].stage = "exchange" /\ flights[f].kind = "invite"
  /\ GetKey(f, [flights[f] EXCEPT !.role =
                  IF \A p \in People : ~Known(p) THEN "admin" ELSE "user"])
  /\ UNCHANGED <<rows, users, invites, cookies, cli, traceVars>>

\* Fault: who follows an invite again gets the role he would have now.
UpsertRole(f) ==
  [role |-> flights[f].role, scope |-> "read", token |-> flights[f].key, pat |-> 0]

\* The insert, or for a user who is there the update, which leaves his role.
Upsert(f) ==
  LET old == users[flights[f].person]
  IN IF old.role # "none" THEN [old EXCEPT !.token = flights[f].key, !.scope = "read"]
     ELSE [role |-> flights[f].role, scope |-> "read", token |-> flights[f].key, pat |-> 0]

\* ... inserts the user after it, marks the invite and opens a session.  For a
\* user who is there already the id it would write into used_by belongs to
\* nobody: the foreign key refuses it, the handler throws, the invite stays.
Enrolled(f) ==
  /\ flights[f].kind = "invite" /\ Sealed(f)
  /\ LET p == flights[f].person
         i == flights[f].invite
     IN /\ users' = [users EXCEPT ![p] = Upsert(f)]
        /\ IF Known(p) /\ invites[i] # "revoked"
           THEN UNCHANGED <<rows, invites, cookies, admitted>>
           ELSE /\ invites' = [invites EXCEPT ![i] = IF @ = "revoked" THEN @ ELSE "used"]
                /\ rows' = [rows EXCEPT ![f] = [NoRow EXCEPT !.kind = "session",
                                                  !.token = f, !.user = p]]
                /\ cookies' = cookies \cup {f}
                /\ admitted' = IF Known(p) THEN admitted
                               ELSE [admitted EXCEPT ![i] = @ \cup {p}]
  /\ UNCHANGED <<cli, ended, raced, lapses, restarts>>

-----------------------------------------------------------------------------
(* Tokens, invites and restarts.                                           *)

\* POST /auth/pat: the token is checked with GitHub, then sealed and stored.
OfferPat(f, g) ==
  /\ flights[f].stage = "none" /\ g \in cookies /\ Signed(g)
  /\ flights' = [flights EXCEPT ![f] = [NoFlight EXCEPT
                   !.stage = "exchange", !.kind = "pat", !.person = UserOf(g)]]
  /\ UNCHANGED <<rows, users, invites, cookies, cli, keyVars, traceVars>>

AcceptPat(f) ==
  /\ flights[f].stage = "exchange" /\ flights[f].kind = "pat"
  /\ GetKey(f, flights[f])
  /\ UNCHANGED <<rows, users, invites, cookies, cli, traceVars>>

StorePat(f) ==
  /\ flights[f].kind = "pat" /\ Sealed(f)
  /\ users' = [users EXCEPT ![flights[f].person].pat = flights[f].key]
  /\ UNCHANGED <<rows, invites, cookies, cli, traceVars>>

ClearPat(g) ==
  /\ g \in cookies /\ Signed(g)
  /\ users' = [users EXCEPT ![UserOf(g)].pat = 0]
  /\ UNCHANGED <<rows, invites, flights, cookies, cli, keyVars, traceVars>>

\* POST and DELETE of /invites, by an admin.
CreateInvite(g, i) ==
  /\ Admin(g) /\ invites[i] = "none"
  /\ invites' = [invites EXCEPT ![i] = "open"]
  /\ UNCHANGED <<rows, users, flights, cookies, cli, keyVars, traceVars>>

RevokeInvite(g, i) ==
  /\ Admin(g) /\ invites[i] \in {"open", "expired"}
  /\ invites' = [invites EXCEPT ![i] = "revoked"]
  /\ UNCHANGED <<rows, users, flights, cookies, cli, keyVars, traceVars>>

InviteExpires(i) ==
  /\ Lapse
  /\ invites[i] = "open"
  /\ invites' = [invites EXCEPT ![i] = "expired"]
  /\ UNCHANGED <<rows, users, flights, cookies, cli, keyVars, ended, admitted, raced, restarts>>

\* bench-web ends and starts: the flights and the key in memory are lost;
\* initDb raises the scope of every user who has a token, sweeps the sessions,
\* and draws a bootstrap invite if the table holds none.
Restart ==
  /\ restarts < MaxRestarts /\ restarts' = restarts + 1
  /\ flights' = [f \in Flights |-> IF InFlight(f) THEN Done(flights[f]) ELSE flights[f]]
  /\ key' = 0
  /\ rows' = Swept
  /\ users' = [p \in People |-> IF users[p].token = 0 THEN users[p]
                                ELSE [users[p] EXCEPT !.scope = "repo"]]
  /\ LET spare == {i \in Invites : invites[i] = "none"}
     IN IF (\A i \in Invites : invites[i] \in {"none", "revoked"}) /\ spare # {}
        THEN \E i \in spare : invites' = [invites EXCEPT ![i] = "open"]
        ELSE UNCHANGED invites
  /\ UNCHANGED <<cookies, cli, keyFile, keys, unwritten, ended, admitted, raced, lapses>>

Continue(f) ==
  \/ TurnAway(f) \/ Recognise(f) \/ SignsIn(f) \/ Upgrade(f) \/ Upgraded(f)
  \/ Enrol(f) \/ Enrolled(f) \/ AcceptPat(f) \/ StorePat(f) \/ Throws(f)

SignInNext ==
  \/ \E n \in Nonces : StartFlow(n) \/ Verify(n) \/ CodeExpires(n) \/ Poll(n)
  \/ \E n \in Nonces, i \in Invites : OpenInvite(n, i)
  \/ \E n \in Codes : SessionEnds(n)
  \/ \E f \in Flights, p \in People, n \in Nonces : Callback(f, p, n)
  \/ \E f \in Flights : Continue(f) \/ ClearPat(f)
  \/ \E f, g \in Flights : OfferPat(f, g)
  \/ \E g \in Flights, i \in Invites : CreateInvite(g, i) \/ RevokeInvite(g, i)
  \/ \E i \in Invites : InviteExpires(i)
  \/ SessionCleanup \/ Restart

SignInSpec == SignInInit /\ [][SignInNext]_signInVars

-----------------------------------------------------------------------------

\* Once there are users, one of them is an admin: nobody who follows an
\* invite again, however the callbacks interleave, takes the role away.
AdminExists == (\E p \in People : Known(p)) => \E p \in People : users[p].role = "admin"

\* An invite is single-use: it creates one user, unless two callbacks held it
\* at the same time between its check and its mark.
InviteAdmitsOne == \A i \in Invites \ raced : Cardinality(admitted[i]) <= 1

\* Whoever presents a token is the one who signed in with GitHub for it.
TokenIdentity ==
  \A n \in Codes : rows[n].token # None => rows[n].user = flights[rows[n].token].person

\* A token in a cookie is good until its thirty days are over, unless another
\* callback came in for the same nonce.
SessionsLast ==
  \A f \in cookies :
    \/ Signed(f) \/ f \in ended
    \/ \E g \in Flights \ {f} : flights[g].nonce = flights[f].nonce /\ flights[f].kind # "invite"

\* What was sealed can be opened, now and after a restart, unless a generated
\* key could not be written.
TokensReadable ==
  unwritten \/ \A p \in People : {users[p].token, users[p].pat} \subseteq {0, keyFile}

\* The accounts and their secrets are sound: there is an admin, a token is its
\* owner's, and what was sealed can be opened.
AccountsAreSound == SignInTypeOK /\ AdminExists /\ TokenIdentity /\ TokensReadable

\* The token the CLI has polled is good until its session ends.
PolledTokenWorks == \A f \in cli : Signed(f) \/ f \in ended
=============================================================================
