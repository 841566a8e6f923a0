---------------------------- MODULE SignInProofs ----------------------------
(***************************************************************************)
(* Proofs about SignIn, for every set of people, codes, invites and        *)
(* flights: no token is stored for a person it was not issued to, an       *)
(* invite lets in one person, and a session works until it ends.  The      *)
(* invariant relates the rows of the device codes, the sign-ins in flight, *)
(* the users and the invites.                                              *)
(***************************************************************************)
EXTENDS SignIn, FiniteSetTheorems, TLAPS

-----------------------------------------------------------------------------
(* The invariant, in its parts.                                            *)

RowT == [kind : Flows \cup {"none", "gone", "session"}, invite : Invites \cup {None},
         linked : BOOLEAN, token : Flights \cup {None}, user : People \cup {None},
         stale : BOOLEAN, over : BOOLEAN]
UserT == [role : {"none", "user", "admin"}, scope : {"read", "repo"}, token : Nat, pat : Nat]
FlightT == [stage : {"none", "exchange", "encrypt", "done"}, kind : Flows \cup {"none", "pat"},
            person : People \cup {None}, nonce : Nonces \cup {None},
            invite : Invites \cup {None}, role : {"none", "user", "admin"}, key : Nat]

TablesType ==
  /\ rows \in [Codes -> RowT]
  /\ users \in [People -> UserT]
  /\ flights \in [Flights -> FlightT]
  /\ cookies \subseteq Flights /\ cli \subseteq Flights /\ ended \subseteq Flights
  /\ invites \in [Invites -> {"none", "open", "expired", "used", "revoked"}]
  /\ admitted \in [Invites -> SUBSET People]
  /\ raced \subseteq Invites

\* A token is in a row from the step on that stamps it, and the row is the one
\* the flight came for, or its own where an invite led to it.
TokenFits(n, R, us, fl, en) ==
  /\ R.user \in People /\ us[R.user].role # "none"
  /\ fl[R.token].person = R.user
  /\ fl[R.token].stage \in {"encrypt", "done"}
  /\ \/ fl[R.token].kind = "invite" /\ fl[R.token].stage = "done" /\ n = R.token
     \/ fl[R.token].kind \in {"device", "dashboard"} /\ n = fl[R.token].nonce
     \/ fl[R.token].kind = "upgrade" /\ fl[R.token].stage = "done" /\ n = fl[R.token].nonce
  /\ R.over => R.token \in en

RowFits(n, R, us, fl, en) ==
  /\ R \in RowT
  /\ (R.token = None) <=> (R.user = None)
  /\ (R.kind = "invite") <=> (R.invite # None)
  /\ R.token # None => TokenFits(n, R, us, fl, en)

RowsFit == \A n \in Codes : RowFits(n, rows[n], users, flights, ended)

AtWork(F) == F.stage \in {"exchange", "encrypt"}

\* What a flight remembers, and the row it came for.
FlightFits(F, rs, us) ==
  /\ F \in FlightT
  /\ F.stage = "none" => F = NoFlight
  /\ AtWork(F) => /\ F.person \in People /\ F.kind # "none"
                  /\ F.kind \in Flows => F.nonce # None
                  /\ (F.kind = "invite") <=> (F.invite # None)
  /\ F.stage = "encrypt" /\ F.kind \notin {"invite", "pat"} => us[F.person].role # "none"
  /\ F.nonce # None => F.kind \in Flows /\ rs[F.nonce].kind \in {F.kind, "gone"}
  /\ F.stage = "done" => F.invite = None
  /\ F.stage = "done" /\ F.kind \in {"dashboard", "upgrade"} => F.nonce # None

FlightsFit == \A f \in Flights : FlightFits(flights[f], rows, users)

\* A row is of one kind, and so are the flights that came for it.
SameKind ==
  \A f, g \in Flights :
     flights[f].nonce # None /\ flights[f].nonce = flights[g].nonce
       => flights[f].kind = flights[g].kind

Rival(f) == \E g \in Flights \ {f} : flights[g].nonce = flights[f].nonce

Holds(f) == \E n \in Codes : rows[n].token = f /\ ~rows[n].over

Lasts(f) == Holds(f) \/ f \in ended \/ (flights[f].kind # "invite" /\ Rival(f))

\* A flight that has yet to stamp a row that is to stay.
Unstamped(F) ==
  \/ F.stage = "exchange" /\ F.kind \in {"dashboard", "upgrade"}
  \/ F.stage = "encrypt" /\ F.kind = "upgrade"

\* A token that is, or is about to be, in a cookie.
Issued(f) == (flights[f].stage = "encrypt" /\ flights[f].kind = "dashboard") \/ f \in cookies

\* A row that went before its flight came to stamp it went with another's, and
\* so did a token that is no longer in its row.
TokensLast ==
  \A f \in Flights :
     /\ Unstamped(flights[f]) /\ rows[flights[f].nonce].kind = "gone" => Rival(f)
     /\ Issued(f) => Lasts(f)

CookiesFit ==
  \A f \in cookies : flights[f].stage = "done"
                     /\ flights[f].kind \in {"dashboard", "upgrade", "invite"}

\* Who holds an invite alone has nobody before him.
InvitesFit ==
  /\ \A i \in Invites : invites[i] \in {"none", "open", "expired"} => admitted[i] = {}
  /\ \A f \in Flights : AtWork(flights[f]) /\ flights[f].invite \in Invites \ raced =>
       /\ admitted[flights[f].invite] = {}
       /\ \A g \in Flights : AtWork(flights[g]) /\ flights[g].invite = flights[f].invite => g = f
  /\ \A i \in Invites \ raced : admitted[i] = {} \/ \E p \in People : admitted[i] = {p}

\* There is one key, the one in the file, unless it could not be written.
KeysFit ==
  /\ keys \in 0..MaxKeys /\ {key, keyFile} \subseteq 0..keys /\ unwritten \in BOOLEAN
  /\ ~unwritten => key \in {0, keyFile}
  /\ ~unwritten => \A p \in People : {users[p].token, users[p].pat} \subseteq {0, keyFile}
  /\ \A f \in Flights : flights[f].stage = "encrypt" =>
       flights[f].key \in 1..keys /\ (~unwritten => flights[f].key = keyFile)

\* Who is to be a user has seen that there is one already.
RolesFit ==
  /\ AdminExists
  /\ \A f \in Flights : flights[f].stage = "encrypt" /\ flights[f].kind = "invite" =>
       /\ flights[f].role \in {"user", "admin"}
       /\ flights[f].role = "user" => \E p \in People : Known(p)

AccountsInv ==
  /\ TablesType /\ RowsFit /\ FlightsFit /\ SameKind /\ TokensLast /\ CookiesFit
  /\ InvitesFit /\ KeysFit /\ RolesFit

-----------------------------------------------------------------------------
(* The names of things.                                                    *)

\* A code is a nonce or a flight, not both, and null is neither.
LEMMA CodeFacts ==
  /\ None \notin People /\ None \notin Nonces /\ None \notin Invites /\ None \notin Flights
  /\ \A n \in Nonces : n \in Codes /\ n \notin Flights
  /\ \A f \in Flights : f \in Codes /\ f \notin Nonces
  /\ MaxKeys \in Nat
BY SignInAssumption DEF SignInAssumption, Codes

\* The rows and flights that are not there.
LEMMA BlankFacts ==
  /\ NoRow \in RowT /\ NoRow.kind = "none" /\ NoRow.token = None /\ NoRow.user = None
  /\ NoRow.invite = None
  /\ GoneRow \in RowT /\ GoneRow.kind = "gone" /\ GoneRow.token = None /\ GoneRow.user = None
  /\ GoneRow.invite = None /\ GoneRow.over = FALSE
  /\ NoFlight \in FlightT /\ NoFlight.stage = "none" /\ NoFlight.kind = "none"
  /\ NoFlight.nonce = None /\ NoFlight.invite = None
BY DEF NoRow, GoneRow, NoFlight, RowT, FlightT, Flows

\* An empty row fits anywhere.
LEMMA BlankFits ==
  \A n, us, fl, en : RowFits(n, GoneRow, us, fl, en) /\ RowFits(n, NoRow, us, fl, en)
BY BlankFacts DEF RowFits

\* What is left of a flight at its end.
LEMMA DoneFacts ==
  ASSUME NEW F \in FlightT
  PROVE  /\ Done(F) \in FlightT /\ Done(F).stage = "done" /\ Done(F).invite = None
         /\ \/ F.kind = "pat" /\ Done(F).kind = "none" /\ Done(F).nonce = None
            \/ F.kind = "invite" /\ Done(F).nonce = None
               /\ \/ F.stage = "exchange" /\ Done(F).kind = "none"
                  \/ Done(F).kind = "invite" /\ Done(F).person = F.person
            \/ F.kind \notin {"pat", "invite"} /\ Done(F).kind = F.kind
               /\ Done(F).person = F.person /\ Done(F).nonce = F.nonce
<1> DEFINE a == [NoFlight EXCEPT !.stage = "done"]
           b == [NoFlight EXCEPT !.stage = "done", !.kind = "invite", !.person = F.person]
           c == [NoFlight EXCEPT !.stage = "done", !.kind = F.kind, !.person = F.person,
                                 !.nonce = F.nonce]
<1>1. /\ a \in FlightT /\ a.stage = "done" /\ a.invite = None /\ a.kind = "none" /\ a.nonce = None
      /\ b \in FlightT /\ b.stage = "done" /\ b.invite = None /\ b.kind = "invite"
      /\ b.nonce = None /\ b.person = F.person
      /\ c \in FlightT /\ c.stage = "done" /\ c.invite = None /\ c.kind = F.kind
      /\ c.nonce = F.nonce /\ c.person = F.person
  BY DEF NoFlight, FlightT, Flows
<1>2. CASE F.kind = "pat" \/ (F.stage = "exchange" /\ F.kind = "invite")
  <2>1. Done(F) = a
    BY <1>2 DEF Done
  <2> HIDE DEF a, b, c
  <2> QED BY <1>1, <1>2, <2>1
<1>3. CASE F.kind = "invite" /\ F.stage # "exchange"
  <2>1. Done(F) = b
    BY <1>3 DEF Done
  <2> HIDE DEF a, b, c
  <2> QED BY <1>1, <1>3, <2>1
<1>4. CASE F.kind \notin {"pat", "invite"}
  <2>1. Done(F) = c
    BY <1>4 DEF Done
  <2> HIDE DEF a, b, c
  <2> QED BY <1>1, <1>4, <2>1
<1> QED BY <1>2, <1>3, <1>4

Sealing(G, k) == [G EXCEPT !.stage = "encrypt", !.key = k]

\* getKey: a key that fits, and the flight with it.
LEMMA GetKeyFacts ==
  ASSUME KeysFit, flights \in [Flights -> FlightT], NEW f \in Flights, NEW G \in FlightT,
         GetKey(f, G)
  PROVE  \E k \in 1..keys' :
           /\ flights' = [flights EXCEPT ![f] = Sealing(G, k)]
           /\ keys' \in 0..MaxKeys /\ keys' >= keys /\ keyFile' \in 0..keys' /\ key' = key
           /\ unwritten' \in BOOLEAN /\ (unwritten => unwritten')
           /\ ~unwritten' => k = keyFile' /\ (keyFile' = keyFile \/ keyFile = 0)
<1>1. /\ keys \in 0..MaxKeys /\ key \in 0..keys /\ keyFile \in 0..keys /\ unwritten \in BOOLEAN
      /\ ~unwritten => key \in {0, keyFile}
  BY DEF KeysFit
<1>2. CASE KeyAtHand # 0
  <2>1. KeyAtHand \in 1..keys /\ (~unwritten => KeyAtHand = keyFile)
    BY <1>1, <1>2 DEF KeyAtHand
  <2>2. /\ flights' = [flights EXCEPT ![f] = Sealing(G, KeyAtHand)]
        /\ key' = key /\ keyFile' = keyFile /\ keys' = keys /\ unwritten' = unwritten
    BY <1>2 DEF GetKey, keyVars, Sealing
  <2>3. /\ KeyAtHand \in 1..keys' /\ keys' \in 0..MaxKeys /\ keys' >= keys
        /\ keyFile' \in 0..keys'
    BY <1>1, <2>1, <2>2
  <2>4. /\ unwritten' \in BOOLEAN /\ (unwritten => unwritten')
        /\ ~unwritten' => KeyAtHand = keyFile' /\ keyFile' = keyFile
    BY <1>1, <2>1, <2>2, Zenon
  <2> QED BY <2>2, <2>3, <2>4
<1>3. CASE KeyAtHand = 0
  <2>1. key = 0 /\ keyFile = 0
    BY <1>3 DEF KeyAtHand
  <2>2. PICK written \in BOOLEAN :
          keyFile' = FileAfter(written) /\ unwritten' = (unwritten \/ ~written)
    BY <1>3 DEF GetKey
  <2>3. /\ keys < MaxKeys /\ keys' = keys + 1 /\ key' = key
        /\ flights' = [flights EXCEPT ![f] = Sealing(G, keys + 1)]
    BY <1>3 DEF GetKey, Sealing
  <2>4. keys + 1 \in 1..keys' /\ keys' \in 0..MaxKeys /\ keys' >= keys
    BY <1>1, <2>3, CodeFacts
  <2>5. keyFile' \in 0..keys' /\ (~unwritten' => keyFile' = keys + 1 /\ ~unwritten)
    <3>1. CASE written
      <4>1. keyFile' = keys + 1
        BY <2>2, <3>1 DEF FileAfter
      <4>2. unwritten' \in BOOLEAN /\ (unwritten => unwritten')
        BY <1>1, <2>2
      <4>3. ~unwritten' => ~unwritten
        BY <4>2
      <4>4. keyFile' \in 0..keys'
        BY <2>4, <4>1
      <4> QED BY <4>1, <4>3, <4>4
    <3>2. CASE ~written
      <4>1. keyFile' = keyFile
        BY <2>2, <3>2 DEF FileAfter
      <4>2. unwritten' = TRUE
        BY <1>1, <2>2, <3>2
      <4>3. keyFile' \in 0..keys'
        BY <1>1, <2>4, <4>1
      <4> QED BY <4>2, <4>3
    <3> QED BY <3>1, <3>2
  <2> QED BY <1>1, <2>1, <2>2, <2>3, <2>4, <2>5
<1> QED BY <1>2, <1>3

-----------------------------------------------------------------------------
(* What a step may do to the rows.                                         *)

\* The kind of a nonce's row is drawn once.
KindKept(n) ==
  n \in Nonces =>
    rows'[n].kind \in {rows[n].kind, "gone"} \/ rows[n].kind \notin Flows \cup {"gone"}

\* A token leaves its row at its end, when the CLI has polled it, or for
\* another flight with the same nonce.
TokenKept(n) ==
  rows[n].token # None /\ ~rows[n].over =>
    \/ rows'[n].token = rows[n].token /\ ~rows'[n].over
    \/ rows[n].token \in ended'
    \/ flights[rows[n].token].kind = "device"
    \/ \E g \in Flights : g # rows[n].token /\ flights'[g].nonce = n

\* A row of the dashboard goes with a flight that had come for it.
GoneWith(n) ==
  n \in Nonces /\ rows'[n].kind = "gone" =>
    \/ rows[n].kind \notin {"dashboard", "upgrade"}
    \/ \E g \in Flights : flights'[g].nonce = n /\ ~Unstamped(flights'[g])

\* The flights that concern the rows go on as what they are.
FlightKept(h) ==
  /\ flights[h].nonce # None /\ flights[h].kind \in {"dashboard", "upgrade"}
       => flights'[h].nonce = flights[h].nonce /\ flights'[h].kind = flights[h].kind
  /\ flights'[h].kind \in {"dashboard", "upgrade"} => flights'[h].nonce \in Nonces
  /\ Unstamped(flights'[h]) =>
       \/ Unstamped(flights[h])
       \/ rows'[flights'[h].nonce].kind # "gone"
  /\ (flights'[h].stage = "encrypt" /\ flights'[h].kind = "dashboard") \/ h \in cookies'
       => Lasts(h)' \/ (Issued(h) /\ flights'[h].kind = flights[h].kind)

\* Tokens last through a step that keeps the rows and the flights like that.
LEMMA TokensStep ==
  ASSUME AccountsInv, flights' \in [Flights -> FlightT], rows' \in [Codes -> RowT],
         ended \subseteq ended',
         \A n \in Codes : TokenKept(n) /\ GoneWith(n) /\ KindKept(n),
         \A h \in Flights : FlightKept(h)
  PROVE  TokensLast'
<1>1. ASSUME NEW h \in Flights
      PROVE  /\ FlightFits(flights[h], rows, users) /\ flights[h] \in FlightT
             /\ flights'[h] \in FlightT /\ FlightKept(h) /\ h \in Codes
             /\ flights[h].nonce \in Nonces \cup {None}
  BY CodeFacts DEF AccountsInv, FlightsFit, FlightFits, FlightT
\* Rivals stay.
<1>2. ASSUME NEW h \in Flights, flights[h].nonce \in Nonces, Rival(h),
             flights[h].kind \in {"dashboard", "upgrade"}
      PROVE  Rival(h)'
  <2>1. PICK g \in Flights : g # h /\ flights[g].nonce = flights[h].nonce
    BY <1>2 DEF Rival
  <2>2. flights[g].kind = flights[h].kind /\ flights[g].nonce # None
    BY <1>2, <2>1, CodeFacts DEF AccountsInv, SameKind
  <2>3. flights'[g].nonce = flights[g].nonce /\ flights'[h].nonce = flights[h].nonce
    BY <1>1, <1>2, <2>2, CodeFacts DEF FlightKept
  <2> QED BY <2>1, <2>3 DEF Rival
<1>3. ASSUME NEW h \in Flights, Unstamped(flights'[h]), rows'[flights'[h].nonce].kind = "gone"
      PROVE  Rival(h)'
  <2>1. Unstamped(flights[h])
    BY <1>1, <1>3 DEF FlightKept
  <2>2. flights[h].kind \in {"dashboard", "upgrade"} /\ AtWork(flights[h])
    BY <2>1 DEF Unstamped, AtWork
  <2>3. flights[h].nonce \in Nonces /\ flights[h].nonce \in Codes
    BY <1>1, <2>2, CodeFacts DEF FlightFits, Flows
  <2>4. flights'[h].nonce = flights[h].nonce
    BY <1>1, <2>2, <2>3, CodeFacts DEF FlightKept
  <2> DEFINE n == flights[h].nonce
  <2>5. rows[n].kind \in {flights[h].kind, "gone"}
    BY <1>1, <2>3, CodeFacts DEF FlightFits
  <2>6. CASE rows[n].kind = "gone"
    <3>1. Rival(h)
      BY <2>1, <2>6 DEF AccountsInv, TokensLast
    <3> QED BY <1>2, <2>2, <2>3, <3>1
  <2>7. CASE rows[n].kind # "gone"
    <3>1. PICK g \in Flights : flights'[g].nonce = n /\ ~Unstamped(flights'[g])
      BY <1>3, <2>2, <2>3, <2>4, <2>5, <2>7 DEF GoneWith
    <3>2. g # h
      BY <1>3, <3>1
    <3> QED BY <2>4, <3>1, <3>2 DEF Rival
  <2> QED BY <2>6, <2>7
<1>4. ASSUME NEW h \in Flights, Issued(h), flights'[h].kind = flights[h].kind
      PROVE  Lasts(h)'
  <2>1. Lasts(h)
    BY <1>4 DEF AccountsInv, TokensLast
  <2>2. flights[h].kind \in {"dashboard", "upgrade", "invite"}
    BY <1>4 DEF Issued, AccountsInv, CookiesFit
  <2>3. flights[h].kind # "invite" => flights[h].nonce \in Nonces
    BY <1>1, <1>4, <2>2, CodeFacts DEF Issued, AccountsInv, CookiesFit, FlightFits, AtWork, Flows
  <2>4. CASE h \in ended
    BY <2>4 DEF Lasts
  <2>5. CASE flights[h].kind # "invite" /\ Rival(h)
    BY <1>2, <1>4, <2>2, <2>3, <2>5 DEF Lasts
  <2>6. CASE Holds(h)
    <3>1. PICK n \in Codes : rows[n].token = h /\ ~rows[n].over
      BY <2>6 DEF Holds
    <3>2. h # None
      BY CodeFacts
    <3>3. CASE rows'[n].token = rows[n].token /\ ~rows'[n].over
      BY <3>1, <3>3 DEF Holds, Lasts
    <3>4. CASE rows[n].token \in ended'
      BY <3>1, <3>4 DEF Lasts
    <3>5. ASSUME NEW g \in Flights, g # h, flights'[g].nonce = n
          PROVE  Lasts(h)'
      <4>1. n \in Nonces
        BY <1>1, <3>5, CodeFacts DEF FlightT, Codes
      <4>2. RowFits(n, rows[n], users, flights, ended)
        BY DEF AccountsInv, RowsFit
      <4>3. flights[h].kind # "invite" /\ n = flights[h].nonce
        BY <2>2, <3>1, <3>2, <4>1, <4>2, CodeFacts DEF RowFits, TokenFits
      <4>4. flights'[h].nonce = n
        BY <1>1, <2>2, <4>1, <4>3, CodeFacts DEF FlightKept
      <4>5. Rival(h)'
        BY <3>5, <4>4 DEF Rival
      <4> QED BY <1>4, <4>3, <4>5 DEF Lasts
    <3> QED BY <2>2, <3>1, <3>2, <3>3, <3>4, <3>5 DEF TokenKept
  <2> QED BY <2>1, <2>4, <2>5, <2>6 DEF Lasts
<1>5. ASSUME NEW h \in Flights, Issued(h)'
      PROVE  Lasts(h)'
  BY <1>1, <1>4, <1>5 DEF FlightKept, Issued
<1> QED BY <1>3, <1>5 DEF TokensLast

-----------------------------------------------------------------------------
(* What a step may do to the flights.                                      *)

\* A flight begins,
Begun(F, G, rs) ==
  /\ F = NoFlight /\ G \in FlightT /\ G.stage = "exchange" /\ G.person \in People
  /\ \/ G.kind = "pat" /\ G.nonce = None /\ G.invite = None
     \/ /\ G.kind \in Flows /\ G.nonce \in Nonces
        /\ rows[G.nonce].kind = G.kind /\ rs[G.nonce].kind = G.kind
        /\ (G.kind = "invite") <=> (G.invite # None)

\* has its token encrypted,
Sealable(F, G, us) ==
  /\ F.stage = "exchange" /\ G \in FlightT /\ G.stage = "encrypt"
  /\ G.kind = F.kind /\ G.person = F.person /\ G.nonce = F.nonce /\ G.invite = F.invite
  /\ F.kind \notin {"invite", "pat"} => us[F.person].role # "none"

\* and ends.
Ended(F, G) == AtWork(F) /\ G = Done(F)

Onward(h) ==
  \/ flights'[h] = flights[h]
  \/ Begun(flights[h], flights'[h], rows')
  \/ Sealable(flights[h], flights'[h], users')
  \/ Ended(flights[h], flights'[h])

\* A step that lets flights go on, and everybody stay who is a user.
Steady ==
  /\ \A h \in Flights : Onward(h)
  /\ \A p \in People : Known(p) => users'[p].role # "none"
  /\ ended \subseteq ended'

\* All that has to hold of a row after a step.
RowGood(n) ==
  /\ KindKept(n) /\ TokenKept(n) /\ GoneWith(n)
  /\ RowFits(n, rows'[n], users', flights', ended')

\* A token in its row stays right when its flight ends.
LEMMA TokenStays ==
  ASSUME NEW n, NEW R, NEW R2, NEW us, NEW fl, NEW en, NEW us2, NEW fl2, NEW en2,
         TokenFits(n, R, us, fl, en),
         R2.token = R.token, R2.user = R.user, R2.over => R.over \/ R.token \in en2,
         us[R.user].role # "none" => us2[R.user].role # "none",
         fl[R.token] \in FlightT,
         \/ fl2[R.token] = fl[R.token]
         \/ fl[R.token].stage = "encrypt" /\ fl2[R.token] = Done(fl[R.token]),
         R.token \in en => R.token \in en2
  PROVE  TokenFits(n, R2, us2, fl2, en2)
<1>1. CASE fl2[R.token] = fl[R.token]
  BY <1>1 DEF TokenFits
<1>2. CASE fl[R.token].stage = "encrypt" /\ fl2[R.token] = Done(fl[R.token])
  <2>1. fl[R.token].kind \in {"device", "dashboard"}
    BY <1>2 DEF TokenFits
  <2>2. /\ fl2[R.token].stage = "done" /\ fl2[R.token].kind = fl[R.token].kind
        /\ fl2[R.token].person = fl[R.token].person /\ fl2[R.token].nonce = fl[R.token].nonce
    BY <1>2, <2>1, DoneFacts
  <2> QED BY <2>1, <2>2 DEF TokenFits
<1> QED BY <1>1, <1>2

\* The flight whose token a row holds, now and after a step.
LEMMA TokenRow ==
  ASSUME AccountsInv, NEW n \in Codes, rows[n].token # None
  PROVE  /\ rows[n].token \in Flights /\ flights[rows[n].token] \in FlightT
         /\ TokenFits(n, rows[n], users, flights, ended) /\ rows[n].user \in People
         /\ flights[rows[n].token].stage \in {"encrypt", "done"}
         /\ ~Unstamped(flights[rows[n].token])
         /\ n \in Nonces => /\ flights[rows[n].token].nonce = n
                            /\ rows[n].kind \in {flights[rows[n].token].kind, "gone"}
                            /\ flights[rows[n].token].kind \in {"device", "dashboard", "upgrade"}
         /\ n \in Flights => n = rows[n].token /\ flights[n].stage = "done"
<1> DEFINE f == rows[n].token
<1>1. RowFits(n, rows[n], users, flights, ended)
  BY DEF AccountsInv, RowsFit
<1>2. /\ f \in Flights /\ TokenFits(n, rows[n], users, flights, ended)
      /\ rows[n].user \in People
  BY <1>1 DEF RowFits, RowT, TokenFits
<1>3. flights[f] \in FlightT /\ FlightFits(flights[f], rows, users)
  BY <1>2 DEF AccountsInv, TablesType, FlightsFit
<1>4. /\ flights[f].stage \in {"encrypt", "done"}
      /\ \/ flights[f].kind = "invite" /\ flights[f].stage = "done" /\ n = f
         \/ flights[f].kind \in {"device", "dashboard"} /\ n = flights[f].nonce
         \/ flights[f].kind = "upgrade" /\ flights[f].stage = "done" /\ n = flights[f].nonce
  BY <1>2 DEF TokenFits
<1> HIDE DEF f
<1>5. ~Unstamped(flights[f])
  BY <1>4 DEF Unstamped
<1>6. flights[f].nonce = None \/ flights[f].nonce \in Nonces
  BY <1>3 DEF FlightT
<1>7. ASSUME n \in Nonces
      PROVE  /\ flights[f].nonce = n /\ rows[n].kind \in {flights[f].kind, "gone"}
             /\ flights[f].kind \in {"device", "dashboard", "upgrade"}
  <2>1. n # f /\ n # None
    BY <1>2, <1>7, CodeFacts
  <2> QED BY <1>3, <1>4, <2>1 DEF FlightFits
<1>8. n \in Flights => n = f /\ flights[n].stage = "done"
  BY <1>4, <1>6, CodeFacts
<1> QED BY <1>2, <1>3, <1>4, <1>5, <1>7, <1>8 DEF f

\* Such a flight keeps its nonce and never stamps the row again.
LEMMA StampedOnce ==
  ASSUME AccountsInv, NEW n \in Nonces, rows[n].token # None, Steady
  PROVE  flights'[rows[n].token].nonce = n /\ ~Unstamped(flights'[rows[n].token])
<1> DEFINE F == flights[rows[n].token]
           G == flights'[rows[n].token]
<1>1. /\ F \in FlightT /\ F.stage \in {"encrypt", "done"} /\ ~Unstamped(F) /\ F.nonce = n
      /\ F.kind \in {"device", "dashboard", "upgrade"} /\ rows[n].token \in Flights
  BY TokenRow, CodeFacts
<1>2. \/ G = F \/ Begun(F, G, rows') \/ Sealable(F, G, users') \/ Ended(F, G)
  BY <1>1 DEF Steady, Onward
<1> HIDE DEF F, G
<1>3. G = F \/ G = Done(F)
  BY <1>1, <1>2, BlankFacts DEF Begun, Sealable, Ended
<1>4. G = Done(F) => G.nonce = n /\ G.stage = "done"
  BY <1>1, DoneFacts
<1> QED BY <1>1, <1>3, <1>4 DEF Unstamped, F, G

\* A row whose token stays.
LEMMA RowAlike ==
  ASSUME AccountsInv, Steady, NEW n \in Codes, rows'[n] \in RowT,
         rows'[n].token = rows[n].token, rows'[n].user = rows[n].user,
         rows'[n].kind = rows[n].kind, rows'[n].invite = rows[n].invite,
         rows'[n].over = rows[n].over \/ rows[n].token \in ended'
  PROVE  RowGood(n)
<1> DEFINE R == rows[n]
           R2 == rows'[n]
           f == R.token
<1>1. RowFits(n, R, users, flights, ended)
  BY DEF AccountsInv, RowsFit
<1>2. f # None => TokenFits(n, R2, users', flights', ended')
  <2> SUFFICES ASSUME f # None PROVE TokenFits(n, R2, users', flights', ended')
    OBVIOUS
  <2>1. /\ f \in Flights /\ TokenFits(n, R, users, flights, ended) /\ R.user \in People
        /\ flights[f].stage \in {"encrypt", "done"} /\ flights[f] \in FlightT
    BY TokenRow
  <2>2. Onward(f)
    BY <2>1 DEF Steady
  <2>3. flights'[f] = flights[f] \/ (flights[f].stage = "encrypt" /\ flights'[f] = Done(flights[f]))
    BY <2>1, <2>2, BlankFacts DEF Onward, Begun, Sealable, Ended, AtWork
  <2>4. users[R.user].role # "none" => users'[R.user].role # "none"
    BY <2>1 DEF Steady, Known
  <2>5. f \in ended => f \in ended'
    BY DEF Steady
  <2>6. R2.token = R.token /\ R2.user = R.user /\ (R2.over => R.over \/ R.token \in ended')
    OBVIOUS
  <2> HIDE DEF R, R2
  <2> QED BY <2>1, <2>3, <2>4, <2>5, <2>6, TokenStays DEF f
<1>3. RowFits(n, R2, users', flights', ended')
  BY <1>1, <1>2 DEF RowFits
<1>4. KindKept(n) /\ GoneWith(n)
  BY DEF KindKept, GoneWith
<1>5. TokenKept(n)
  BY DEF TokenKept
<1> QED BY <1>3, <1>4, <1>5 DEF RowGood

\* A row that stays as it is.
LEMMA RowSame ==
  ASSUME AccountsInv, Steady, NEW n \in Codes, rows'[n] = rows[n]
  PROVE  RowGood(n)
<1>1. rows[n] \in RowT
  BY DEF AccountsInv, TablesType
<1> QED BY <1>1, RowAlike

\* A row that goes.
LEMMA RowGone ==
  ASSUME AccountsInv, Steady, NEW n \in Codes, rows'[n] = GoneRow, TokenKept(n),
         \/ rows[n].token # None
         \/ rows[n].kind \notin {"dashboard", "upgrade"}
         \/ \E g \in Flights : flights'[g].nonce = n /\ ~Unstamped(flights'[g])
  PROVE  RowGood(n)
<1>1. KindKept(n) /\ RowFits(n, rows'[n], users', flights', ended')
  BY BlankFacts, BlankFits DEF KindKept
<1>2. ASSUME n \in Nonces, rows[n].token # None
      PROVE  \E g \in Flights : flights'[g].nonce = n /\ ~Unstamped(flights'[g])
  BY <1>2, StampedOnce, TokenRow
<1>3. GoneWith(n)
  BY <1>2 DEF GoneWith
<1> QED BY <1>1, <1>3 DEF RowGood

\* A flight after a step.
LEMMA FlightStep ==
  ASSUME AccountsInv, NEW h \in Flights, Onward(h), \A n \in Codes : KindKept(n),
         \A p \in People : Known(p) => users'[p].role # "none"
  PROVE  /\ FlightFits(flights'[h], rows', users')
         /\ flights[h].nonce # None /\ flights[h].kind \in {"dashboard", "upgrade"}
              => flights'[h].nonce = flights[h].nonce /\ flights'[h].kind = flights[h].kind
         /\ flights'[h].kind \in {"dashboard", "upgrade"} => flights'[h].nonce \in Nonces
         /\ Unstamped(flights'[h]) =>
              Unstamped(flights[h]) \/ rows'[flights'[h].nonce].kind # "gone"
         /\ flights'[h].nonce # None =>
              \/ flights'[h].nonce = flights[h].nonce /\ flights'[h].kind = flights[h].kind
              \/ flights'[h].kind \in Flows /\ rows[flights'[h].nonce].kind = flights'[h].kind
<1> DEFINE F == flights[h]
           G == flights'[h]
<1>1. FlightFits(F, rows, users) /\ F \in FlightT
  BY DEF AccountsInv, FlightsFit, FlightFits
<1>2. F.nonce # None => F.nonce \in Codes /\ F.nonce \in Nonces
  BY <1>1, CodeFacts DEF FlightT
<1>3. F.nonce # None => F.kind \in Flows /\ rows'[F.nonce].kind \in {F.kind, "gone"}
  BY <1>1, <1>2 DEF FlightFits, KindKept
<1>4. F.kind \in {"dashboard", "upgrade"} => F.nonce \in Nonces
  BY <1>1, <1>2, BlankFacts DEF FlightFits, AtWork, FlightT, Flows
<1>5. F.stage = "encrypt" /\ F.kind \notin {"invite", "pat"} => users'[F.person].role # "none"
  BY <1>1 DEF FlightFits, AtWork, Known
<1> HIDE DEF F, G
<1>6. CASE G = F
  BY <1>1, <1>2, <1>3, <1>4, <1>5, <1>6 DEF FlightFits, F, G
<1>7. CASE Begun(F, G, rows')
  <2>1. /\ F.nonce = None /\ G \in FlightT /\ G.stage = "exchange" /\ G.person \in People
        /\ \/ G.kind = "pat" /\ G.nonce = None /\ G.invite = None
           \/ /\ G.kind \in Flows /\ G.nonce \in Nonces
              /\ rows[G.nonce].kind = G.kind /\ rows'[G.nonce].kind = G.kind
              /\ (G.kind = "invite") <=> (G.invite # None)
    BY <1>7, BlankFacts DEF Begun
  <2>2. G.kind # "none" /\ (G.kind = "pat" => G.kind \notin Flows) /\ "gone" \notin Flows
    BY <2>1 DEF Flows
  <2>3. FlightFits(G, rows', users')
    BY <2>1, <2>2, CodeFacts DEF FlightFits, AtWork
  <2>5. G.kind \in {"dashboard", "upgrade"} => G.nonce \in Nonces
    BY <2>1
  <2>6. Unstamped(G) => rows'[G.nonce].kind # "gone"
    BY <2>1 DEF Unstamped
  <2>7. G.nonce # None => G.kind \in Flows /\ rows[G.nonce].kind = G.kind
    BY <2>1
  <2> QED BY <2>1, <2>3, <2>5, <2>6, <2>7 DEF F, G
<1>8. CASE Sealable(F, G, users')
  <2>1. AtWork(F)
    BY <1>8 DEF Sealable, AtWork
  <2>2. FlightFits(G, rows', users')
    BY <1>1, <1>3, <1>8, <2>1 DEF FlightFits, Sealable, AtWork
  <2>3. Unstamped(G) => Unstamped(F)
    BY <1>8 DEF Unstamped, Sealable
  <2> QED BY <1>2, <1>4, <1>8, <2>2, <2>3 DEF Sealable, F, G
<1>9. CASE Ended(F, G)
  <2>1. /\ G \in FlightT /\ G.stage = "done" /\ G.invite = None
        /\ \/ F.kind = "pat" /\ G.kind = "none" /\ G.nonce = None
           \/ F.kind = "invite" /\ G.kind \in {"none", "invite"} /\ G.nonce = None
           \/ F.kind \notin {"pat", "invite"} /\ G.kind = F.kind /\ G.nonce = F.nonce
    BY <1>1, <1>9, DoneFacts DEF Ended
  <2>2. FlightFits(G, rows', users')
    BY <1>3, <1>4, <2>1, CodeFacts DEF FlightFits, AtWork
  <2>3. ~Unstamped(G)
    BY <2>1 DEF Unstamped
  <2> QED BY <1>2, <1>4, <2>1, <2>2, <2>3 DEF F, G
<1> QED BY <1>6, <1>7, <1>8, <1>9 DEF Onward, F, G

\* Rows, flights, tokens and cookies after a step that keeps to the above.
LEMMA OnwardStep ==
  ASSUME AccountsInv, TablesType', Steady, \A n \in Codes : RowGood(n),
         \A h \in Flights : Issued(h)' => Issued(h) \/ Lasts(h)',
         \A h \in cookies' : h \in cookies \/ (flights'[h].stage = "done"
                               /\ flights'[h].kind \in {"dashboard", "upgrade", "invite"})
  PROVE  RowsFit' /\ FlightsFit' /\ SameKind' /\ TokensLast' /\ CookiesFit'
<1> USE DEF Steady, RowGood
<1>1. RowsFit'
  BY DEF RowsFit
<1>2. FlightsFit'
  BY FlightStep DEF FlightsFit
<1>3. ASSUME NEW f \in Flights, NEW g \in Flights, flights'[f].nonce # None,
             flights'[f].nonce = flights'[g].nonce
      PROVE  flights'[f].kind = flights'[g].kind
  <2>1. \A h \in Flights : FlightFits(flights[h], rows, users)
    BY DEF AccountsInv, FlightsFit
  <2>2. \A h \in {f, g} :
           \/ flights'[h].nonce = flights[h].nonce /\ flights'[h].kind = flights[h].kind
           \/ flights'[h].kind \in Flows /\ rows[flights'[h].nonce].kind = flights'[h].kind
    BY <1>3, FlightStep
  <2>3. "gone" \notin Flows
    BY DEF Flows
  <2> QED BY <1>3, <2>1, <2>2, <2>3 DEF FlightFits, AccountsInv, SameKind
<1>4. SameKind'
  BY <1>3 DEF SameKind
<1>5. ASSUME NEW h \in Flights, h \in cookies
      PROVE  flights'[h] = flights[h] /\ flights[h].stage = "done"
             /\ flights[h].kind \in {"dashboard", "upgrade", "invite"}
  <2>1. flights[h].stage = "done" /\ flights[h].kind \in {"dashboard", "upgrade", "invite"}
    BY <1>5 DEF AccountsInv, CookiesFit
  <2> QED BY <2>1, BlankFacts DEF Onward, Begun, Sealable, Ended, AtWork
<1>6. CookiesFit'
  BY <1>5 DEF CookiesFit, TablesType
<1>7. ASSUME NEW h \in Flights, Issued(h), Issued(h)'
      PROVE  flights'[h].kind = flights[h].kind
  <2>1. CASE h \in cookies
    BY <1>5, <2>1
  <2>2. CASE flights[h].stage = "encrypt" /\ flights[h].kind = "dashboard"
    <3>1. flights[h] \in FlightT
      BY DEF AccountsInv, TablesType
    <3> QED BY <2>2, <3>1, BlankFacts, DoneFacts DEF Onward, Begun, Sealable, Ended, AtWork
  <2> QED BY <1>7, <2>1, <2>2 DEF Issued
<1>8. ASSUME NEW h \in Flights
      PROVE  FlightKept(h)
  <2>1. Issued(h)' => Lasts(h)' \/ (Issued(h) /\ flights'[h].kind = flights[h].kind)
    BY <1>7
  <2>2. (flights'[h].stage = "encrypt" /\ flights'[h].kind = "dashboard") \/ h \in cookies'
          => Issued(h)'
    BY DEF Issued
  <2> QED BY <2>1, <2>2, FlightStep DEF FlightKept
<1>9. TokensLast'
  <2>1. flights' \in [Flights -> FlightT] /\ rows' \in [Codes -> RowT]
    BY DEF TablesType
  <2> QED BY <1>8, <2>1, TokensStep
<1> QED BY <1>1, <1>2, <1>4, <1>6, <1>9

-----------------------------------------------------------------------------
(* Invites, keys and roles.                                                *)

\* Steps that no invite is taken by or used up in.
LEMMA InvitesKept ==
  ASSUME AccountsInv, admitted' = admitted, raced' = raced,
         \A i \in Invites : invites'[i] \in {"none", "open", "expired"} =>
           invites[i] \in {"none", "open", "expired"},
         \A h \in Flights : AtWork(flights'[h]) /\ flights'[h].invite # None =>
           AtWork(flights[h]) /\ flights[h].invite = flights'[h].invite
  PROVE  InvitesFit'
<1>1. InvitesFit
  BY DEF AccountsInv
<1>2. \A i \in Invites : invites'[i] \in {"none", "open", "expired"} => admitted'[i] = {}
  BY <1>1 DEF InvitesFit
<1>3. ASSUME NEW f \in Flights, AtWork(flights'[f]), flights'[f].invite \in Invites \ raced'
      PROVE  /\ admitted'[flights'[f].invite] = {}
             /\ \A g \in Flights :
                  AtWork(flights'[g]) /\ flights'[g].invite = flights'[f].invite => g = f
  <2>1. flights'[f].invite # None
    BY <1>3, CodeFacts
  <2>2. AtWork(flights[f]) /\ flights[f].invite = flights'[f].invite
    BY <1>3, <2>1
  <2>3. ASSUME NEW g \in Flights, AtWork(flights'[g]), flights'[g].invite = flights'[f].invite
        PROVE  g = f
    <3>1. AtWork(flights[g]) /\ flights[g].invite = flights[f].invite
      BY <2>1, <2>2, <2>3
    <3> QED BY <1>1, <1>3, <2>2, <3>1 DEF InvitesFit
  <2> QED BY <1>1, <1>3, <2>2, <2>3 DEF InvitesFit
<1>4. \A i \in Invites \ raced' : admitted'[i] = {} \/ \E p \in People : admitted'[i] = {p}
  BY <1>1 DEF InvitesFit
<1> QED BY <1>2, <1>3, <1>4 DEF InvitesFit

\* Steps without a new key.
LEMMA KeysKept ==
  ASSUME AccountsInv, keys' = keys, keyFile' = keyFile, unwritten' = unwritten,
         \/ key' \in {0, key}
         \/ \E f \in Flights : flights[f].stage = "encrypt" /\ key' = flights[f].key,
         \A p \in People : {users'[p].token, users'[p].pat} \subseteq
           {0, users[p].token, users[p].pat, key'},
         \A h \in Flights : flights'[h].stage = "encrypt" => flights'[h] = flights[h]
  PROVE  KeysFit'
<1>1. KeysFit
  BY DEF AccountsInv
<1>2. keys' \in 0..MaxKeys /\ keyFile' \in 0..keys' /\ unwritten' \in BOOLEAN
  BY <1>1 DEF KeysFit
<1>3. key' \in 0..keys' /\ (~unwritten' => key' \in {0, keyFile'})
  <2>1. CASE key' \in {0, key}
    BY <1>1, <2>1 DEF KeysFit
  <2>2. ASSUME NEW f \in Flights, flights[f].stage = "encrypt", key' = flights[f].key
        PROVE  key' \in 0..keys' /\ (~unwritten' => key' \in {0, keyFile'})
    <3>1. flights[f].key \in 1..keys /\ (~unwritten => flights[f].key = keyFile)
      BY <1>1, <2>2 DEF KeysFit
    <3>2. flights[f].key \in 0..keys
      BY <1>1, <3>1 DEF KeysFit
    <3> QED BY <2>2, <3>1, <3>2
  <2> QED BY <2>1, <2>2
<1>4. ~unwritten' => \A p \in People : {users'[p].token, users'[p].pat} \subseteq {0, keyFile'}
  BY <1>1, <1>3 DEF KeysFit
<1>5. \A h \in Flights : flights'[h].stage = "encrypt" =>
         flights'[h].key \in 1..keys' /\ (~unwritten' => flights'[h].key = keyFile')
  BY <1>1 DEF KeysFit
<1> QED BY <1>2, <1>3, <1>4, <1>5 DEF KeysFit

\* getKey.
LEMMA KeysGot ==
  ASSUME AccountsInv, NEW f \in Flights, NEW G \in FlightT, GetKey(f, G), users' = users
  PROVE  KeysFit'
<1>1. KeysFit /\ flights \in [Flights -> FlightT]
  BY DEF AccountsInv, TablesType
<1>2. PICK k \in 1..keys' :
        /\ flights' = [flights EXCEPT ![f] = Sealing(G, k)]
        /\ keys' \in 0..MaxKeys /\ keys' >= keys /\ keyFile' \in 0..keys' /\ key' = key
        /\ unwritten' \in BOOLEAN /\ (unwritten => unwritten')
        /\ ~unwritten' => k = keyFile' /\ (keyFile' = keyFile \/ keyFile = 0)
  BY <1>1, GetKeyFacts
<1>3. keys \in Nat /\ key \in 0..keys /\ keyFile \in 0..keys /\ unwritten \in BOOLEAN
  BY <1>1 DEF KeysFit
<1>4. key' \in 0..keys'
  BY <1>2, <1>3
<1>5. ~unwritten' => ~unwritten
  BY <1>2, <1>3
<1>6. ~unwritten' => key' \in {0, keyFile'}
  BY <1>1, <1>2, <1>5 DEF KeysFit
<1>7. ~unwritten' => \A p \in People : {users'[p].token, users'[p].pat} \subseteq {0, keyFile'}
  BY <1>1, <1>2, <1>5 DEF KeysFit
<1>8. ASSUME NEW h \in Flights, flights'[h].stage = "encrypt"
      PROVE  flights'[h].key \in 1..keys' /\ (~unwritten' => flights'[h].key = keyFile')
  <2>1. CASE h = f
    <3>1. flights'[f].key = k
      BY <1>1, <1>2 DEF Sealing, FlightT
    <3> QED BY <1>2, <2>1, <3>1
  <2>2. CASE h # f
    <3>1. flights'[h] = flights[h]
      BY <1>1, <1>2, <2>2
    <3>2. flights[h].key \in 1..keys /\ (~unwritten => flights[h].key = keyFile)
      BY <1>1, <1>8, <3>1 DEF KeysFit
    <3>3. flights[h].key \in 1..keys'
      BY <1>2, <1>3, <3>2
    <3>4. ~unwritten' => keyFile # 0
      BY <1>3, <1>5, <3>2
    <3> QED BY <1>2, <1>5, <3>1, <3>2, <3>3, <3>4
  <2> QED BY <2>1, <2>2
<1> QED BY <1>2, <1>4, <1>6, <1>7, <1>8 DEF KeysFit

\* Steps that make nobody a user, and decide on nobody's role.
LEMMA RolesKept ==
  ASSUME AccountsInv, \A p \in People : users'[p].role = users[p].role,
         \A h \in Flights : flights'[h].stage = "encrypt" /\ flights'[h].kind = "invite" =>
           /\ flights[h].stage = "encrypt" /\ flights[h].kind = "invite"
           /\ flights'[h].role = flights[h].role
  PROVE  RolesFit'
<1>1. RolesFit
  BY DEF AccountsInv
<1>2. AdminExists'
  BY <1>1 DEF RolesFit, AdminExists, Known
<1> QED BY <1>1, <1>2 DEF RolesFit, Known

\* A step that keeps its rows good and to the invites, keys and roles.
LEMMA WholeStep ==
  ASSUME AccountsInv, TablesType', Steady, \A n \in Codes : rows'[n] = rows[n] \/ RowGood(n),
         \A h \in Flights : Issued(h)' => Issued(h) \/ Lasts(h)',
         \A h \in cookies' : h \in cookies \/ (flights'[h].stage = "done"
                               /\ flights'[h].kind \in {"dashboard", "upgrade", "invite"}),
         InvitesFit', KeysFit', RolesFit'
  PROVE  AccountsInv'
<1>1. \A n \in Codes : RowGood(n)
  BY RowSame
<1>2. RowsFit' /\ FlightsFit' /\ SameKind' /\ TokensLast' /\ CookiesFit'
  BY <1>1, OnwardStep
<1> QED BY <1>2 DEF AccountsInv

-----------------------------------------------------------------------------
(* The steps that only touch rows.                                         *)

RowsOnly ==
  /\ flights' = flights /\ users' = users /\ invites' = invites /\ cookies' = cookies
  /\ UNCHANGED keyVars /\ admitted' = admitted /\ raced' = raced
  /\ ended \subseteq ended' /\ ended' \subseteq Flights /\ cli' \subseteq Flights

\* They let everything else go on.
LEMMA RowsOnlySteady ==
  ASSUME RowsOnly
  PROVE  Steady
BY DEF RowsOnly, Steady, Onward, Known

\* They keep the invariant when the rows they change are good.
LEMMA RowsOnlyStep ==
  ASSUME AccountsInv, RowsOnly, rows' \in [Codes -> RowT],
         \A n \in Codes : rows'[n] = rows[n] \/ RowGood(n)
  PROVE  AccountsInv'
<1>1. TablesType'
  BY DEF AccountsInv, TablesType, RowsOnly
<1>2. InvitesFit'
  BY InvitesKept DEF RowsOnly
<1>3. KeysFit'
  BY KeysKept DEF RowsOnly, keyVars
<1>4. RolesFit'
  BY RolesKept DEF RowsOnly
<1>5. Steady
  BY RowsOnlySteady
<1> QED BY <1>1, <1>2, <1>3, <1>4, <1>5, WholeStep DEF RowsOnly, Issued

\* A row is drawn.
LEMMA DrawStep ==
  ASSUME AccountsInv, NEW n \in Nonces, NEW kind \in Flows, NEW i \in Invites \cup {None},
         (kind = "invite") <=> (i # None), Draw(n, kind, i)
  PROVE  AccountsInv'
<1> DEFINE R == [NoRow EXCEPT !.kind = kind, !.invite = i, !.linked = (kind # "device")]
<1>1. RowsOnly /\ rows' = [rows EXCEPT ![n] = R] /\ rows[n].kind = "none"
  BY DEF AccountsInv, TablesType, Draw, traceVars, RowsOnly
<1>2. R \in RowT /\ R.kind = kind /\ R.invite = i /\ R.token = None /\ R.user = None
  BY BlankFacts DEF RowT, NoRow
<1> HIDE DEF R
<1>3. n \in Codes /\ rows \in [Codes -> RowT]
  BY CodeFacts DEF AccountsInv, TablesType
<1>4. rows'[n] = R /\ rows' \in [Codes -> RowT]
  BY <1>1, <1>2, <1>3
<1>5. "none" \notin Flows \cup {"gone"} /\ "gone" \notin Flows
  BY DEF Flows
<1>6. rows[n].token = None
  <2>1. rows[n].token # None => rows[n].kind \in {"device", "dashboard", "upgrade", "gone"}
    BY <1>3, TokenRow
  <2> QED BY <1>1, <2>1
<1>7. KindKept(n) /\ TokenKept(n)
  BY <1>1, <1>5, <1>6 DEF KindKept, TokenKept
<1>8. GoneWith(n)
  BY <1>2, <1>4, <1>5 DEF GoneWith
<1>9. RowFits(n, rows'[n], users', flights', ended')
  BY <1>2, <1>4 DEF RowFits
<1>10. RowGood(n)
  BY <1>7, <1>8, <1>9 DEF RowGood
<1> QED BY <1>1, <1>3, <1>4, <1>10, RowsOnlyStep

\* /verify.
LEMMA VerifyStep ==
  ASSUME AccountsInv, NEW n \in Nonces, Verify(n)
  PROVE  AccountsInv'
<1>1. RowsOnly /\ rows' = [rows EXCEPT ![n].linked = TRUE]
  BY DEF AccountsInv, TablesType, Verify, traceVars, RowsOnly
<1>2. n \in Codes /\ rows \in [Codes -> RowT] /\ rows[n] \in RowT
  BY CodeFacts DEF AccountsInv, TablesType
<1>3. /\ rows'[n] \in RowT /\ rows'[n].token = rows[n].token /\ rows'[n].user = rows[n].user
      /\ rows'[n].kind = rows[n].kind /\ rows'[n].invite = rows[n].invite
      /\ rows'[n].over = rows[n].over
  BY <1>1, <1>2 DEF RowT
<1>4. rows' \in [Codes -> RowT]
  BY <1>1, <1>2, <1>3
<1>5. RowGood(n)
  BY <1>1, <1>2, <1>3, RowsOnlySteady, RowAlike
<1> QED BY <1>1, <1>2, <1>4, <1>5, RowsOnlyStep

\* A code is no longer good.
LEMMA CodeExpiresStep ==
  ASSUME AccountsInv, NEW n \in Nonces, CodeExpires(n)
  PROVE  AccountsInv'
<1>1. RowsOnly /\ rows' = [rows EXCEPT ![n].stale = TRUE]
  BY DEF AccountsInv, TablesType, CodeExpires, Lapse, RowsOnly
<1>2. n \in Codes /\ rows \in [Codes -> RowT] /\ rows[n] \in RowT
  BY CodeFacts DEF AccountsInv, TablesType
<1>3. /\ rows'[n] \in RowT /\ rows'[n].token = rows[n].token /\ rows'[n].user = rows[n].user
      /\ rows'[n].kind = rows[n].kind /\ rows'[n].invite = rows[n].invite
      /\ rows'[n].over = rows[n].over
  BY <1>1, <1>2 DEF RowT
<1>4. rows' \in [Codes -> RowT]
  BY <1>1, <1>2, <1>3
<1>5. RowGood(n)
  BY <1>1, <1>2, <1>3, RowsOnlySteady, RowAlike
<1> QED BY <1>1, <1>2, <1>4, <1>5, RowsOnlyStep

\* A session comes to its end.
LEMMA SessionEndsStep ==
  ASSUME AccountsInv, NEW n \in Codes, SessionEnds(n)
  PROVE  AccountsInv'
<1>1. rows \in [Codes -> RowT] /\ rows[n] \in RowT /\ ended \subseteq Flights
  BY DEF AccountsInv, TablesType
<1>2. rows[n].token \in Flights
  BY TokenRow DEF SessionEnds
<1>3. /\ rows' = [rows EXCEPT ![n].over = TRUE] /\ ended' = ended \cup {rows[n].token}
  BY DEF SessionEnds
<1>4. RowsOnly
  BY <1>1, <1>2, <1>3 DEF AccountsInv, TablesType, SessionEnds, Lapse, RowsOnly
<1>5. /\ rows'[n] \in RowT /\ rows'[n].token = rows[n].token /\ rows'[n].user = rows[n].user
      /\ rows'[n].kind = rows[n].kind /\ rows'[n].invite = rows[n].invite
      /\ rows[n].token \in ended'
  BY <1>1, <1>3 DEF RowT
<1>6. rows' \in [Codes -> RowT]
  BY <1>1, <1>3, <1>5
<1>7. RowGood(n)
  BY <1>4, <1>5, RowsOnlySteady, RowAlike
<1> QED BY <1>1, <1>3, <1>4, <1>6, <1>7, RowsOnlyStep

\* The sweep.
LEMMA SweptRows ==
  ASSUME AccountsInv, Steady, rows' = Swept
  PROVE  /\ rows' \in [Codes -> RowT]
         /\ \A n \in Codes : rows'[n] = rows[n] \/ RowGood(n)
<1>1. rows' \in [Codes -> RowT]
  BY BlankFacts DEF AccountsInv, TablesType, Swept
<1>2. ASSUME NEW n \in Codes, n \in Purged
      PROVE  RowGood(n)
  <2>1. rows'[n] = GoneRow /\ rows[n].token # None /\ rows[n].over
    BY <1>2 DEF Swept, Purged
  <2> QED BY <2>1, RowGone DEF TokenKept
<1>3. \A n \in Codes : n \notin Purged => rows'[n] = rows[n]
  BY DEF Swept
<1> QED BY <1>1, <1>2, <1>3

\* session-cleanup.
LEMMA SessionCleanupStep ==
  ASSUME AccountsInv, SessionCleanup
  PROVE  AccountsInv'
<1>1. RowsOnly /\ rows' = Swept
  BY DEF AccountsInv, TablesType, SessionCleanup, traceVars, RowsOnly
<1> QED BY <1>1, RowsOnlySteady, SweptRows, RowsOnlyStep

\* The CLI polls.
LEMMA PollStep ==
  ASSUME AccountsInv, NEW n \in Nonces, Poll(n)
  PROVE  AccountsInv'
<1>1. rows \in [Codes -> RowT] /\ n \in Codes
  BY CodeFacts DEF AccountsInv, TablesType
<1>2. /\ rows[n].kind = "device" /\ rows[n].token # None
      /\ rows' = [rows EXCEPT ![n] = GoneRow] /\ cli' = cli \cup {rows[n].token}
  BY DEF Poll
<1>3. rows[n].token \in Flights /\ flights[rows[n].token].kind = "device"
  BY <1>1, <1>2, TokenRow
<1>4. RowsOnly
  BY <1>2, <1>3 DEF AccountsInv, TablesType, Poll, traceVars, RowsOnly
<1>5. rows' \in [Codes -> RowT] /\ rows'[n] = GoneRow
  BY <1>1, <1>2, BlankFacts
<1>6. TokenKept(n)
  BY <1>3 DEF TokenKept
<1>7. RowGood(n)
  BY <1>1, <1>2, <1>4, <1>5, <1>6, RowsOnlySteady, RowGone
<1> QED BY <1>1, <1>2, <1>4, <1>5, <1>7, RowsOnlyStep

-----------------------------------------------------------------------------
(* A flight that begins, is encrypted for, or ends.                        *)

\* It begins.
LEMMA BeginFacts ==
  ASSUME AccountsInv, NEW f \in Flights, NEW G, Begun(flights[f], G, rows'),
         flights' = [flights EXCEPT ![f] = G]
  PROVE  /\ flights' \in [Flights -> FlightT] /\ flights'[f] = G
         /\ \A h \in Flights : Onward(h) /\ (h # f => flights'[h] = flights[h])
<1>1. flights \in [Flights -> FlightT] /\ G \in FlightT
  BY DEF AccountsInv, TablesType, Begun
<1>2. flights' \in [Flights -> FlightT] /\ flights'[f] = G
      /\ \A h \in Flights : h # f => flights'[h] = flights[h]
  BY <1>1
<1> QED BY <1>2 DEF Onward

\* It ends.
LEMMA EndFacts ==
  ASSUME AccountsInv, NEW f \in Flights, AtWork(flights[f]),
         flights' = [flights EXCEPT ![f] = Done(@)]
  PROVE  /\ flights' \in [Flights -> FlightT] /\ flights'[f] = Done(flights[f])
         /\ flights[f] \in FlightT /\ Done(flights[f]).stage = "done"
         /\ \A h \in Flights : /\ Onward(h) /\ (h # f => flights'[h] = flights[h])
                               /\ AtWork(flights'[h]) => flights'[h] = flights[h]
<1>1. flights \in [Flights -> FlightT] /\ flights[f] \in FlightT
  BY DEF AccountsInv, TablesType
<1>2. Done(flights[f]) \in FlightT /\ Done(flights[f]).stage = "done"
  BY <1>1, DoneFacts
<1>3. flights' \in [Flights -> FlightT] /\ flights'[f] = Done(flights[f])
      /\ \A h \in Flights : h # f => flights'[h] = flights[h]
  BY <1>1, <1>2
<1>4. ~AtWork(flights'[f])
  BY <1>2, <1>3 DEF AtWork
<1>5. \A h \in Flights : Onward(h)
  BY <1>3 DEF Onward, Ended
<1> QED BY <1>1, <1>2, <1>3, <1>4, <1>5

\* Its token is encrypted.
LEMMA SealingFacts ==
  ASSUME AccountsInv, NEW f \in Flights, NEW G \in FlightT, flights[f].stage = "exchange",
         G.kind = flights[f].kind, G.person = flights[f].person,
         G.nonce = flights[f].nonce, G.invite = flights[f].invite,
         G.kind \notin {"invite", "pat"} => users'[G.person].role # "none",
         GetKey(f, G)
  PROVE  /\ flights' \in [Flights -> FlightT]
         /\ flights'[f].stage = "encrypt" /\ flights'[f].kind = flights[f].kind
         /\ flights'[f].person = flights[f].person /\ flights'[f].nonce = flights[f].nonce
         /\ flights'[f].invite = flights[f].invite /\ flights'[f].role = G.role
         /\ \A h \in Flights : Onward(h) /\ (h # f => flights'[h] = flights[h])
<1>1. flights \in [Flights -> FlightT] /\ KeysFit
  BY DEF AccountsInv, TablesType
<1>2. PICK k \in 1..keys' :
        flights' = [flights EXCEPT ![f] = Sealing(G, k)] /\ keys' \in 0..MaxKeys
  BY <1>1, GetKeyFacts
<1> DEFINE H == Sealing(G, k)
<1>3. k \in Nat
  BY <1>2
<1>4. /\ H \in FlightT /\ H.stage = "encrypt" /\ H.kind = G.kind /\ H.person = G.person
      /\ H.nonce = G.nonce /\ H.invite = G.invite /\ H.role = G.role
  BY <1>3 DEF Sealing, FlightT
<1> HIDE DEF H
<1>5. flights' \in [Flights -> FlightT] /\ flights'[f] = H
      /\ \A h \in Flights : h # f => flights'[h] = flights[h]
  BY <1>1, <1>2, <1>4 DEF H
<1>6. Sealable(flights[f], flights'[f], users')
  BY <1>4, <1>5 DEF Sealable
<1>7. \A h \in Flights : Onward(h)
  BY <1>5, <1>6 DEF Onward
<1> QED BY <1>4, <1>5, <1>7

\* A flight at work has somebody to work for, and the others a row.
LEMMA WorkFacts ==
  ASSUME AccountsInv, NEW f \in Flights, AtWork(flights[f])
  PROVE  /\ flights[f] \in FlightT /\ flights[f].person \in People /\ f \notin cookies
         /\ flights[f].kind \in Flows => /\ flights[f].nonce \in Nonces
                                         /\ flights[f].nonce \in Codes
                                         /\ rows[flights[f].nonce].kind \in {flights[f].kind, "gone"}
         /\ flights[f].kind = "invite" => flights[f].invite \in Invites
         /\ flights[f].stage = "encrypt" /\ flights[f].kind \notin {"invite", "pat"}
              => users[flights[f].person].role # "none"
<1> DEFINE F == flights[f]
<1>1. FlightFits(F, rows, users) /\ F \in FlightT
  BY DEF AccountsInv, FlightsFit, FlightFits
<1>2. f \notin cookies
  BY DEF AccountsInv, CookiesFit, AtWork
<1> HIDE DEF F
<1>3. /\ F.nonce \in Nonces \cup {None} /\ F.invite \in Invites \cup {None}
      /\ F.person \in People \cup {None}
  BY <1>1 DEF FlightT
<1> QED BY <1>1, <1>2, <1>3, CodeFacts DEF FlightFits, AtWork, F

\* A step that only ends a flight.
LEMMA OnlyEnds ==
  ASSUME AccountsInv, NEW f \in Flights, AtWork(flights[f]),
         flights' = [flights EXCEPT ![f] = Done(@)], users' = users, invites' = invites,
         cookies' = cookies, cli' = cli, UNCHANGED keyVars, UNCHANGED traceVars,
         rows' \in [Codes -> RowT],
         \A n \in Codes : rows'[n] = rows[n] \/ (Steady => RowGood(n))
  PROVE  AccountsInv'
<1>1. /\ flights' \in [Flights -> FlightT] /\ flights'[f] = Done(flights[f])
      /\ flights[f] \in FlightT /\ Done(flights[f]).stage = "done"
      /\ \A h \in Flights : /\ Onward(h) /\ (h # f => flights'[h] = flights[h])
                            /\ AtWork(flights'[h]) => flights'[h] = flights[h]
  BY EndFacts
<1>2. Steady
  BY <1>1 DEF Steady, Known, traceVars
<1>3. TablesType'
  BY <1>1 DEF AccountsInv, TablesType, traceVars
<1>4. InvitesFit'
  BY <1>1, InvitesKept DEF traceVars
<1>5. \A h \in Flights : flights'[h].stage = "encrypt" => flights'[h] = flights[h]
  BY <1>1 DEF AtWork
<1>6. KeysFit'
  BY <1>5, KeysKept DEF keyVars
<1>7. RolesFit'
  BY <1>5, RolesKept
<1>8. \A h \in Flights : Issued(h)' => Issued(h)
  BY <1>5 DEF Issued
<1> QED BY <1>2, <1>3, <1>4, <1>6, <1>7, <1>8, WholeStep

\* GitHub fails the flight.
LEMMA ThrowsStep ==
  ASSUME AccountsInv, NEW f \in Flights, Throws(f)
  PROVE  AccountsInv'
<1>1. AtWork(flights[f]) /\ rows' \in [Codes -> RowT] /\ rows' = rows
  BY DEF Throws, InFlight, AtWork, AccountsInv, TablesType
<1> QED BY <1>1, OnlyEnds DEF Throws

\* Somebody who is no user.
LEMMA TurnAwayStep ==
  ASSUME AccountsInv, NEW f \in Flights, TurnAway(f)
  PROVE  AccountsInv'
<1> DEFINE n == flights[f].nonce
<1>1. /\ flights[f].stage = "exchange" /\ flights[f].kind \in {"device", "dashboard", "upgrade"}
      /\ flights' = [flights EXCEPT ![f] = Done(@)]
      /\ rows' = IF flights[f].kind = "device" THEN rows ELSE [rows EXCEPT ![n] = GoneRow]
  BY DEF TurnAway
<1>2. AtWork(flights[f]) /\ n \in Nonces /\ n \in Codes
  BY <1>1, WorkFacts DEF AtWork, Flows
<1>3. rows \in [Codes -> RowT]
  BY DEF AccountsInv, TablesType
<1>4. rows' \in [Codes -> RowT] /\ \A m \in Codes : m # n => rows'[m] = rows[m]
  BY <1>1, <1>3, BlankFacts
<1>5. CASE flights[f].kind = "device"
  BY <1>1, <1>2, <1>4, <1>5, OnlyEnds DEF TurnAway
<1>6. CASE flights[f].kind # "device"
  <2>1. rows'[n] = GoneRow
    BY <1>1, <1>2, <1>3, <1>6
  <2>2. flights'[f].nonce = n /\ flights'[f].stage = "done"
    BY <1>1, <1>2, EndFacts, DoneFacts
  <2>3. rows[n].token # f
    BY <1>1, <1>2, TokenRow, CodeFacts
  <2>4. TokenKept(n)
    BY <2>2, <2>3 DEF TokenKept
  <2>5. ~Unstamped(flights'[f])
    BY <2>2 DEF Unstamped
  <2>6. Steady => RowGood(n)
    BY <1>2, <2>1, <2>2, <2>4, <2>5, RowGone
  <2> QED BY <1>1, <1>2, <1>4, <2>6, OnlyEnds DEF TurnAway
<1> QED BY <1>5, <1>6

-----------------------------------------------------------------------------
(* A token is stamped on the row its flight came for.                      *)

StampRow(f, R) == [R EXCEPT !.token = f, !.over = FALSE, !.user = flights[f].person]

\* The row, if it is still there.
LEMMA StampFacts ==
  ASSUME AccountsInv, NEW f \in Flights, NEW n \in Codes, n = flights[f].nonce,
         rows' = Stamp(n, f), flights[f].person \in People
  PROVE  /\ rows' \in [Codes -> RowT] /\ \A m \in Codes : m # n => rows'[m] = rows[m]
         /\ rows[n].kind = "gone" => rows'[n] = rows[n]
         /\ rows[n].kind # "gone" =>
              /\ rows'[n] \in RowT /\ rows'[n].token = f /\ rows'[n].user = flights[f].person
              /\ rows'[n].over = FALSE /\ rows'[n].kind = rows[n].kind
              /\ rows'[n].invite = rows[n].invite
<1>1. rows \in [Codes -> RowT] /\ rows[n] \in RowT
  BY DEF AccountsInv, TablesType
<1>2. CASE rows[n].kind = "gone"
  BY <1>1, <1>2 DEF Stamp
<1>3. CASE rows[n].kind # "gone"
  <2> DEFINE R == StampRow(f, rows[n])
  <2>1. rows' = [rows EXCEPT ![n] = R]
    BY <1>1, <1>3 DEF Stamp, StampRow
  <2>2. /\ R \in RowT /\ R.token = f /\ R.user = flights[f].person /\ R.over = FALSE
        /\ R.kind = rows[n].kind /\ R.invite = rows[n].invite
    BY <1>1 DEF StampRow, RowT
  <2> HIDE DEF R
  <2>3. rows'[n] = R /\ rows' \in [Codes -> RowT] /\ \A m \in Codes : m # n => rows'[m] = rows[m]
    BY <1>1, <2>1, <2>2
  <2> QED BY <1>3, <2>2, <2>3
<1> QED BY <1>2, <1>3

\* The row is good, and the token lasts: in its row, or because another
\* flight came for it.
LEMMA StampGood ==
  ASSUME AccountsInv, Steady, NEW f \in Flights, AtWork(flights[f]), f \in Codes,
         \/ flights[f].stage = "exchange" /\ flights[f].kind \in {"device", "dashboard"}
            /\ flights'[f].stage = "encrypt"
         \/ flights[f].stage = "encrypt" /\ flights[f].kind = "upgrade"
            /\ flights'[f].stage = "done",
         flights'[f].kind = flights[f].kind, flights'[f].person = flights[f].person,
         flights'[f].nonce = flights[f].nonce,
         \A h \in Flights : h # f => flights'[h] = flights[h],
         users'[flights[f].person].role # "none",
         rows' = Stamp(flights[f].nonce, f)
  PROVE  /\ rows' \in [Codes -> RowT]
         /\ \A n \in Codes : rows'[n] = rows[n] \/ RowGood(n)
         /\ Unstamped(flights[f]) => Lasts(f)'
<1> DEFINE n == flights[f].nonce
<1>1. /\ n \in Nonces /\ n \in Codes /\ rows[n].kind \in {flights[f].kind, "gone"}
      /\ flights[f].person \in People /\ flights[f].kind \in {"device", "dashboard", "upgrade"}
  BY WorkFacts DEF Flows
<1>2. /\ rows' \in [Codes -> RowT] /\ \A m \in Codes : m # n => rows'[m] = rows[m]
      /\ rows[n].kind = "gone" => rows'[n] = rows[n]
      /\ rows[n].kind # "gone" =>
           /\ rows'[n] \in RowT /\ rows'[n].token = f /\ rows'[n].user = flights[f].person
           /\ rows'[n].over = FALSE /\ rows'[n].kind = rows[n].kind
           /\ rows'[n].invite = rows[n].invite
  BY <1>1, StampFacts
<1>3. f # None /\ flights[f].person # None
  BY <1>1, CodeFacts
<1>4. CASE rows[n].kind = "gone"
  <2>1. Unstamped(flights[f]) => Rival(f)
    BY <1>4 DEF AccountsInv, TokensLast
  <2>2. Rival(f) => Rival(f)'
    BY DEF Rival
  <2>3. Unstamped(flights[f]) => Lasts(f)'
    BY <1>1, <2>1, <2>2 DEF Lasts
  <2> QED BY <1>2, <1>4, <2>3
<1>5. CASE rows[n].kind # "gone"
  <2>1. rows[n].token # f
    <3>1. SUFFICES ASSUME rows[n].token = f PROVE FALSE
      OBVIOUS
    <3>2. TokenFits(n, rows[n], users, flights, ended) /\ flights[f].stage \in {"encrypt", "done"}
      BY <1>1, <1>3, <3>1, TokenRow
    <3> QED BY <3>1, <3>2 DEF TokenFits
  <2>2. KindKept(n) /\ TokenKept(n)
    BY <1>2, <1>5, <2>1 DEF KindKept, TokenKept
  <2>3. GoneWith(n)
    BY <1>2, <1>5 DEF GoneWith
  <2>4. TokenFits(n, rows'[n], users', flights', ended')
    BY <1>1, <1>2, <1>5 DEF TokenFits
  <2>5. (rows[n].kind = "invite") <=> (rows[n].invite # None)
    BY <1>1 DEF AccountsInv, RowsFit, RowFits
  <2>6. RowFits(n, rows'[n], users', flights', ended')
    BY <1>2, <1>3, <1>5, <2>4, <2>5 DEF RowFits
  <2>7. RowGood(n)
    BY <2>2, <2>3, <2>6 DEF RowGood
  <2>8. Lasts(f)'
    BY <1>1, <1>2, <1>5 DEF Lasts, Holds
  <2> QED BY <1>2, <2>7, <2>8
<1> QED BY <1>4, <1>5

\* The token is stamped, and its encryption begins.
LEMMA RecogniseStep ==
  ASSUME AccountsInv, NEW f \in Flights, Recognise(f)
  PROVE  AccountsInv'
<1>1. /\ flights[f].stage = "exchange" /\ flights[f].kind \in {"device", "dashboard"}
      /\ Welcome(f) /\ rows' = Stamp(flights[f].nonce, f) /\ GetKey(f, flights[f])
      /\ users' = users /\ invites' = invites /\ cookies' = cookies /\ cli' = cli
      /\ ended' = ended /\ admitted' = admitted /\ raced' = raced
  BY DEF Recognise, traceVars
<1>2. AtWork(flights[f]) /\ flights[f] \in FlightT /\ flights[f].person \in People /\ f \in Codes
  BY <1>1, WorkFacts, CodeFacts DEF AtWork
<1>3. users'[flights[f].person].role # "none"
  BY <1>1 DEF Welcome, Known
<1>4. /\ flights' \in [Flights -> FlightT]
      /\ flights'[f].stage = "encrypt" /\ flights'[f].kind = flights[f].kind
      /\ flights'[f].person = flights[f].person /\ flights'[f].nonce = flights[f].nonce
      /\ flights'[f].invite = flights[f].invite
      /\ \A h \in Flights : Onward(h) /\ (h # f => flights'[h] = flights[h])
  BY <1>1, <1>2, <1>3, SealingFacts
<1>5. Steady
  BY <1>1, <1>4 DEF Steady, Known
<1>6. /\ rows' \in [Codes -> RowT]
      /\ \A n \in Codes : rows'[n] = rows[n] \/ RowGood(n)
      /\ Unstamped(flights[f]) => Lasts(f)'
  BY <1>1, <1>2, <1>3, <1>4, <1>5, StampGood
<1>7. TablesType'
  BY <1>1, <1>4, <1>6 DEF AccountsInv, TablesType
<1>8. InvitesFit'
  BY <1>1, <1>2, <1>4, InvitesKept
<1>9. KeysFit'
  BY <1>1, <1>2, KeysGot
<1>10. RolesFit'
  BY <1>1, <1>4, RolesKept
<1>11. ASSUME NEW h \in Flights, Issued(h)'
       PROVE  Issued(h) \/ Lasts(h)'
  <2>1. CASE h # f
    BY <1>1, <1>4, <1>11, <2>1 DEF Issued
  <2>2. CASE h = f
    <3>1. f \notin cookies
      BY <1>2, WorkFacts
    <3>2. flights[f].kind = "dashboard"
      BY <1>1, <1>4, <1>11, <2>2, <3>1 DEF Issued
    <3> QED BY <1>1, <1>6, <2>2, <3>2 DEF Unstamped
  <2> QED BY <2>1, <2>2
<1> QED BY <1>1, <1>5, <1>6, <1>7, <1>8, <1>9, <1>10, <1>11, WholeStep

\* A key for a flight that leaves the tables alone.
LEMMA OnlySeals ==
  ASSUME AccountsInv, NEW f \in Flights, NEW G \in FlightT, flights[f].stage = "exchange",
         flights[f].kind # "dashboard",
         G.kind = flights[f].kind, G.person = flights[f].person,
         G.nonce = flights[f].nonce, G.invite = flights[f].invite,
         G.kind \notin {"invite", "pat"} => users[G.person].role # "none",
         G.kind = "invite" => /\ G.role \in {"user", "admin"}
                              /\ G.role = "user" => \E p \in People : Known(p),
         GetKey(f, G), rows' = rows, users' = users, invites' = invites, cookies' = cookies,
         cli' = cli, UNCHANGED traceVars
  PROVE  AccountsInv'
<1>1. AtWork(flights[f]) /\ f \notin cookies
  BY WorkFacts DEF AtWork
<1>2. /\ flights' \in [Flights -> FlightT]
      /\ flights'[f].stage = "encrypt" /\ flights'[f].kind = flights[f].kind
      /\ flights'[f].person = flights[f].person /\ flights'[f].nonce = flights[f].nonce
      /\ flights'[f].invite = flights[f].invite /\ flights'[f].role = G.role
      /\ \A h \in Flights : Onward(h) /\ (h # f => flights'[h] = flights[h])
  BY SealingFacts
<1>3. Steady
  BY <1>2 DEF Steady, Known, traceVars
<1>4. TablesType'
  BY <1>2 DEF AccountsInv, TablesType, traceVars
<1>5. InvitesFit'
  BY <1>1, <1>2, InvitesKept DEF traceVars
<1>6. KeysFit'
  BY KeysGot
<1>7. RolesFit'
  <2>1. RolesFit
    BY DEF AccountsInv
  <2>2. AdminExists'
    BY <2>1 DEF RolesFit, AdminExists, Known
  <2>3. ASSUME NEW h \in Flights, flights'[h].stage = "encrypt", flights'[h].kind = "invite"
        PROVE  /\ flights'[h].role \in {"user", "admin"}
               /\ flights'[h].role = "user" => \E p \in People : Known(p)
    <3>1. CASE h = f
      BY <1>2, <2>3, <3>1
    <3>2. CASE h # f
      BY <1>2, <2>1, <2>3, <3>2 DEF RolesFit
    <3> QED BY <3>1, <3>2
  <2> QED BY <2>2, <2>3 DEF RolesFit, Known
<1>8. \A h \in Flights : Issued(h)' => Issued(h)
  BY <1>1, <1>2 DEF Issued
<1> QED BY <1>3, <1>4, <1>5, <1>6, <1>7, <1>8, WholeStep

\* An upgrade.
LEMMA UpgradeStep ==
  ASSUME AccountsInv, NEW f \in Flights, Upgrade(f)
  PROVE  AccountsInv'
<1>1. /\ flights[f].stage = "exchange" /\ flights[f].kind = "upgrade" /\ Welcome(f)
      /\ GetKey(f, flights[f]) /\ rows' = rows /\ users' = users /\ invites' = invites
      /\ cookies' = cookies /\ cli' = cli /\ UNCHANGED traceVars
  BY DEF Upgrade
<1>2. flights[f] \in FlightT /\ users[flights[f].person].role # "none"
  BY <1>1 DEF AccountsInv, TablesType, Welcome, Known
<1> QED BY <1>1, <1>2, OnlySeals

\* A token that a user offers.
LEMMA AcceptPatStep ==
  ASSUME AccountsInv, NEW f \in Flights, AcceptPat(f)
  PROVE  AccountsInv'
<1>1. /\ flights[f].stage = "exchange" /\ flights[f].kind = "pat"
      /\ GetKey(f, flights[f]) /\ rows' = rows /\ users' = users /\ invites' = invites
      /\ cookies' = cookies /\ cli' = cli /\ UNCHANGED traceVars
  BY DEF AcceptPat
<1>2. flights[f] \in FlightT
  BY DEF AccountsInv, TablesType
<1> QED BY <1>1, <1>2, OnlySeals

\* An invite: the role is decided on before the encryption.
LEMMA EnrolStep ==
  ASSUME AccountsInv, NEW f \in Flights, Enrol(f)
  PROVE  AccountsInv'
<1> DEFINE role == IF \A p \in People : ~Known(p) THEN "admin" ELSE "user"
           G == [flights[f] EXCEPT !.role = role]
<1>1. /\ flights[f].stage = "exchange" /\ flights[f].kind = "invite"
      /\ GetKey(f, G) /\ rows' = rows /\ users' = users /\ invites' = invites
      /\ cookies' = cookies /\ cli' = cli /\ UNCHANGED traceVars
  BY DEF Enrol
<1>2. flights[f] \in FlightT
  BY DEF AccountsInv, TablesType
<1>3. role \in {"user", "admin"} /\ (role = "user" => \E p \in People : Known(p))
  OBVIOUS
<1> HIDE DEF role
<1>4. /\ G \in FlightT /\ G.kind = flights[f].kind /\ G.person = flights[f].person
      /\ G.nonce = flights[f].nonce /\ G.invite = flights[f].invite /\ G.role = role
  BY <1>2, <1>3 DEF FlightT
<1> HIDE DEF G
<1> QED BY <1>1, <1>3, <1>4, OnlySeals

-----------------------------------------------------------------------------
(* The token is sealed.                                                    *)

\* What Sealed does to the flights and the keys.
LEMMA SealedFacts ==
  ASSUME AccountsInv, NEW f \in Flights, Sealed(f)
  PROVE  /\ AtWork(flights[f]) /\ flights[f].stage = "encrypt" /\ key' = flights[f].key
         /\ keyFile' = keyFile /\ keys' = keys /\ unwritten' = unwritten
         /\ flights' = [flights EXCEPT ![f] = Done(@)]
         /\ flights[f].key \in Nat
BY DEF Sealed, AtWork, AccountsInv, TablesType, FlightT

\* Steps that seal a token for somebody who is a user and stays what he is.
LEMMA OnlySealed ==
  ASSUME AccountsInv, NEW f \in Flights, Sealed(f), users' \in [People -> UserT],
         \A p \in People : /\ users'[p].role = users[p].role
                           /\ {users'[p].token, users'[p].pat} \subseteq
                                {0, users[p].token, users[p].pat, flights[f].key},
         rows' \in [Codes -> RowT], invites' = invites, cli' = cli, UNCHANGED traceVars,
         Steady => \A n \in Codes : rows'[n] = rows[n] \/ RowGood(n),
         \/ cookies' = cookies
         \/ /\ cookies' = cookies \cup {f} /\ flights[f].kind \in {"dashboard", "upgrade"}
            /\ Steady => Issued(f) \/ Lasts(f)'
  PROVE  AccountsInv'
<1>1. /\ AtWork(flights[f]) /\ flights[f].stage = "encrypt" /\ key' = flights[f].key
      /\ keyFile' = keyFile /\ keys' = keys /\ unwritten' = unwritten
      /\ flights' = [flights EXCEPT ![f] = Done(@)]
  BY SealedFacts
<1>2. /\ flights' \in [Flights -> FlightT] /\ flights'[f] = Done(flights[f])
      /\ flights[f] \in FlightT /\ Done(flights[f]).stage = "done"
      /\ \A h \in Flights : /\ Onward(h) /\ (h # f => flights'[h] = flights[h])
                            /\ AtWork(flights'[h]) => flights'[h] = flights[h]
  BY <1>1, EndFacts
<1>3. Steady
  BY <1>2 DEF Steady, Known, traceVars
<1>4. TablesType'
  BY <1>2 DEF AccountsInv, TablesType, traceVars
<1>5. InvitesFit'
  BY <1>2, InvitesKept DEF traceVars
<1>6. \A h \in Flights : flights'[h].stage = "encrypt" => flights'[h] = flights[h]
  BY <1>2 DEF AtWork
<1>7. KeysFit'
  BY <1>1, <1>6, KeysKept
<1>8. RolesFit'
  BY <1>6, RolesKept
<1>9. \A h \in Flights : Issued(h)' => Issued(h) \/ Lasts(h)'
  BY <1>3, <1>6 DEF Issued
<1>10. \A h \in cookies' : h \in cookies \/ (flights'[h].stage = "done"
                             /\ flights'[h].kind \in {"dashboard", "upgrade", "invite"})
  BY <1>2, DoneFacts
<1> QED BY <1>3, <1>4, <1>5, <1>7, <1>8, <1>9, <1>10, WholeStep

\* A device or the dashboard is signed in.
LEMMA SignsInStep ==
  ASSUME AccountsInv, NEW f \in Flights, SignsIn(f)
  PROVE  AccountsInv'
<1> DEFINE p == flights[f].person
<1>1. /\ flights[f].kind \in {"device", "dashboard"} /\ Sealed(f)
      /\ users' = [users EXCEPT ![p].token = flights[f].key]
      /\ cookies' = IF flights[f].kind = "dashboard" THEN cookies \cup {f} ELSE cookies
      /\ rows' = rows /\ invites' = invites /\ cli' = cli /\ UNCHANGED traceVars
  BY DEF SignsIn
<1>2. /\ AtWork(flights[f]) /\ flights[f].stage = "encrypt" /\ flights[f].key \in Nat
      /\ p \in People
  BY <1>1, SealedFacts, WorkFacts
<1>3. users \in [People -> UserT] /\ rows \in [Codes -> RowT]
  BY DEF AccountsInv, TablesType
<1>4. /\ users' \in [People -> UserT]
      /\ \A q \in People : /\ users'[q].role = users[q].role
                           /\ {users'[q].token, users'[q].pat} \subseteq
                                {0, users[q].token, users[q].pat, flights[f].key}
  BY <1>1, <1>2, <1>3 DEF UserT
<1>5. \/ cookies' = cookies
      \/ /\ cookies' = cookies \cup {f} /\ flights[f].kind \in {"dashboard", "upgrade"}
         /\ Steady => Issued(f) \/ Lasts(f)'
  BY <1>1, <1>2 DEF Issued
<1>6. rows' \in [Codes -> RowT] /\ (Steady => \A n \in Codes : rows'[n] = rows[n] \/ RowGood(n))
  BY <1>1, <1>3
<1> HIDE DEF p
<1> QED BY <1>1, <1>4, <1>5, <1>6, OnlySealed

\* An upgrade stamps its token only now.
LEMMA UpgradedStep ==
  ASSUME AccountsInv, NEW f \in Flights, Upgraded(f)
  PROVE  AccountsInv'
<1> DEFINE p == flights[f].person
<1>1. /\ flights[f].kind = "upgrade" /\ Sealed(f)
      /\ users' = [users EXCEPT ![p].token = flights[f].key, ![p].scope = "repo"]
      /\ cookies' = cookies \cup {f} /\ rows' = Stamp(flights[f].nonce, f)
      /\ invites' = invites /\ cli' = cli /\ UNCHANGED traceVars
  BY DEF Upgraded
<1>2. /\ AtWork(flights[f]) /\ flights[f].stage = "encrypt" /\ flights[f].key \in Nat
      /\ p \in People /\ users[p].role # "none" /\ f \in Codes
      /\ flights' = [flights EXCEPT ![f] = Done(@)]
  BY <1>1, SealedFacts, WorkFacts, CodeFacts
<1>3. users \in [People -> UserT]
  BY DEF AccountsInv, TablesType
<1>4. /\ users' \in [People -> UserT]
      /\ \A q \in People : /\ users'[q].role = users[q].role
                           /\ {users'[q].token, users'[q].pat} \subseteq
                                {0, users[q].token, users[q].pat, flights[f].key}
  BY <1>1, <1>2, <1>3 DEF UserT
<1>5. /\ flights'[f] = Done(flights[f]) /\ flights[f] \in FlightT
      /\ \A h \in Flights : h # f => flights'[h] = flights[h]
  BY <1>2, EndFacts
<1>6. /\ flights'[f].stage = "done" /\ flights'[f].kind = flights[f].kind
      /\ flights'[f].person = flights[f].person /\ flights'[f].nonce = flights[f].nonce
  BY <1>1, <1>5, DoneFacts
<1>7. users'[p].role # "none"
  BY <1>2, <1>4
<1>8. Unstamped(flights[f])
  BY <1>1, <1>2 DEF Unstamped
<1>9. rows' \in [Codes -> RowT]
  BY <1>1, <1>2, WorkFacts, StampFacts DEF Flows
<1>10. Steady => Lasts(f)' /\ (\A n \in Codes : rows'[n] = rows[n] \/ RowGood(n))
  BY <1>1, <1>2, <1>5, <1>6, <1>7, <1>8, StampGood
<1> QED BY <1>1, <1>4, <1>9, <1>10, OnlySealed

\* A token that was offered is kept.
LEMMA StorePatStep ==
  ASSUME AccountsInv, NEW f \in Flights, StorePat(f)
  PROVE  AccountsInv'
<1> DEFINE p == flights[f].person
<1>1. /\ Sealed(f) /\ users' = [users EXCEPT ![p].pat = flights[f].key] /\ cookies' = cookies
      /\ rows' = rows /\ invites' = invites /\ cli' = cli /\ UNCHANGED traceVars
  BY DEF StorePat
<1>2. flights[f].key \in Nat /\ p \in People
  BY <1>1, SealedFacts, WorkFacts
<1>3. users \in [People -> UserT] /\ rows \in [Codes -> RowT]
  BY DEF AccountsInv, TablesType
<1>4. /\ users' \in [People -> UserT]
      /\ \A q \in People : /\ users'[q].role = users[q].role
                           /\ {users'[q].token, users'[q].pat} \subseteq
                                {0, users[q].token, users[q].pat, flights[f].key}
  BY <1>1, <1>2, <1>3 DEF UserT
<1>5. rows' \in [Codes -> RowT] /\ (Steady => \A n \in Codes : rows'[n] = rows[n] \/ RowGood(n))
  BY <1>1, <1>3
<1> HIDE DEF p
<1> QED BY <1>1, <1>4, <1>5, OnlySealed

-----------------------------------------------------------------------------
(* An invite is followed to its end.                                       *)

\* The user it makes, or the one who is there.
LEMMA UpsertFacts ==
  ASSUME AccountsInv, NEW f \in Flights, flights[f].stage = "encrypt",
         flights[f].kind = "invite", flights[f].person \in People, flights[f].key \in Nat
  PROVE  /\ Upsert(f) \in UserT /\ Upsert(f).role # "none"
         /\ Upsert(f).token = flights[f].key
         /\ Upsert(f).pat \in {0, users[flights[f].person].pat}
         /\ Known(flights[f].person) => Upsert(f).role = users[flights[f].person].role
         /\ ~Known(flights[f].person) => Upsert(f).role = flights[f].role
<1> DEFINE p == flights[f].person
           old == users[p]
<1>1. old \in UserT
  BY DEF AccountsInv, TablesType
<1>2. flights[f].role \in {"user", "admin"}
  BY DEF AccountsInv, RolesFit
<1>3. CASE old.role # "none"
  <2>1. Upsert(f) = [old EXCEPT !.token = flights[f].key, !.scope = "read"]
    BY <1>3 DEF Upsert
  <2> HIDE DEF old
  <2> QED BY <1>1, <1>3, <2>1 DEF UserT, Known, old
<1>4. CASE old.role = "none"
  <2>1. Upsert(f) = [role |-> flights[f].role, scope |-> "read", token |-> flights[f].key, pat |-> 0]
    BY <1>4 DEF Upsert
  <2> QED BY <1>2, <1>4, <2>1 DEF UserT, Known
<1> QED BY <1>3, <1>4

\* Who becomes a user by it keeps the roles right: the first one is the admin.
LEMMA RolesGrow ==
  ASSUME AccountsInv, NEW f \in Flights, flights[f].stage = "encrypt",
         flights[f].kind = "invite", NEW p \in People,
         users'[p].role # "none",
         Known(p) => users'[p].role = users[p].role,
         ~Known(p) => users'[p].role = flights[f].role,
         \A q \in People : q # p => users'[q] = users[q],
         \A h \in Flights : flights'[h].stage = "encrypt" => flights'[h] = flights[h]
  PROVE  RolesFit'
<1>1. RolesFit
  BY DEF AccountsInv
<1>2. \E q \in People : users'[q].role = "admin"
  <2>1. CASE \E q \in People : Known(q)
    <3>1. PICK a \in People : users[a].role = "admin"
      BY <1>1, <2>1 DEF RolesFit, AdminExists
    <3>2. users'[a].role = "admin"
      BY <3>1 DEF Known
    <3> QED BY <3>2
  <2>2. CASE ~\E q \in People : Known(q)
    <3>1. flights[f].role = "admin"
      BY <1>1, <2>2 DEF RolesFit
    <3> QED BY <2>2, <3>1
  <2> QED BY <2>1, <2>2
<1>3. \A q \in People : Known(q) => users'[q].role # "none"
  BY DEF Known
<1>4. \A h \in Flights : flights'[h].stage = "encrypt" /\ flights'[h].kind = "invite" =>
         /\ flights'[h].role \in {"user", "admin"}
         /\ flights'[h].role = "user" => \E q \in People : users'[q].role # "none"
  BY <1>1, <1>3 DEF RolesFit
<1> QED BY <1>2, <1>4 DEF RolesFit, AdminExists, Known

\* The row of its session.
LEMMA SessionRow ==
  ASSUME AccountsInv, Steady, NEW f \in Flights, flights[f].stage = "encrypt",
         flights[f].kind = "invite", flights[f].person \in People,
         flights'[f] = Done(flights[f]), users'[flights[f].person].role # "none",
         rows'[f] = [NoRow EXCEPT !.kind = "session", !.token = f, !.user = flights[f].person]
  PROVE  RowGood(f) /\ rows'[f] \in RowT /\ rows'[f].token = f /\ rows'[f].over = FALSE
<1>1. f \in Codes /\ f \notin Nonces /\ flights[f] \in FlightT
  BY CodeFacts DEF AccountsInv, TablesType
<1>2. /\ rows'[f] \in RowT /\ rows'[f].kind = "session" /\ rows'[f].token = f
      /\ rows'[f].user = flights[f].person /\ rows'[f].over = FALSE /\ rows'[f].invite = None
  BY DEF NoRow, RowT
<1>3. /\ flights'[f].stage = "done" /\ flights'[f].kind = "invite"
      /\ flights'[f].person = flights[f].person
  <2>1. Done(flights[f]) = [NoFlight EXCEPT !.stage = "done", !.kind = "invite",
                                            !.person = flights[f].person]
    BY DEF Done
  <2> QED BY <2>1 DEF NoFlight
<1>4. TokenFits(f, rows'[f], users', flights', ended')
  BY <1>2, <1>3 DEF TokenFits
<1>5. f # None /\ flights[f].person # None
  BY CodeFacts
<1>6. RowFits(f, rows'[f], users', flights', ended')
  BY <1>2, <1>4, <1>5 DEF RowFits
<1>7. rows[f].token = None
  BY <1>1, TokenRow
<1>8. KindKept(f) /\ GoneWith(f) /\ TokenKept(f)
  BY <1>1, <1>7 DEF KindKept, GoneWith, TokenKept
<1> QED BY <1>2, <1>6, <1>8 DEF RowGood

\* Whose invite was held by nobody else was the first to be admitted by it.
LEMMA InvitesUsed ==
  ASSUME AccountsInv, NEW f \in Flights, AtWork(flights[f]), flights[f].invite \in Invites,
         invites' = [invites EXCEPT ![flights[f].invite] = IF @ = "revoked" THEN @ ELSE "used"],
         raced' = raced, ~AtWork(flights'[f]),
         \A h \in Flights : h # f => flights'[h] = flights[h],
         NEW p \in People,
         \/ admitted' = admitted
         \/ admitted' = [admitted EXCEPT ![flights[f].invite] = @ \cup {p}]
  PROVE  InvitesFit'
<1> DEFINE i == flights[f].invite
<1>1. InvitesFit /\ admitted \in [Invites -> SUBSET People]
      /\ invites \in [Invites -> {"none", "open", "expired", "used", "revoked"}]
  BY DEF AccountsInv, TablesType
<1>2. /\ \A j \in Invites : j # i => invites'[j] = invites[j] /\ admitted'[j] = admitted[j]
      /\ invites'[i] \in {"used", "revoked"} /\ admitted'[i] \in {admitted[i], admitted[i] \cup {p}}
  BY <1>1
<1> HIDE DEF i
<1>3. i \in Invites \ raced => admitted[i] = {}
  BY <1>1 DEF InvitesFit, i
<1>4. \A j \in Invites : invites'[j] \in {"none", "open", "expired"} => admitted'[j] = {}
  BY <1>1, <1>2 DEF InvitesFit
<1>5. ASSUME NEW h \in Flights, AtWork(flights'[h]), flights'[h].invite \in Invites \ raced'
      PROVE  /\ admitted'[flights'[h].invite] = {}
             /\ \A g \in Flights :
                  AtWork(flights'[g]) /\ flights'[g].invite = flights'[h].invite => g = h
  <2>1. h # f /\ flights'[h] = flights[h]
    BY <1>5
  <2>2. flights[h].invite # i
    BY <1>1, <1>5, <2>1 DEF InvitesFit, i
  <2>3. admitted'[flights'[h].invite] = admitted[flights[h].invite]
    BY <1>2, <1>5, <2>1, <2>2
  <2>4. \A g \in Flights : AtWork(flights'[g]) => flights'[g] = flights[g]
    OBVIOUS
  <2> QED BY <1>1, <1>5, <2>1, <2>3, <2>4 DEF InvitesFit
<1>6. ASSUME NEW j \in Invites \ raced'
      PROVE  admitted'[j] = {} \/ \E q \in People : admitted'[j] = {q}
  <2>1. CASE j = i
    BY <1>2, <1>3, <1>6, <2>1
  <2>2. CASE j # i
    BY <1>1, <1>2, <1>6, <2>2 DEF InvitesFit
  <2> QED BY <2>1, <2>2
<1> QED BY <1>4, <1>5, <1>6 DEF InvitesFit

\* handleInviteCallback after its await.
LEMMA EnrolledStep ==
  ASSUME AccountsInv, NEW f \in Flights, Enrolled(f)
  PROVE  AccountsInv'
<1> DEFINE p == flights[f].person
           i == flights[f].invite
<1>1. /\ flights[f].kind = "invite" /\ Sealed(f) /\ users' = [users EXCEPT ![p] = Upsert(f)]
      /\ cli' = cli /\ ended' = ended /\ raced' = raced
  BY DEF Enrolled
<1>2. /\ AtWork(flights[f]) /\ flights[f].stage = "encrypt" /\ flights[f].key \in Nat
      /\ p \in People /\ i \in Invites /\ key' = flights[f].key /\ keyFile' = keyFile
      /\ keys' = keys /\ unwritten' = unwritten
      /\ flights' = [flights EXCEPT ![f] = Done(@)] /\ flights[f].key \in Nat
  BY <1>1, SealedFacts, WorkFacts
<1>3. /\ flights' \in [Flights -> FlightT] /\ flights'[f] = Done(flights[f])
      /\ flights[f] \in FlightT /\ Done(flights[f]).stage = "done"
      /\ \A h \in Flights : /\ Onward(h) /\ (h # f => flights'[h] = flights[h])
                            /\ AtWork(flights'[h]) => flights'[h] = flights[h]
  BY <1>2, EndFacts
<1>4. /\ Upsert(f) \in UserT /\ Upsert(f).role # "none"
      /\ Upsert(f).token = flights[f].key /\ Upsert(f).pat \in {0, users[p].pat}
      /\ Known(p) => Upsert(f).role = users[p].role
      /\ ~Known(p) => Upsert(f).role = flights[f].role
  BY <1>1, <1>2, UpsertFacts
<1>5. users \in [People -> UserT] /\ rows \in [Codes -> RowT]
  BY DEF AccountsInv, TablesType
<1>6. /\ users' \in [People -> UserT] /\ users'[p] = Upsert(f)
      /\ \A q \in People : q # p => users'[q] = users[q]
  BY <1>1, <1>2, <1>4, <1>5
<1> HIDE DEF p, i
<1>7. Steady
  BY <1>1, <1>3, <1>4, <1>6 DEF Steady, Known
<1>8. \A h \in Flights : flights'[h].stage = "encrypt" => flights'[h] = flights[h]
  BY <1>3 DEF AtWork
<1>9. KeysFit'
  <2>1. ASSUME NEW q \in People
        PROVE  {users'[q].token, users'[q].pat} \subseteq {0, users[q].token, users[q].pat, key'}
    BY <1>2, <1>4, <1>6
  <2> QED BY <1>2, <1>8, <2>1, KeysKept
<1>10. RolesFit'
  BY <1>1, <1>2, <1>4, <1>6, <1>8, RolesGrow
<1>11. CASE Known(p) /\ invites[i] # "revoked"
  <2>1. rows' = rows /\ invites' = invites /\ cookies' = cookies /\ admitted' = admitted
    BY <1>11 DEF Enrolled, p, i
  <2>2. TablesType'
    BY <1>1, <1>3, <1>6, <2>1 DEF AccountsInv, TablesType
  <2>3. InvitesFit'
    BY <1>1, <1>3, <2>1, InvitesKept
  <2>4. \A h \in Flights : Issued(h)' => Issued(h)
    BY <1>8, <2>1 DEF Issued
  <2> QED BY <1>7, <1>9, <1>10, <2>1, <2>2, <2>3, <2>4, WholeStep
<1>12. CASE ~(Known(p) /\ invites[i] # "revoked")
  <2> DEFINE R == [NoRow EXCEPT !.kind = "session", !.token = f, !.user = p]
  <2>1. /\ invites' = [invites EXCEPT ![i] = IF @ = "revoked" THEN @ ELSE "used"]
        /\ rows' = [rows EXCEPT ![f] = R] /\ cookies' = cookies \cup {f}
        /\ admitted' = IF Known(p) THEN admitted ELSE [admitted EXCEPT ![i] = @ \cup {p}]
    BY <1>12 DEF Enrolled, p, i
  <2> HIDE DEF R
  <2>2. f \in Codes /\ rows'[f] = R /\ \A n \in Codes : n # f => rows'[n] = rows[n]
    BY <1>5, <2>1, CodeFacts
  <2>3. RowGood(f) /\ R \in RowT /\ R.token = f /\ R.over = FALSE
    <3>1. flights[f].person \in People /\ users'[flights[f].person].role # "none"
      BY <1>2, <1>4, <1>6 DEF p
    <3>2. rows'[f] = [NoRow EXCEPT !.kind = "session", !.token = f, !.user = flights[f].person]
      BY <2>2 DEF p, R
    <3>3. RowGood(f) /\ rows'[f] \in RowT /\ rows'[f].token = f /\ rows'[f].over = FALSE
      BY <1>1, <1>2, <1>3, <1>7, <3>1, <3>2, SessionRow
    <3> QED BY <2>2, <3>3
  <2>4. invites' \in [Invites -> {"none", "open", "expired", "used", "revoked"}]
        /\ admitted' \in [Invites -> SUBSET People]
    BY <1>2, <2>1 DEF AccountsInv, TablesType
  <2>5. TablesType'
    BY <1>1, <1>3, <1>5, <1>6, <2>1, <2>3, <2>4 DEF AccountsInv, TablesType
  <2>6. ~AtWork(flights'[f])
    BY <1>3 DEF AtWork
  <2>7. InvitesFit'
    BY <1>1, <1>2, <1>3, <2>1, <2>6, InvitesUsed DEF p, i
  <2>8. Lasts(f)'
    BY <2>2, <2>3 DEF Lasts, Holds
  <2>9. \A h \in Flights : Issued(h)' => Issued(h) \/ Lasts(h)'
    BY <1>8, <2>1, <2>8 DEF Issued
  <2>10. flights'[f].stage = "done" /\ flights'[f].kind = "invite"
    BY <1>1, <1>2, <1>3, DoneFacts
  <2>11. \A h \in cookies' : h \in cookies \/ (flights'[h].stage = "done"
                              /\ flights'[h].kind \in {"dashboard", "upgrade", "invite"})
    BY <2>1, <2>10
  <2>12. \A n \in Codes : rows'[n] = rows[n] \/ RowGood(n)
    BY <2>2, <2>3
  <2> QED BY <1>7, <1>9, <1>10, <2>5, <2>7, <2>9, <2>11, <2>12, WholeStep
<1> QED BY <1>11, <1>12

-----------------------------------------------------------------------------
(* The callback, and a token that is offered.                              *)

\* Flights that begin: what they leave to be shown.
LEMMA OnlyBegins ==
  ASSUME AccountsInv, NEW f \in Flights, NEW G, Begun(flights[f], G, rows'),
         flights' = [flights EXCEPT ![f] = G], rows' = rows, users' = users,
         invites' = invites, cookies' = cookies, cli' = cli, UNCHANGED keyVars,
         ended' = ended, admitted' = admitted, raced' \subseteq Invites, InvitesFit'
  PROVE  AccountsInv'
<1>1. /\ flights' \in [Flights -> FlightT] /\ flights'[f] = G
      /\ \A h \in Flights : Onward(h) /\ (h # f => flights'[h] = flights[h])
  BY BeginFacts
<1>2. G.stage = "exchange"
  BY DEF Begun
<1>3. Steady
  BY <1>1 DEF Steady, Known
<1>4. TablesType'
  BY <1>1 DEF AccountsInv, TablesType
<1>5. \A h \in Flights : flights'[h].stage = "encrypt" => flights'[h] = flights[h]
  BY <1>1, <1>2
<1>6. KeysFit'
  BY <1>5, KeysKept DEF keyVars
<1>7. RolesFit'
  BY <1>5, RolesKept
<1>8. \A h \in Flights : Issued(h)' => Issued(h)
  BY <1>5 DEF Issued
<1> QED BY <1>3, <1>4, <1>6, <1>7, <1>8, WholeStep

\* Whoever takes an invite that another flight holds races with it.
LEMMA InvitesTaken ==
  ASSUME AccountsInv, NEW f \in Flights, flights[f].stage = "none",
         NEW i \in Invites, invites[i] = "open",
         flights'[f].invite = i, \A h \in Flights : h # f => flights'[h] = flights[h],
         invites' = invites, admitted' = admitted,
         raced' = IF \E g \in Flights : InFlight(g) /\ flights[g].invite = i
                  THEN raced \cup {i} ELSE raced
  PROVE  InvitesFit'
<1>1. InvitesFit
  BY DEF AccountsInv
<1>2. admitted[i] = {}
  BY <1>1 DEF InvitesFit
<1>3. i \notin raced' => \A g \in Flights : AtWork(flights[g]) => flights[g].invite # i
  BY DEF InFlight, AtWork
<1>4. ~AtWork(flights[f])
  BY DEF AtWork
<1>5. ASSUME NEW h \in Flights, AtWork(flights'[h]), flights'[h].invite \in Invites \ raced'
      PROVE  /\ admitted'[flights'[h].invite] = {}
             /\ \A g \in Flights :
                  AtWork(flights'[g]) /\ flights'[g].invite = flights'[h].invite => g = h
  <2>1. flights'[h].invite \notin raced
    BY <1>5
  <2>2. CASE h = f
    <3>1. \A g \in Flights : g # f => ~(AtWork(flights'[g]) /\ flights'[g].invite = i)
      BY <1>3, <1>5, <2>2
    <3> QED BY <1>2, <2>2, <3>1
  <2>3. CASE h # f
    <3>1. flights'[h] = flights[h] /\ AtWork(flights[h])
      BY <1>5, <2>3
    <3>2. flights[h].invite # i
      BY <1>3, <1>5, <3>1
    <3>3. \A g \in Flights :
             AtWork(flights'[g]) /\ flights'[g].invite = flights[h].invite => g # f /\ AtWork(flights[g])
                                                               /\ flights[g].invite = flights[h].invite
      BY <3>2
    <3> QED BY <1>1, <1>5, <2>1, <3>1, <3>3 DEF InvitesFit
  <2> QED BY <2>2, <2>3
<1>6. /\ \A j \in Invites : invites'[j] \in {"none", "open", "expired"} => admitted'[j] = {}
      /\ \A j \in Invites \ raced' : admitted'[j] = {} \/ \E p \in People : admitted'[j] = {p}
  BY <1>1 DEF InvitesFit
<1> QED BY <1>5, <1>6 DEF InvitesFit

\* /callback.
LEMMA CallbackStep ==
  ASSUME AccountsInv, NEW f \in Flights, NEW p \in People, NEW n \in Nonces, Callback(f, p, n)
  PROVE  AccountsInv'
<1> DEFINE i == rows[n].invite
           G == [NoFlight EXCEPT !.stage = "exchange", !.kind = rows[n].kind, !.person = p,
                                 !.nonce = n, !.invite = i]
<1>1. /\ flights[f].stage = "none" /\ rows[n].kind \in Flows /\ rows[n].token = None
      /\ users' = users /\ invites' = invites /\ cookies' = cookies /\ cli' = cli
      /\ UNCHANGED keyVars /\ ended' = ended /\ admitted' = admitted
  BY DEF Callback
<1>2. n \in Codes /\ rows \in [Codes -> RowT] /\ rows[n] \in RowT
  BY CodeFacts DEF AccountsInv, TablesType
<1>3. i \in Invites \cup {None} /\ ((rows[n].kind = "invite") <=> (i # None))
  BY <1>2 DEF AccountsInv, RowsFit, RowFits, RowT
<1>4. /\ G \in FlightT /\ G.stage = "exchange" /\ G.kind = rows[n].kind /\ G.person = p
      /\ G.nonce = n /\ G.invite = i
  BY <1>1, <1>2, <1>3 DEF NoFlight, FlightT
<1> HIDE DEF G
<1>5. CASE i # None /\ ~ValidInvite(i)
  <2>1. rows' = [rows EXCEPT ![n] = GoneRow] /\ flights' = flights /\ raced' = raced
    BY <1>5 DEF Callback
  <2>2. rows[n].kind = "invite"
    BY <1>3, <1>5
  <2>3. RowsOnly
    BY <1>1, <2>1 DEF AccountsInv, TablesType, RowsOnly
  <2>4. rows'[n] = GoneRow /\ rows' \in [Codes -> RowT] /\ \A m \in Codes : m # n => rows'[m] = rows[m]
    BY <1>2, <2>1, BlankFacts
  <2>5. TokenKept(n)
    BY <1>1 DEF TokenKept
  <2>6. RowGood(n)
    BY <1>2, <2>2, <2>3, <2>4, <2>5, RowsOnlySteady, RowGone
  <2> QED BY <2>3, <2>4, <2>6, RowsOnlyStep
<1>6. CASE ~(i # None /\ ~ValidInvite(i))
  <2>1. /\ flights' = [flights EXCEPT ![f] = G] /\ rows' = rows
        /\ raced' = IF i # None /\ \E g \in Flights : InFlight(g) /\ flights[g].invite = i
                    THEN raced \cup {i} ELSE raced
    BY <1>6 DEF Callback, G
  <2>2. flights[f] = NoFlight
    BY <1>1 DEF AccountsInv, FlightsFit, FlightFits
  <2>3. Begun(flights[f], G, rows')
    BY <1>1, <1>3, <1>4, <2>1, <2>2 DEF Begun
  <2>4. flights'[f] = G /\ \A h \in Flights : h # f => flights'[h] = flights[h]
    BY <2>1, <2>3, BeginFacts
  <2>5. InvitesFit'
    <3>1. CASE i = None
      <4>1. \A h \in Flights : AtWork(flights'[h]) /\ flights'[h].invite # None =>
               AtWork(flights[h]) /\ flights[h].invite = flights'[h].invite
        BY <1>4, <2>4, <3>1
      <4> QED BY <1>1, <2>1, <3>1, <4>1, InvitesKept
    <3>2. CASE i # None
      <4>1. i \in Invites /\ invites[i] = "open" /\ flights'[f].invite = i
        BY <1>3, <1>4, <1>6, <2>4, <3>2 DEF ValidInvite
      <4>2. raced' = IF \E g \in Flights : InFlight(g) /\ flights[g].invite = i
                     THEN raced \cup {i} ELSE raced
        BY <2>1, <3>2
      <4> HIDE DEF i
      <4> QED BY <1>1, <2>4, <4>1, <4>2, InvitesTaken
    <3> QED BY <3>1, <3>2
  <2>6. raced' \subseteq Invites
    BY <1>3, <2>1 DEF AccountsInv, TablesType
  <2> QED BY <1>1, <2>1, <2>3, <2>5, <2>6, OnlyBegins
<1> QED BY <1>5, <1>6

\* Who presents a token is a person.
LEMMA UserOfFacts ==
  ASSUME AccountsInv, NEW g \in Flights, Signed(g)
  PROVE  UserOf(g) \in People
<1> DEFINE m == CHOOSE n \in Codes : rows[n].token = g
<1>1. \E n \in Codes : rows[n].token = g
  BY DEF Signed
<1>2. m \in Codes /\ rows[m].token = g
  BY <1>1
<1>3. g # None
  BY CodeFacts
<1> HIDE DEF m
<1>4. rows[m].user \in People
  BY <1>2, <1>3, TokenRow
<1> QED BY <1>4 DEF UserOf, m

\* POST /auth/pat.
LEMMA OfferPatStep ==
  ASSUME AccountsInv, NEW f \in Flights, NEW g \in Flights, OfferPat(f, g)
  PROVE  AccountsInv'
<1> DEFINE p == UserOf(g)
           G == [NoFlight EXCEPT !.stage = "exchange", !.kind = "pat", !.person = p]
<1>1. /\ flights[f].stage = "none" /\ Signed(g) /\ flights' = [flights EXCEPT ![f] = G]
      /\ rows' = rows /\ users' = users /\ invites' = invites /\ cookies' = cookies
      /\ cli' = cli /\ UNCHANGED keyVars /\ UNCHANGED traceVars
  BY DEF OfferPat
<1>2. p \in People
  BY <1>1, UserOfFacts
<1> HIDE DEF p
<1>3. /\ G \in FlightT /\ G.stage = "exchange" /\ G.kind = "pat" /\ G.person = p
      /\ G.nonce = None /\ G.invite = None
  BY <1>2 DEF NoFlight, FlightT
<1> HIDE DEF G
<1>4. flights[f] = NoFlight
  BY <1>1 DEF AccountsInv, FlightsFit, FlightFits
<1>5. Begun(flights[f], G, rows')
  BY <1>2, <1>3, <1>4 DEF Begun
<1>6. flights'[f] = G /\ \A h \in Flights : h # f => flights'[h] = flights[h]
  BY <1>1, <1>5, BeginFacts
<1>7. InvitesFit'
  BY <1>1, <1>3, <1>6, InvitesKept DEF traceVars
<1>8. raced' \subseteq Invites
  BY <1>1 DEF traceVars, AccountsInv, TablesType
<1> QED BY <1>1, <1>5, <1>7, <1>8, OnlyBegins DEF traceVars

-----------------------------------------------------------------------------
(* Users, invites, and a restart.                                          *)

\* A step that keeps to the rows and the flights.
LEMMA TablesOnly ==
  ASSUME AccountsInv, rows' = rows, flights' = flights, cookies' = cookies, cli' = cli,
         UNCHANGED keyVars, ended' = ended, admitted' = admitted, raced' = raced,
         users' \in [People -> UserT],
         \A p \in People : /\ users'[p].role = users[p].role
                           /\ {users'[p].token, users'[p].pat} \subseteq
                                {0, users[p].token, users[p].pat},
         invites' \in [Invites -> {"none", "open", "expired", "used", "revoked"}],
         \A i \in Invites : invites'[i] \in {"none", "open", "expired"} =>
           invites[i] \in {"none", "open", "expired"}
  PROVE  AccountsInv'
<1>1. TablesType'
  BY DEF AccountsInv, TablesType
<1>2. Steady
  BY DEF Steady, Onward, Known
<1>3. InvitesFit'
  BY InvitesKept
<1>4. KeysFit'
  BY KeysKept DEF keyVars
<1>5. RolesFit'
  BY RolesKept
<1>6. \A h \in Flights : Issued(h)' => Issued(h)
  BY DEF Issued
<1> QED BY <1>1, <1>2, <1>3, <1>4, <1>5, <1>6, WholeStep

\* The token that was offered is taken back.
LEMMA ClearPatStep ==
  ASSUME AccountsInv, NEW g \in Flights, ClearPat(g)
  PROVE  AccountsInv'
<1> DEFINE p == UserOf(g)
<1>1. p \in People
  BY UserOfFacts DEF ClearPat
<1>2. users \in [People -> UserT] /\ users' = [users EXCEPT ![p].pat = 0]
  BY DEF AccountsInv, TablesType, ClearPat
<1> HIDE DEF p
<1>3. /\ users' \in [People -> UserT]
      /\ \A q \in People : /\ users'[q].role = users[q].role
                           /\ {users'[q].token, users'[q].pat} \subseteq
                                {0, users[q].token, users[q].pat}
  BY <1>1, <1>2 DEF UserT
<1>4. invites' = invites /\ invites \in [Invites -> {"none", "open", "expired", "used", "revoked"}]
  BY DEF AccountsInv, TablesType, ClearPat
<1> QED BY <1>3, <1>4, TablesOnly DEF ClearPat, traceVars

\* Invites that an admin makes or takes back, or whose time is up.
LEMMA InvitesStep ==
  ASSUME AccountsInv, NEW i \in Invites,
         (\E g \in Flights : CreateInvite(g, i) \/ RevokeInvite(g, i)) \/ InviteExpires(i)
  PROVE  AccountsInv'
<1>1. /\ rows' = rows /\ users' = users /\ flights' = flights /\ cookies' = cookies
      /\ cli' = cli /\ UNCHANGED keyVars /\ ended' = ended /\ admitted' = admitted
      /\ raced' = raced
  BY DEF CreateInvite, RevokeInvite, InviteExpires, traceVars
<1>2. \/ invites[i] \in {"none", "open", "expired"}
         /\ \E s \in {"open", "revoked", "expired"} : invites' = [invites EXCEPT ![i] = s]
  BY DEF CreateInvite, RevokeInvite, InviteExpires
<1>3. /\ invites \in [Invites -> {"none", "open", "expired", "used", "revoked"}]
      /\ users' \in [People -> UserT]
  BY <1>1 DEF AccountsInv, TablesType
<1>4. /\ invites' \in [Invites -> {"none", "open", "expired", "used", "revoked"}]
      /\ \A j \in Invites : invites'[j] \in {"none", "open", "expired"} =>
           invites[j] \in {"none", "open", "expired"}
  BY <1>2, <1>3
<1> QED BY <1>1, <1>3, <1>4, TablesOnly

\* bench-web ends and starts.
LEMMA RestartStep ==
  ASSUME AccountsInv, Restart
  PROVE  AccountsInv'
<1>1. /\ flights' = [f \in Flights |-> IF InFlight(f) THEN Done(flights[f]) ELSE flights[f]]
      /\ key' = 0 /\ rows' = Swept /\ cookies' = cookies /\ cli' = cli /\ keyFile' = keyFile
      /\ keys' = keys /\ unwritten' = unwritten /\ ended' = ended /\ admitted' = admitted
      /\ raced' = raced
      /\ users' = [p \in People |-> IF users[p].token = 0 THEN users[p]
                                    ELSE [users[p] EXCEPT !.scope = "repo"]]
      /\ \/ invites' = invites
         \/ \E i \in Invites : invites[i] = "none" /\ invites' = [invites EXCEPT ![i] = "open"]
  BY DEF Restart
<1>2. /\ flights \in [Flights -> FlightT] /\ users \in [People -> UserT]
      /\ invites \in [Invites -> {"none", "open", "expired", "used", "revoked"}]
  BY DEF AccountsInv, TablesType
<1>3. ASSUME NEW h \in Flights
      PROVE  /\ flights'[h] = IF InFlight(h) THEN Done(flights[h]) ELSE flights[h]
             /\ flights'[h] \in FlightT /\ Onward(h)
             /\ AtWork(flights[h]) => Done(flights[h]).stage = "done"
             /\ ~AtWork(flights'[h])
  <2>1. flights[h] \in FlightT /\ (InFlight(h) <=> AtWork(flights[h]))
    BY <1>2 DEF InFlight, AtWork
  <2>2. flights'[h] = IF InFlight(h) THEN Done(flights[h]) ELSE flights[h]
    BY <1>1
  <2>3. Done(flights[h]) \in FlightT /\ Done(flights[h]).stage = "done"
    BY <2>1, DoneFacts
  <2>4. Onward(h)
    BY <2>1, <2>2 DEF Onward, Ended
  <2>5. ~AtWork(flights'[h])
    BY <2>1, <2>2, <2>3 DEF AtWork
  <2> QED BY <2>1, <2>2, <2>3, <2>4, <2>5
<1>4. flights' \in [Flights -> FlightT]
  BY <1>1, <1>3
<1>5. /\ users' \in [People -> UserT]
      /\ \A p \in People : /\ users'[p].role = users[p].role
                           /\ users'[p].token = users[p].token /\ users'[p].pat = users[p].pat
  BY <1>1, <1>2 DEF UserT
<1>6. Steady
  BY <1>1, <1>3, <1>5 DEF Steady, Known
<1>7. /\ rows' \in [Codes -> RowT] /\ \A n \in Codes : rows'[n] = rows[n] \/ RowGood(n)
  BY <1>1, <1>6, SweptRows
<1>8. /\ invites' \in [Invites -> {"none", "open", "expired", "used", "revoked"}]
      /\ \A j \in Invites : invites'[j] \in {"none", "open", "expired"} =>
           invites[j] \in {"none", "open", "expired"}
  BY <1>1, <1>2
<1>9. TablesType'
  BY <1>1, <1>4, <1>5, <1>7, <1>8 DEF AccountsInv, TablesType
<1>10. InvitesFit'
  BY <1>1, <1>3, <1>8, InvitesKept
<1>11. \A h \in Flights : flights'[h].stage # "encrypt"
  BY <1>3 DEF AtWork
<1>12. KeysFit'
  BY <1>1, <1>5, <1>11, KeysKept
<1>13. RolesFit'
  BY <1>5, <1>11, RolesKept
<1>14. \A h \in Flights : Issued(h)' => Issued(h)
  BY <1>1, <1>11 DEF Issued
<1> QED BY <1>1, <1>6, <1>7, <1>9, <1>10, <1>12, <1>13, <1>14, WholeStep

-----------------------------------------------------------------------------
(* The theorems.                                                           *)

\* The invariant holds at the first start and at a later one.
LEMMA AccountsStart == SignInInit => AccountsInv
<1> SUFFICES ASSUME SignInInit PROVE AccountsInv
  OBVIOUS
<1>1. /\ rows = [n \in Codes |-> NoRow] /\ flights = [f \in Flights |-> NoFlight]
      /\ cookies = {} /\ cli = {} /\ ended = {} /\ raced = {} /\ key = 0 /\ unwritten = FALSE
      /\ admitted = [i \in Invites |-> {}]
  BY DEF SignInInit
<1>2. /\ users \in [People -> UserT] /\ AdminExists
      /\ invites \in [Invites -> {"none", "open", "expired", "used", "revoked"}]
      /\ keys \in 0..MaxKeys /\ keyFile = keys
      /\ \A p \in People : {users[p].token, users[p].pat} \subseteq {0, keyFile}
  <2>1. CASE FirstStart
    <3>1. users = [p \in People |-> NoUser] /\ keyFile = 0 /\ keys = 0
      BY <2>1 DEF FirstStart
    <3>2. /\ NoUser \in UserT /\ NoUser.role = "none" /\ NoUser.token = 0 /\ NoUser.pat = 0
      BY DEF NoUser, UserT
    <3>3. invites \in [Invites -> {"none", "open", "expired", "used", "revoked"}]
      BY <2>1 DEF FirstStart
    <3>4. AdminExists
      BY <3>1, <3>2 DEF AdminExists, Known
    <3> QED BY <3>1, <3>2, <3>3, <3>4, CodeFacts
  <2>2. CASE LaterStart
    <3>1. PICK a \in People : users = [p \in People |->
            [role |-> IF p = a THEN "admin" ELSE "user", scope |-> "read", token |-> 1, pat |-> 0]]
      BY <2>2 DEF LaterStart
    <3>2. users \in [People -> UserT] /\ users[a].role = "admin"
          /\ \A p \in People : users[p].token = 1 /\ users[p].pat = 0
      BY <3>1 DEF UserT
    <3>3. invites \in [Invites -> {"none", "open", "expired", "used", "revoked"}]
      BY <2>2 DEF LaterStart
    <3>4. MaxKeys > 0 /\ keyFile = 1 /\ keys = 1
      BY <2>2 DEF LaterStart
    <3>5. AdminExists
      BY <3>2 DEF AdminExists
    <3> QED BY <3>2, <3>3, <3>4, <3>5, CodeFacts
  <2> QED BY <2>1, <2>2 DEF SignInInit
<1>3. \A n \in Codes : rows[n] = NoRow
  BY <1>1
<1>4. \A f \in Flights : flights[f] = NoFlight
  BY <1>1
<1>5. TablesType
  BY <1>1, <1>2, BlankFacts DEF TablesType
<1>6. RowsFit
  BY <1>3, BlankFits DEF RowsFit
<1>7. FlightsFit /\ SameKind /\ CookiesFit
  BY <1>1, <1>4, BlankFacts DEF FlightsFit, FlightFits, SameKind, CookiesFit, AtWork
<1>8. TokensLast
  BY <1>1, <1>4, BlankFacts DEF TokensLast, Unstamped, Issued
<1>9. InvitesFit
  BY <1>1, <1>4, BlankFacts DEF InvitesFit, AtWork
<1>10. KeysFit
  <2>1. {key, keyFile} \subseteq 0..keys
    BY <1>1, <1>2, CodeFacts
  <2>2. unwritten \in BOOLEAN /\ key \in {0, keyFile}
    BY <1>1
  <2>3. \A f \in Flights : flights[f].stage # "encrypt"
    BY <1>4, BlankFacts
  <2> QED BY <1>2, <2>1, <2>2, <2>3 DEF KeysFit
<1>11. RolesFit
  BY <1>2, <1>4, BlankFacts DEF RolesFit
<1> QED BY <1>5, <1>6, <1>7, <1>8, <1>9, <1>10, <1>11 DEF AccountsInv

\* And every step keeps it.
LEMMA AccountsStep == AccountsInv /\ [SignInNext]_signInVars => AccountsInv'
<1> SUFFICES ASSUME AccountsInv, [SignInNext]_signInVars
             PROVE  AccountsInv'
  OBVIOUS
<1>1. ASSUME NEW n \in Nonces, StartFlow(n) \/ Verify(n) \/ CodeExpires(n) \/ Poll(n)
      PROVE  AccountsInv'
  <2>1. ASSUME NEW kind \in Flows \ {"invite"}, Draw(n, kind, None)
        PROVE  AccountsInv'
    BY <2>1, DrawStep
  <2> QED BY <1>1, <2>1, VerifyStep, CodeExpiresStep, PollStep DEF StartFlow
<1>2. ASSUME NEW n \in Nonces, NEW i \in Invites, OpenInvite(n, i)
      PROVE  AccountsInv'
  <2>1. "invite" \in Flows /\ i # None
    BY CodeFacts DEF Flows
  <2> QED BY <1>2, <2>1, DrawStep DEF OpenInvite
<1>3. ASSUME NEW n \in Codes, SessionEnds(n)
      PROVE  AccountsInv'
  BY <1>3, SessionEndsStep
<1>4. ASSUME NEW f \in Flights, NEW p \in People, NEW n \in Nonces, Callback(f, p, n)
      PROVE  AccountsInv'
  BY <1>4, CallbackStep
<1>5. ASSUME NEW f \in Flights, Continue(f)
      PROVE  AccountsInv'
  BY <1>5, TurnAwayStep, RecogniseStep, SignsInStep, UpgradeStep, UpgradedStep, EnrolStep,
     EnrolledStep, AcceptPatStep, StorePatStep, ThrowsStep DEF Continue
<1>6. ASSUME NEW f \in Flights, ClearPat(f)
      PROVE  AccountsInv'
  BY <1>6, ClearPatStep
<1>7. ASSUME NEW f \in Flights, NEW g \in Flights, OfferPat(f, g)
      PROVE  AccountsInv'
  BY <1>7, OfferPatStep
<1>8. ASSUME NEW g \in Flights, NEW i \in Invites, CreateInvite(g, i) \/ RevokeInvite(g, i)
      PROVE  AccountsInv'
  BY <1>8, InvitesStep
<1>9. ASSUME NEW i \in Invites, InviteExpires(i)
      PROVE  AccountsInv'
  BY <1>9, InvitesStep
<1>10. CASE SessionCleanup
  BY <1>10, SessionCleanupStep
<1>11. CASE Restart
  BY <1>11, RestartStep
<1>12. CASE UNCHANGED signInVars
  <2>1. RowsOnly /\ rows' = rows /\ rows \in [Codes -> RowT]
    BY <1>12 DEF signInVars, keyVars, traceVars, RowsOnly, AccountsInv, TablesType
  <2> QED BY <2>1, RowsOnlyStep
<1> QED BY <1>1, <1>2, <1>3, <1>4, <1>5, <1>6, <1>7, <1>8, <1>9, <1>10, <1>11, <1>12
        DEF SignInNext

\* The accounts are sound: there is an admin as soon as there is a user, the
\* token of a row is its user's, and what was sealed can be opened
\* (handleInviteCallback, the callbacks of auth.ts and getKey of crypto.ts).
THEOREM SecretsStaySound == SignInSpec => []AccountsAreSound
<1>1. ASSUME AccountsInv
      PROVE  AccountsAreSound
  <2>1. ASSUME NEW n \in Codes
        PROVE  /\ rows[n] \in RowT /\ ((rows[n].token = None) <=> (rows[n].user = None))
               /\ rows[n].token # None => /\ users[rows[n].user].role # "none"
                                          /\ rows[n].user = flights[rows[n].token].person
    BY <1>1 DEF AccountsInv, RowsFit, RowFits, TokenFits
  <2>2. TokenIdentity
    BY <2>1 DEF TokenIdentity
  <2>3. /\ \A n \in Codes :
             /\ rows[n].kind \in Flows \cup {"none", "gone", "session"}
             /\ rows[n].token \in Flights \cup {None} /\ rows[n].user \in People \cup {None}
    BY <2>1 DEF RowT
  <2>4. /\ \A p \in People : users[p].role \in {"none", "user", "admin"}
        /\ \A f \in Flights : flights[f].stage \in {"none", "exchange", "encrypt", "done"}
    BY <1>1 DEF AccountsInv, TablesType, UserT, FlightT
  <2>5. SignInTypeOK
    BY <1>1, <2>1, <2>3, <2>4 DEF SignInTypeOK, AccountsInv, TablesType, KeysFit
  <2>6. AdminExists /\ TokensReadable
    BY <1>1 DEF AccountsInv, RolesFit, KeysFit, TokensReadable
  <2> QED BY <2>2, <2>5, <2>6 DEF AccountsAreSound
<1> QED BY <1>1, AccountsStart, AccountsStep, PTL DEF SignInSpec

\* An invite that no two flights held at the same time has made one user at
\* most (validateInvite and markInviteUsed).
THEOREM OneUserPerInvite == SignInSpec => []InviteAdmitsOne
<1>1. ASSUME AccountsInv
      PROVE  InviteAdmitsOne
  <2>1. ASSUME NEW i \in Invites \ raced
        PROVE  Cardinality(admitted[i]) <= 1
    <3>1. admitted[i] = {} \/ \E p \in People : admitted[i] = {p}
      BY <1>1 DEF AccountsInv, InvitesFit
    <3>2. Cardinality({}) = 0
      BY FS_EmptySet
    <3>3. \A p \in People : Cardinality({p}) = 1
      BY FS_Singleton
    <3> QED BY <3>1, <3>2, <3>3
  <2> QED BY <2>1 DEF InviteAdmitsOne
<1> QED BY <1>1, AccountsStart, AccountsStep, PTL DEF SignInSpec

\* A token in a cookie is in its row until its time is up, unless another
\* flight came for the same nonce (session-cleanup, the stamps of auth.ts).
THEOREM CookiesKeepWorking == SignInSpec => []SessionsLast
<1>1. ASSUME AccountsInv
      PROVE  SessionsLast
  <2>1. ASSUME NEW f \in cookies
        PROVE  \/ Signed(f) \/ f \in ended
               \/ \E g \in Flights \ {f} : flights[g].nonce = flights[f].nonce
                                           /\ flights[f].kind # "invite"
    <3>1. f \in Flights
      BY <1>1 DEF AccountsInv, TablesType
    <3>2. Lasts(f)
      BY <1>1, <3>1 DEF AccountsInv, TokensLast, Issued
    <3> QED BY <3>2 DEF Lasts, Holds, Signed, Rival
  <2> QED BY <2>1 DEF SessionsLast
<1> QED BY <1>1, AccountsStart, AccountsStep, PTL DEF SignInSpec
=============================================================================
