--------------------------- MODULE ServicesProofs ---------------------------
(***************************************************************************)
(* Invariants of the parts that module Services puts side by side, and     *)
(* that they hold of the whole: no part writes another part's variables.   *)
(***************************************************************************)
EXTENDS Services, MeetingProofs, RecordProofs, TLAPS

----------------------------------------------------------------------------
(* Discord: two edits of the connection may overlap, so that the status is *)
(* right only because every row a request has read is right as well, and   *)
(* the mode never changes.                                                 *)

StatusFits(row) == row.status = connection_status(row.mode, row.enabled)

ReadRowsFit ==
    /\ StatusFits(connection)
    /\ \A u \in Editors : edit[u] # Nothing =>
           edit[u].mode = connection.mode /\ StatusFits(edit[u])

JudgedOnce ==
    /\ \A row, other \in posted : row.id = other.id => row = other
    /\ \A d \in decision : d.message \in posted /\ d.sources \subseteq posted
    /\ \A d, other \in decision : d.message = other.message => d = other

DiscordInv == DiscordTypeOK /\ ReadRowsFit /\ JudgedOnce

LEMMA InitDiscord == DiscordInit => DiscordInv
<1> SUFFICES ASSUME DiscordInit PROVE DiscordInv
  OBVIOUS
<1>1. PICK mode \in {"FIXTURE", "LIVE"}, enabled \in BOOLEAN :
        connection = [mode |-> mode, enabled |-> enabled,
                      channels |-> Channels, version |-> 1,
                      status |-> connection_status(mode, enabled)]
  BY DEF DiscordInit, create_connection
<1>2. connection \in Connection /\ StatusFits(connection)
  BY <1>1 DEF Connection, StatusFits, connection_status
<1> QED
  BY <1>2 DEF DiscordInit, DiscordInv, DiscordTypeOK, ReadRowsFit, JudgedOnce

\* Only the columns a request changed are written, so a request that read an
\* older row leaves the newer one's status and setting together.
LEMMA EditKeepsStatus ==
    ASSUME DiscordInv, NEW u \in Editors, NEW enabled \in BOOLEAN,
           NEW channels \in SUBSET Channels, update_connection(u, enabled, channels)
    PROVE  DiscordInv'
<1> DEFINE row == edit[u]
           status == connection_status(row.mode, enabled)
<1>1. /\ row \in Connection /\ row.mode = connection.mode /\ StatusFits(row)
      /\ connection \in Connection /\ StatusFits(connection)
  BY DEF update_connection, DiscordInv, DiscordTypeOK, ReadRowsFit
<1>2. /\ connection' = [connection EXCEPT
           !.enabled = IF enabled = row.enabled THEN @ ELSE enabled,
           !.channels = IF channels = row.channels THEN @ ELSE channels,
           !.status = IF status = row.status THEN @ ELSE status,
           !.version = row.version + 1]
      /\ edit' = [edit EXCEPT ![u] = Nothing]
      /\ UNCHANGED <<posted, decision, delivery>>
  BY DEF update_connection
<1>3. status \in {"MONITORING", "PAUSED", "DISCONNECTED"}
  BY DEF connection_status
<1>4. /\ row.version + 1 \in Nat /\ row.enabled \in BOOLEAN
      /\ connection.enabled \in BOOLEAN
  BY <1>1 DEF Connection
<1>5. connection' \in Connection
  BY <1>1, <1>2, <1>3, <1>4 DEF Connection
<1>6. /\ connection'.mode = connection.mode
      /\ connection'.enabled = IF enabled = row.enabled THEN connection.enabled ELSE enabled
      /\ connection'.status = IF status = row.status THEN connection.status ELSE status
  BY <1>1, <1>2 DEF Connection
<1>7. StatusFits(connection)'
  BY <1>1, <1>4, <1>6 DEF StatusFits, connection_status
<1>8. \A v \in Editors : edit'[v] = edit[v] \/ edit'[v] = Nothing
  BY <1>2 DEF DiscordInv, DiscordTypeOK
<1>9. DiscordTypeOK'
  BY <1>2, <1>5 DEF DiscordInv, DiscordTypeOK
<1>10. ReadRowsFit'
  BY <1>6, <1>7, <1>8 DEF DiscordInv, ReadRowsFit, StatusFits
<1> QED
  BY <1>2, <1>9, <1>10 DEF DiscordInv, JudgedOnce

LEMMA MessageIsJudged ==
    ASSUME DiscordInv, NEW c \in Collectors, NEW suggests \in BOOLEAN,
           decide_discord_message(c, suggests)
    PROVE  DiscordInv'
<1> DEFINE msg == delivery[c]
<1>1. PICK earlier \in SUBSET {row \in posted : row.channel = msg.channel} :
        decision' = decision \cup
            {[message |-> msg, sources |-> earlier \cup {msg},
              suggests |-> suggests]}
  BY DEF decide_discord_message
<1>2. /\ msg # Nothing /\ msg \in DiscordMessage
      /\ posted' = posted \cup {msg} /\ \A row \in posted : row.id # msg.id
      /\ delivery' = [delivery EXCEPT ![c] = Nothing]
      /\ UNCHANGED <<connection, edit>>
  BY DEF decide_discord_message, not_stored, DiscordInv, DiscordTypeOK
<1> HIDE DEF msg
<1>3. DiscordTypeOK'
  <2>1. posted' \subseteq DiscordMessage
    BY <1>2 DEF DiscordInv, DiscordTypeOK
  <2>2. decision' \subseteq DiscordDecision
    BY <1>1, <1>2 DEF DiscordInv, DiscordTypeOK, DiscordDecision
  <2> QED
    BY <1>2, <2>1, <2>2 DEF DiscordInv, DiscordTypeOK
<1>4. ReadRowsFit'
  BY <1>2 DEF DiscordInv, ReadRowsFit, StatusFits
<1>5. JudgedOnce'
  <2>1. \A d \in decision : d.message # msg
    BY <1>2 DEF DiscordInv, JudgedOnce
  <2>2. \A d \in decision' : d \notin decision =>
            d.message = msg /\ d.sources = earlier \cup {msg}
            /\ d = [message |-> msg, sources |-> earlier \cup {msg},
                    suggests |-> suggests]
    BY <1>1
  <2>3. earlier \subseteq posted
    BY <1>1
  <2>4. \A row, other \in posted' : row.id = other.id => row = other
    BY <1>2 DEF DiscordInv, JudgedOnce
  <2>5. \A d \in decision' : d.message \in posted' /\ d.sources \subseteq posted'
    BY <1>2, <2>2, <2>3 DEF DiscordInv, JudgedOnce
  <2>6. \A d, other \in decision' : d.message = other.message => d = other
    BY <2>1, <2>2 DEF DiscordInv, JudgedOnce
  <2> QED
    BY <2>4, <2>5, <2>6 DEF JudgedOnce
<1> QED
  BY <1>3, <1>4, <1>5 DEF DiscordInv

LEMMA NextDiscord == DiscordInv /\ [DiscordNext]_discordVars => DiscordInv'
<1> SUFFICES ASSUME DiscordInv, [DiscordNext]_discordVars PROVE DiscordInv'
  OBVIOUS
<1>1. ASSUME NEW u \in Editors, read_connection(u) PROVE DiscordInv'
  BY <1>1 DEF read_connection, DiscordInv, DiscordTypeOK, ReadRowsFit, JudgedOnce,
              StatusFits
<1>2. ASSUME NEW u \in Editors, refuse_update(u) PROVE DiscordInv'
  BY <1>2 DEF refuse_update, DiscordInv, DiscordTypeOK, ReadRowsFit, JudgedOnce,
              StatusFits
<1>3. ASSUME NEW c \in Collectors, NEW msg \in DiscordMessage,
             ingest_fixture_event(c, msg)
      PROVE  DiscordInv'
  BY <1>3 DEF ingest_fixture_event, DiscordInv, DiscordTypeOK, ReadRowsFit,
              JudgedOnce, StatusFits
<1>4. ASSUME NEW c \in Collectors, delivery_fails(c) PROVE DiscordInv'
  BY <1>4 DEF delivery_fails, DiscordInv, DiscordTypeOK, ReadRowsFit,
              JudgedOnce, StatusFits
<1>5. CASE UNCHANGED discordVars
  BY <1>5 DEF discordVars, DiscordInv, DiscordTypeOK, ReadRowsFit, JudgedOnce,
              StatusFits
<1> QED
  BY <1>1, <1>2, <1>3, <1>4, <1>5, EditKeepsStatus, MessageIsJudged DEF DiscordNext

\* discord_service: messages delivered twice or by overlapping collectors are
\* judged once, from stored messages, and the status is that of the setting
\* whatever requests of members overlap.
THEOREM DiscordIsRead == DiscordInit /\ [][DiscordNext]_discordVars => []DiscordIsReadOnce
<1>1. DiscordInv => DiscordIsReadOnce
  <2> SUFFICES ASSUME DiscordInv PROVE DiscordIsReadOnce
    OBVIOUS
  <2>1. {d.message : d \in decision} \subseteq posted
    BY DEF DiscordInv, JudgedOnce
  <2>2. connection.status =
           IF connection.enabled
           THEN IF connection.mode = "FIXTURE" THEN "MONITORING" ELSE "DISCONNECTED"
           ELSE "PAUSED"
    BY DEF DiscordInv, ReadRowsFit, StatusFits, connection_status
  <2> QED
    BY <2>1, <2>2 DEF DiscordInv, DiscordIsReadOnce, JudgedOnce
<1> QED
  BY <1>1, InitDiscord, NextDiscord, PTL

----------------------------------------------------------------------------
(* Clubs: a session is one's own because an account never changes hands,   *)
(* which must also hold of the session a refresh has read and not used.    *)

RefreshIsOnesOwn ==
    \A p \in People : refreshing[p] # 0 =>
        refreshing[p] \in 1 .. Len(auth) /\ auth[refreshing[p]].by = p

\* An account with a Kakao id was set up by the owner of the address.
KakaoIsOnesOwn == \A e \in People : account[e].kakao => account[e].by = e

\* A club is founded before anybody joins it or is invited.
MembersHaveClubs == \A row \in member : club[row.club] # 0

InvitedToServe ==
    \A i \in Invitations :
        invitation[i] # NoInvitation =>
            invitation[i].role \in SERVICE_ROLES /\ club[invitation[i].club] # 0

ClubInv ==
    /\ ClubTypeOK /\ SessionsAreOnesOwn /\ RefreshIsOnesOwn /\ KakaoIsOnesOwn
    /\ RolesAreClear /\ AcceptanceIsTrue /\ InvitedToServe /\ MembersHaveClubs

LEMMA InitClub == ClubInit => ClubInv
<1> SUFFICES ASSUME ClubInit PROVE ClubInv
  OBVIOUS
<1>1. /\ 0 \in 0 .. MaxClock /\ 0 \in 0 .. MaxSessions /\ 0 \in 0 .. 2
      /\ NoAccount \in Account
  BY ClubBounds DEF NoAccount, Account
<1>2. auth \in Seq(Auth) /\ Len(auth) = 0
  BY DEF ClubInit
<1>3. /\ invitation \in [Invitations -> Invitation \cup {NoInvitation}]
      /\ \A i \in Invitations : invitation[i] = NoInvitation
  BY DEF ClubInit
<1>4. ClubTypeOK
  BY <1>1, <1>2, <1>3, ClubBounds DEF ClubInit, ClubTypeOK
<1>5. KakaoIsOnesOwn
  BY DEF ClubInit, KakaoIsOnesOwn, NoAccount
<1> QED
  BY <1>2, <1>3, <1>4, <1>5 DEF ClubInit, ClubInv, SessionsAreOnesOwn, RefreshIsOnesOwn,
      RolesAreClear, AcceptanceIsTrue, InvitedToServe,
      MembersHaveClubs

LEMMA SessionRows ==
    ASSUME ClubInv, NEW n \in 1 .. Len(auth)
    PROVE  /\ auth[n] \in Auth /\ auth[n].account \in People /\ auth[n].by \in People
           /\ auth[n].by = account[auth[n].account].by
<1>1. auth[n] \in Auth
  BY DEF ClubInv, ClubTypeOK
<1> QED
  BY <1>1 DEF Auth, ClubInv, SessionsAreOnesOwn

\* An account that nobody has set up has no session.
LEMMA NewAccountKeeps ==
    ASSUME ClubInv, NEW e \in People, NEW row \in Account,
           account[e].by = NoOne \/ account[e].by = row.by,
           row.kakao => row.by = e,
           account' = [account EXCEPT ![e] = row],
           UNCHANGED <<auth, refreshing>>
    PROVE  /\ account' \in [People -> Account]
           /\ SessionsAreOnesOwn' /\ RefreshIsOnesOwn' /\ KakaoIsOnesOwn'
<1>1. \A n \in 1 .. Len(auth) : auth[n].by \in People /\ auth[n].account \in People
  BY SessionRows
<1>2. account' \in [People -> Account] /\ \A x \in People : x # e => account'[x] = account[x]
  BY DEF ClubInv, ClubTypeOK
<1>3. account'[e] = row
  BY DEF ClubInv, ClubTypeOK
<1>4. ASSUME NEW n \in 1 .. Len(auth)
      PROVE  auth[n].by = account'[auth[n].account].by
  BY <1>1, <1>2, <1>3, NoOneIsNobody DEF ClubInv, SessionsAreOnesOwn
<1> QED
  BY <1>2, <1>3, <1>4 DEF ClubInv, SessionsAreOnesOwn, RefreshIsOnesOwn, KakaoIsOnesOwn

LEMMA SignupKeeps ==
    ASSUME ClubInv, NEW p \in People, NEW e \in People, signup(p, e)
    PROVE  ClubInv'
<1> DEFINE row == [NoAccount EXCEPT !.by = p, !.password = TRUE, !.token = TRUE,
                                    !.token_until = clock + EMAIL_VERIFICATION_TTL]
<1>1. row \in Account /\ ~row.kakao
  <2>1. clock + EMAIL_VERIFICATION_TTL \in Nat
    BY ClubBounds DEF ClubInv, ClubTypeOK, EMAIL_VERIFICATION_TTL
  <2> QED
    BY <2>1 DEF NoAccount, Account
<1>2. /\ account[e].by = NoOne /\ account' = [account EXCEPT ![e] = row]
      /\ UNCHANGED <<clock, auth, club, member, invitation, refreshing>>
  BY DEF signup, clubTables
<1> HIDE DEF row
<1>3. /\ account' \in [People -> Account]
      /\ SessionsAreOnesOwn' /\ RefreshIsOnesOwn' /\ KakaoIsOnesOwn'
  BY <1>1, <1>2, NewAccountKeeps
<1> QED
  BY <1>2, <1>3 DEF ClubInv, ClubTypeOK, RolesAreClear, AcceptanceIsTrue, InvitedToServe,
      MembersHaveClubs

LEMMA VerifyKeeps ==
    ASSUME ClubInv, NEW e \in People, verify_email(e)
    PROVE  ClubInv'
<1> DEFINE row == [account[e] EXCEPT !.verified = TRUE, !.token = FALSE,
                                     !.token_until = 0]
<1>1. account[e] \in Account
  BY DEF ClubInv, ClubTypeOK
<1>2. row \in Account /\ row.by = account[e].by /\ row.kakao = account[e].kakao
  BY <1>1 DEF Account
<1>3. /\ account' = [account EXCEPT ![e] = row]
      /\ UNCHANGED <<clock, auth, club, member, invitation, refreshing>>
  BY DEF verify_email, clubTables, ClubInv, ClubTypeOK
<1> HIDE DEF row
<1>4. /\ account' \in [People -> Account]
      /\ SessionsAreOnesOwn' /\ RefreshIsOnesOwn' /\ KakaoIsOnesOwn'
  BY <1>2, <1>3, NewAccountKeeps DEF ClubInv, KakaoIsOnesOwn
<1> QED
  BY <1>3, <1>4 DEF ClubInv, ClubTypeOK, RolesAreClear, AcceptanceIsTrue, InvitedToServe,
      MembersHaveClubs

\* A new session of an account its holder set up; older ones may be revoked.
LEMMA NewSessionKeeps ==
    ASSUME ClubInv, NEW p \in People, NEW e \in People, NEW older \in Seq(Auth),
           Len(older) = Len(auth), Len(auth) < MaxSessions,
           \A n \in 1 .. Len(auth) :
               older[n].account = auth[n].account /\ older[n].by = auth[n].by,
           account' \in [People -> Account], KakaoIsOnesOwn', account'[e].by = p,
           \A n \in 1 .. Len(auth) : account'[auth[n].account].by = auth[n].by,
           auth' = issue_session(older, e, p),
           \A q \in People : refreshing'[q] = refreshing[q] \/ refreshing'[q] = 0,
           refreshing' \in [People -> 0 .. MaxSessions],
           UNCHANGED <<clock, club, member, invitation>>
    PROVE  ClubInv'
<1> DEFINE row == [account |-> e, by |-> p,
                   access_until |-> clock + ACCESS_TOKEN_TTL,
                   until |-> clock + REFRESH_TOKEN_TTL, revoked |-> FALSE]
<1>1. row \in Auth /\ row.account = e /\ row.by = p
  <2>1. clock + ACCESS_TOKEN_TTL \in Nat /\ clock + REFRESH_TOKEN_TTL \in Nat
    BY ClubBounds DEF ClubInv, ClubTypeOK, ACCESS_TOKEN_TTL, REFRESH_TOKEN_TTL
  <2> QED
    BY <2>1 DEF Auth
<1>2. auth' = Append(older, row)
  BY DEF issue_session
<1> HIDE DEF row
<1>3. /\ auth' \in Seq(Auth) /\ Len(auth') = Len(auth) + 1 /\ Len(auth) \in Nat
      /\ auth'[Len(auth) + 1] = row
      /\ \A n \in 1 .. Len(auth) : auth'[n] = older[n]
  BY <1>1, <1>2 DEF ClubInv, ClubTypeOK
<1>4. ClubTypeOK'
  BY <1>3, ClubBounds DEF ClubInv, ClubTypeOK
<1>5. SessionsAreOnesOwn'
  <2> SUFFICES ASSUME NEW n \in 1 .. Len(auth')
               PROVE  auth'[n].by = account'[auth'[n].account].by
    BY DEF SessionsAreOnesOwn
  <2>1. CASE n = Len(auth) + 1
    BY <1>1, <1>3, <2>1
  <2>2. CASE n \in 1 .. Len(auth)
    BY <1>3, <2>2
  <2> QED
    BY <1>3, <2>1, <2>2
<1>6. RefreshIsOnesOwn'
  <2> SUFFICES ASSUME NEW q \in People, refreshing'[q] # 0
               PROVE  /\ refreshing'[q] \in 1 .. Len(auth')
                      /\ auth'[refreshing'[q]].by = q
    BY DEF RefreshIsOnesOwn
  <2>1. /\ refreshing'[q] = refreshing[q] /\ refreshing[q] \in 1 .. Len(auth)
        /\ auth[refreshing[q]].by = q
    BY DEF ClubInv, RefreshIsOnesOwn
  <2> QED
    BY <1>3, <2>1
<1> QED
  BY <1>4, <1>5, <1>6 DEF ClubInv, RolesAreClear, AcceptanceIsTrue, InvitedToServe,
      MembersHaveClubs

LEMMA LoginKeeps ==
    ASSUME ClubInv, NEW p \in People, NEW e \in People, login(p, e)
    PROVE  ClubInv'
<1>1. /\ account[e].by = p /\ Len(auth) < MaxSessions
      /\ auth' = issue_session(auth, e, p)
      /\ UNCHANGED <<clock, account, club, member, invitation, refreshing>>
  BY DEF login, clubTables
<1>2. \A n \in 1 .. Len(auth) : account'[auth[n].account].by = auth[n].by
  BY <1>1, SessionRows
<1>3. auth \in Seq(Auth) /\ account' \in [People -> Account] /\ KakaoIsOnesOwn'
      /\ refreshing' \in [People -> 0 .. MaxSessions]
  BY <1>1 DEF ClubInv, ClubTypeOK, KakaoIsOnesOwn
<1> QED
  BY <1>1, <1>2, <1>3, NewSessionKeeps

LEMMA KakaoKeeps ==
    ASSUME ClubInv, NEW p \in People, login_with_kakao(p)
    PROVE  ClubInv'
<1> DEFINE row == [NoAccount EXCEPT !.by = p, !.kakao = TRUE, !.verified = TRUE]
<1>1. /\ kakao_account(p) /\ Len(auth) < MaxSessions
      /\ account' = IF account[p].by # NoOne THEN account
                    ELSE [account EXCEPT ![p] = row]
      /\ auth' = issue_session(auth, p, p)
      /\ UNCHANGED <<clock, club, member, invitation, refreshing>>
  BY DEF login_with_kakao, clubTables
<1>2. row \in Account /\ row.by = p
  BY DEF NoAccount, Account
<1> HIDE DEF row
<1>3. account \in [People -> Account] /\ auth \in Seq(Auth)
      /\ refreshing \in [People -> 0 .. MaxSessions]
  BY DEF ClubInv, ClubTypeOK
<1>4. account' \in [People -> Account] /\ KakaoIsOnesOwn'
  BY <1>1, <1>2, <1>3 DEF ClubInv, KakaoIsOnesOwn
<1>5. account'[p].by = p
  BY <1>1, <1>2, <1>3 DEF kakao_account, ClubInv, KakaoIsOnesOwn
<1>6. ASSUME NEW n \in 1 .. Len(auth) PROVE account'[auth[n].account].by = auth[n].by
  BY <1>1, <1>3, SessionRows, NoOneIsNobody
<1> QED
  BY <1>1, <1>3, <1>4, <1>5, <1>6, NewSessionKeeps

LEMMA RevokedSessions ==
    ASSUME ClubInv, NEW n \in 1 .. Len(auth)
    PROVE  LET older == [auth EXCEPT ![n].revoked = TRUE] IN
           /\ older \in Seq(Auth) /\ Len(older) = Len(auth)
           /\ \A m \in 1 .. Len(auth) :
                  older[m].account = auth[m].account /\ older[m].by = auth[m].by
<1> DEFINE row == [auth[n] EXCEPT !.revoked = TRUE]
           older == [auth EXCEPT ![n].revoked = TRUE]
<1>1. row \in Auth /\ row.account = auth[n].account /\ row.by = auth[n].by
  BY SessionRows DEF Auth
<1>2. older = [auth EXCEPT ![n] = row] /\ auth \in Seq(Auth)
  BY DEF ClubInv, ClubTypeOK
<1> HIDE DEF row, older
<1>3. older \in Seq(Auth) /\ Len(older) = Len(auth)
  BY <1>1, <1>2
<1>4. \A m \in 1 .. Len(auth) : older[m] = IF m = n THEN row ELSE auth[m]
  BY <1>2
<1> QED
  BY <1>1, <1>3, <1>4 DEF older

LEMMA ReadRefreshKeeps ==
    ASSUME ClubInv, NEW p \in People, NEW n \in 1 .. Len(auth), read_refresh(p, n)
    PROVE  ClubInv'
<1>1. /\ auth[n].by = p /\ refreshing' = [refreshing EXCEPT ![p] = n]
      /\ UNCHANGED <<clock, account, auth, club, member, invitation>>
  BY DEF read_refresh, clubTables
<1>2. n \in 0 .. MaxSessions /\ refreshing \in [People -> 0 .. MaxSessions]
  BY ClubBounds DEF ClubInv, ClubTypeOK
<1>3. refreshing' \in [People -> 0 .. MaxSessions]
  BY <1>1, <1>2
<1>4. RefreshIsOnesOwn'
  BY <1>1, <1>2 DEF ClubInv, RefreshIsOnesOwn
<1> QED
  BY <1>1, <1>3, <1>4 DEF ClubInv, ClubTypeOK, SessionsAreOnesOwn, KakaoIsOnesOwn,
      RolesAreClear, AcceptanceIsTrue, InvitedToServe, MembersHaveClubs

LEMMA RefreshKeeps ==
    ASSUME ClubInv, NEW p \in People, refresh(p)
    PROVE  ClubInv'
<1> DEFINE n == refreshing[p]
           older == [auth EXCEPT ![n].revoked = TRUE]
           e == auth[n].account
<1>1. /\ n # 0 /\ Len(auth) < MaxSessions
      /\ auth' = issue_session(older, e, p)
      /\ refreshing' = [refreshing EXCEPT ![p] = 0]
      /\ UNCHANGED <<clock, account, club, member, invitation>>
  BY DEF refresh, clubTables
<1>2. n \in 1 .. Len(auth) /\ auth[n].by = p
  BY <1>1 DEF ClubInv, RefreshIsOnesOwn
<1>3. e \in People /\ account'[e].by = p
  BY <1>1, <1>2, SessionRows
<1>4. /\ older \in Seq(Auth) /\ Len(older) = Len(auth)
      /\ \A m \in 1 .. Len(auth) :
             older[m].account = auth[m].account /\ older[m].by = auth[m].by
  BY <1>2, RevokedSessions
<1>5. \A m \in 1 .. Len(auth) : account'[auth[m].account].by = auth[m].by
  BY <1>1, SessionRows
<1> HIDE DEF n, older, e
<1>6. /\ refreshing' \in [People -> 0 .. MaxSessions]
      /\ \A q \in People : refreshing'[q] = refreshing[q] \/ refreshing'[q] = 0
  <2>1. 0 \in 0 .. MaxSessions
    BY ClubBounds
  <2> QED
    BY <1>1, <2>1 DEF ClubInv, ClubTypeOK
<1>7. account' \in [People -> Account] /\ KakaoIsOnesOwn'
  BY <1>1 DEF ClubInv, ClubTypeOK, KakaoIsOnesOwn
<1> QED
  BY <1>1, <1>3, <1>4, <1>5, <1>6, <1>7, NewSessionKeeps

LEMMA LogoutKeeps ==
    ASSUME ClubInv, NEW p \in People, NEW n \in 1 .. Len(auth), logout(p, n)
    PROVE  ClubInv'
<1>1. /\ auth' = [auth EXCEPT ![n].revoked = TRUE]
      /\ UNCHANGED <<clock, account, club, member, invitation, refreshing>>
  BY DEF logout, clubTables
<1>2. /\ auth' \in Seq(Auth) /\ Len(auth') = Len(auth)
      /\ \A m \in 1 .. Len(auth) :
             auth'[m].account = auth[m].account /\ auth'[m].by = auth[m].by
  BY <1>1, RevokedSessions
<1>3. ClubTypeOK'
  BY <1>1, <1>2 DEF ClubInv, ClubTypeOK
<1>4. SessionsAreOnesOwn'
  BY <1>1, <1>2 DEF ClubInv, SessionsAreOnesOwn
<1>5. RefreshIsOnesOwn'
  BY <1>1, <1>2 DEF ClubInv, RefreshIsOnesOwn
<1> QED
  BY <1>1, <1>3, <1>4, <1>5 DEF ClubInv, KakaoIsOnesOwn, RolesAreClear,
      AcceptanceIsTrue, InvitedToServe, MembersHaveClubs

\* The rows of a club that a step of it leaves alone.
AccountsStay == UNCHANGED <<clock, account, auth, refreshing>>

LEMMA ClubRowsMove ==
    ASSUME ClubInv, AccountsStay,
           club' \in [Clubs -> 0 .. 2], member' \subseteq Member,
           invitation' \in [Invitations -> Invitation \cup {NoInvitation}],
           RolesAreClear', AcceptanceIsTrue', InvitedToServe', MembersHaveClubs'
    PROVE  ClubInv'
BY DEF AccountsStay, ClubInv, ClubTypeOK, SessionsAreOnesOwn, RefreshIsOnesOwn,
       KakaoIsOnesOwn

LEMMA UpdateClubKeeps ==
    ASSUME ClubInv, NEW e \in People, NEW c \in Clubs, update_club(e, c)
    PROVE  ClubInv'
<1>1. PICK row \in member : row.club = c /\ row.account = e /\ row.role = "OWNER"
  BY DEF update_club, ensure_member
<1>2. club' = [club EXCEPT ![c] = 3 - club[c]] /\ UNCHANGED <<member, invitation>>
      /\ AccountsStay
  BY DEF update_club, AccountsStay, ClubInv, ClubTypeOK
<1>3. club[c] \in {1, 2}
  BY <1>1 DEF ClubInv, ClubTypeOK, MembersHaveClubs
<1>4. 3 - club[c] \in {1, 2}
  BY <1>3
<1>5. club' \in [Clubs -> 0 .. 2] /\ \A x \in Clubs : club[x] # 0 => club'[x] # 0
  BY <1>2, <1>4 DEF ClubInv, ClubTypeOK
<1> QED
  BY <1>2, <1>5, ClubRowsMove DEF ClubInv, ClubTypeOK, RolesAreClear, AcceptanceIsTrue,
      InvitedToServe, MembersHaveClubs

LEMMA CreateClubKeeps ==
    ASSUME ClubInv, NEW e \in People, NEW c \in Clubs, create_club(e, c)
    PROVE  ClubInv'
<1> DEFINE new == [club |-> c, account |-> e, role |-> "OWNER"]
<1>1. /\ club[c] = 0 /\ club' = [club EXCEPT ![c] = 1]
      /\ member' = member \cup {new} /\ UNCHANGED invitation /\ AccountsStay
  BY DEF create_club, AccountsStay
<1>2. new \in Member /\ new.club = c
  BY DEF Member, MemberRole, SERVICE_ROLES
<1> HIDE DEF new
<1>3. \A row \in member : row.club # c
  BY <1>1 DEF ClubInv, MembersHaveClubs
<1>4. /\ club' \in [Clubs -> 0 .. 2] /\ club'[c] # 0
      /\ \A x \in Clubs : club[x] # 0 => club'[x] # 0
  BY <1>1 DEF ClubInv, ClubTypeOK
<1>5. RolesAreClear'
  BY <1>1, <1>2, <1>3 DEF ClubInv, RolesAreClear
<1>6. MembersHaveClubs'
  BY <1>1, <1>2, <1>4 DEF ClubInv, ClubTypeOK, Member, MembersHaveClubs
<1> QED
  BY <1>1, <1>2, <1>4, <1>5, <1>6, ClubRowsMove DEF ClubInv, ClubTypeOK,
      AcceptanceIsTrue, InvitedToServe

LEMMA InviteKeeps ==
    ASSUME ClubInv, NEW e \in People, NEW c \in Clubs, NEW i \in Invitations,
           NEW role \in MemberRole, create_invitation(e, c, i, role)
    PROVE  ClubInv'
<1> DEFINE new == [club |-> c, role |-> role, until |-> clock + INVITATION_TTL,
                   accepted |-> NoOne]
<1>1. /\ role \in SERVICE_ROLES /\ invitation' = [invitation EXCEPT ![i] = new]
      /\ UNCHANGED <<club, member>> /\ AccountsStay
  BY DEF create_invitation, AccountsStay
<1>2. new \in Invitation /\ new.accepted = NoOne /\ new.role = role /\ new.club = c
  <2>1. clock + INVITATION_TTL \in Nat
    BY ClubBounds DEF ClubInv, ClubTypeOK, INVITATION_TTL
  <2> QED
    BY <2>1 DEF Invitation
<1> HIDE DEF new
<1>3. /\ invitation' \in [Invitations -> Invitation \cup {NoInvitation}]
      /\ \A x \in Invitations : invitation'[x] = IF x = i THEN new ELSE invitation[x]
  BY <1>1, <1>2 DEF ClubInv, ClubTypeOK
<1>4. AcceptanceIsTrue'
  BY <1>1, <1>2, <1>3 DEF ClubInv, AcceptanceIsTrue
<1>5. InvitedToServe'
  <2>1. club[c] # 0
    BY DEF create_invitation, ensure_member, ClubInv, MembersHaveClubs
  <2> QED
    BY <1>1, <1>2, <1>3, <2>1 DEF ClubInv, InvitedToServe
<1> QED
  BY <1>1, <1>3, <1>4, <1>5, ClubRowsMove DEF ClubInv, ClubTypeOK, RolesAreClear,
      MembersHaveClubs

LEMMA AcceptInvitationKeeps ==
    ASSUME ClubInv, NEW e \in People, NEW i \in Invitations, accept_invitation(e, i)
    PROVE  ClubInv'
<1> DEFINE old == invitation[i]
           first == IF old.accepted = NoOne THEN e ELSE old.accepted
           new == [old EXCEPT !.accepted = first]
           joined == [club |-> old.club, account |-> e, role |-> old.role]
<1>1. /\ old # NoInvitation /\ old.role \in SERVICE_ROLES
      /\ \A row \in member : ~(row.club = old.club /\ row.account = e)
      /\ member' = member \cup {joined}
      /\ UNCHANGED club /\ AccountsStay
  BY DEF accept_invitation, acceptable_invitation, may_join, AccountsStay
<1>2. old \in Invitation
  BY <1>1 DEF ClubInv, ClubTypeOK
<1>3. invitation' = [invitation EXCEPT ![i] = new]
  BY DEF accept_invitation, ClubInv, ClubTypeOK
<1>4. /\ old.club \in Clubs /\ old.role \in MemberRole
      /\ old.accepted \in People \cup {NoOne} /\ old.until \in Nat
  BY <1>2 DEF Invitation
<1>5. first \in People /\ (old.accepted # NoOne => first = old.accepted)
      /\ (old.accepted = NoOne => first = e)
  BY <1>4
<1>6. /\ new \in Invitation /\ new.club = old.club /\ new.role = old.role
      /\ new.accepted = first
  BY <1>2, <1>5 DEF Invitation
<1>7. /\ joined \in Member /\ joined.club = old.club /\ joined.account = e
      /\ joined.role = old.role
  BY <1>4 DEF Member
<1>8. [club |-> new.club, account |-> new.accepted, role |-> new.role] \in member'
  <2>1. CASE old.accepted = NoOne
    BY <1>1, <1>5, <1>6, <2>1
  <2>2. CASE old.accepted # NoOne
    BY <1>1, <1>5, <1>6, <2>2 DEF ClubInv, AcceptanceIsTrue
  <2> QED
    BY <2>1, <2>2
<1>9. club[old.club] # 0
  BY <1>1, <1>4 DEF ClubInv, InvitedToServe
<1> HIDE DEF old, first, new, joined
<1>10. /\ invitation' \in [Invitations -> Invitation \cup {NoInvitation}]
       /\ \A x \in Invitations : invitation'[x] = IF x = i THEN new ELSE invitation[x]
  BY <1>3, <1>6 DEF ClubInv, ClubTypeOK
<1>11. AcceptanceIsTrue'
  BY <1>1, <1>8, <1>10 DEF ClubInv, AcceptanceIsTrue
<1>12. InvitedToServe'
  BY <1>1, <1>6, <1>9, <1>10 DEF ClubInv, InvitedToServe
<1>13. RolesAreClear'
  BY <1>1, <1>7 DEF ClubInv, RolesAreClear
<1>14. MembersHaveClubs'
  BY <1>1, <1>7, <1>9 DEF ClubInv, MembersHaveClubs
<1> QED
  BY <1>1, <1>7, <1>10, <1>11, <1>12, <1>13, <1>14, ClubRowsMove
     DEF ClubInv, ClubTypeOK

LEMMA NextClub == ClubInv /\ [ClubNext]_clubVars => ClubInv'
<1> SUFFICES ASSUME ClubInv, [ClubNext]_clubVars PROVE ClubInv'
  OBVIOUS
<1>1. ASSUME NEW p \in People, AccountStep(p) PROVE ClubInv'
  BY <1>1, SignupKeeps, LoginKeeps, VerifyKeeps, KakaoKeeps, ReadRefreshKeeps,
     LogoutKeeps, RefreshKeeps DEF AccountStep
<1>2. ASSUME NEW p \in People, NEW e \in People, ClubStep(p, e) PROVE ClubInv'
  BY <1>2, CreateClubKeeps, UpdateClubKeeps, InviteKeeps, AcceptInvitationKeeps
     DEF ClubStep
<1>3. CASE Wait
  <2>1. clock' \in 0 .. MaxClock
    BY <1>3, ClubBounds DEF Wait, ClubInv, ClubTypeOK
  <2> QED
    BY <1>3, <2>1 DEF Wait, clubTables, ClubInv, ClubTypeOK, SessionsAreOnesOwn,
        RefreshIsOnesOwn, KakaoIsOnesOwn, RolesAreClear, AcceptanceIsTrue,
        InvitedToServe, MembersHaveClubs
<1>4. CASE UNCHANGED clubVars
  BY <1>4 DEF clubVars, ClubInv, ClubTypeOK, SessionsAreOnesOwn, RefreshIsOnesOwn,
      KakaoIsOnesOwn, RolesAreClear, AcceptanceIsTrue, InvitedToServe,
      MembersHaveClubs
<1> QED
  BY <1>1, <1>2, <1>3, <1>4 DEF ClubNext

\* club_service and auth_service, for any number of people, clubs, links and
\* sessions: nobody holds a session of somebody else's account, a role can be
\* told, the first use of a link is kept, and a listed link can be used.
THEOREM ClubsStayInOrder == ClubInit /\ [][ClubNext]_clubVars => []ClubsAreInOrder
<1>1. ClubInv => ClubsAreInOrder
  <2> SUFFICES ASSUME ClubInv PROVE ClubsAreInOrder
    OBVIOUS
  <2>1. ListedCanJoin
    BY DEF ListedCanJoin, list_members, acceptable_invitation, ClubInv, InvitedToServe
  <2> QED
    BY <2>1 DEF ClubInv, ClubsAreInOrder
<1> QED
  BY <1>1, InitClub, NextClub, PTL

----------------------------------------------------------------------------
(* Activity: transactions commit in any order, but those of one job follow  *)
(* each other.  A client is told of a job's change because its last event is *)
(* past the cursor when it becomes visible, or the job is one of those that  *)
(* the client was passed by.                                                *)

\* A set of numbers with a bound has a greatest one.
LEMMA LastNumber ==
    ASSUME NEW N \in Nat, NEW S \in SUBSET (1 .. N), S # {}
    PROVE  \E n \in S : \A m \in S : m <= n
<1> DEFINE T == {N - n : n \in S}
           R == {ss \in Nat \X Nat : ss[1] < ss[2]}
<1>1. T \subseteq Nat /\ T # {}
  <2>1. \A n \in S : N - n \in Nat /\ N - n \in T
    OBVIOUS
  <2> QED
    BY <2>1
<1>2. IsWellFoundedOn(R, Nat)
  BY NatLessThanWellFounded DEF OpToRel
<1>3. \A x, y \in Nat : x < y => <<x, y>> \in R
  OBVIOUS
<1> HIDE DEF T, R
<1>4. PICK x \in T : \A y \in T : ~(<<y, x>> \in R)
  BY <1>1, <1>2, WFMin
<1>5. \A y \in T : x <= y
  <2>1. x \in Nat /\ \A y \in T : y \in Nat /\ ~(y < x)
    BY <1>1, <1>3, <1>4
  <2> QED
    BY <2>1
<1>6. PICK n \in S : x = N - n
  BY DEF T
<1>7. \A m \in S : N - m \in T
  BY DEF T
<1> QED
  BY <1>5, <1>6, <1>7

\* The event with the greatest id of a set.
LastOf(events, e) == e \in events /\ \A f \in events : f.id <= e.id

JobEvents(j) == {e \in event : e.job = j}

\* The events of an open transaction come after all of the job's that were
\* committed, and no number is given twice.
WorkFits(j) ==
    /\ IsFiniteSet(work[j])
    /\ \A e \in work[j] : e.job = j /\ e.id <= eventId
    /\ \A e, f \in work[j] : e.id = f.id => e = f
    /\ \A e \in work[j], f \in event : e.id # f.id /\ (f.job = j => f.id < e.id)
    /\ \A i \in AgentJobs \ {j} : \A e \in work[j], f \in work[i] : e.id # f.id
    /\ work[j] # {} => \E e \in work[j] : LastOf(work[j], e)

EventsFit ==
    /\ IsFiniteSet(event)
    /\ \A e \in event : e.id <= eventId
    /\ \A e, f \in event : e.id = f.id => e = f

\* The status of a job is that of its last event.
StatusTold(j) ==
    \/ agentJob[j] = "NONE" /\ JobEvents(j) = {}
    \/ \E e \in event : LastOf(JobEvents(j), e) /\ e.status = agentJob[j]

\* A client has the last event of a job, or is still going to get it, or the
\* list of the snapshot is right and nothing happened since.
JobWatched(w, j) ==
    \/ /\ \A e \in watcher[w].got : e.job # j
       /\ UnderWay(watcher[w].listed[j]) <=> UnderWay(agentJob[j])
    \/ \E e \in event : /\ LastOf(JobEvents(j), e)
                        /\ e.id > watcher[w].cursor \/ e \in watcher[w].got

WatcherFits(w) ==
    /\ watcher[w].got \subseteq event /\ watcher[w].cursor <= eventId
    /\ watcher[w].at # "FOLLOWS" => watcher[w].got = {}
    /\ watcher[w].at = "FOLLOWS" => \A j \in AgentJobs \ passed[w] : JobWatched(w, j)

ActivityInv ==
    /\ ActivityTypeOK /\ EventsFit
    /\ \A j \in AgentJobs : WorkFits(j) /\ StatusTold(j)
    /\ \A w \in Watchers : WatcherFits(w)

LEMMA InitActivity == ActivityInit => ActivityInv
<1> SUFFICES ASSUME ActivityInit PROVE ActivityInv
  OBVIOUS
<1> DEFINE away == [at |-> "AWAY", cursor |-> 0,
                    listed |-> [j \in AgentJobs |-> "UNLISTED"], got |-> {}]
<1>1. away \in Watcher /\ away.at = "AWAY" /\ away.cursor = 0 /\ away.got = {}
  BY DEF Watcher, Listed
<1> HIDE DEF away
<1>2. watcher = [w \in Watchers |-> away]
  BY DEF ActivityInit, away
<1>3. ActivityTypeOK
  BY <1>1, <1>2 DEF ActivityInit, ActivityTypeOK, JobStatus
<1>4. EventsFit
  BY FS_EmptySet DEF ActivityInit, EventsFit
<1>5. \A j \in AgentJobs : WorkFits(j) /\ StatusTold(j)
  BY FS_EmptySet DEF ActivityInit, WorkFits, StatusTold, JobEvents
<1>6. \A w \in Watchers : WatcherFits(w)
  BY <1>1, <1>2 DEF ActivityInit, WatcherFits
<1> QED
  BY <1>3, <1>4, <1>5, <1>6 DEF ActivityInv

LEMMA ActivityTypes ==
    ASSUME ActivityInv
    PROVE  /\ agentJob \in [AgentJobs -> JobStatus]
           /\ work \in [AgentJobs -> SUBSET ActivityEvent]
           /\ event \subseteq ActivityEvent /\ eventId \in Nat
           /\ watcher \in [Watchers -> Watcher]
           /\ passed \in [Watchers -> SUBSET AgentJobs]
           /\ \A e \in ActivityEvent : e.id \in EventIds /\ e.id \in Nat
                                       /\ e.job \in AgentJobs /\ e.status \in JobStatus
           /\ \A w \in Watchers : watcher[w].cursor \in Nat
BY ActivityBounds DEF ActivityInv, ActivityTypeOK, ActivityEvent, EventIds, Watcher

\* A transaction inserts events with the next numbers.
LEMMA InsertKeeps ==
    ASSUME ActivityInv, NEW j \in AgentJobs, NEW new \in SUBSET ActivityEvent,
           NEW n \in EventIds, eventId < n, eventId' = n, IsFiniteSet(new),
           \A e \in new : e.job = j /\ eventId < e.id /\ e.id <= n,
           \A e, f \in new : e.id = f.id => e = f,
           \E e \in new : LastOf(new, e),
           work' = [work EXCEPT ![j] = new],
           UNCHANGED <<agentJob, event, watcher, passed>>
    PROVE  ActivityInv'
<1>1. /\ work' \in [AgentJobs -> SUBSET ActivityEvent]
      /\ \A i \in AgentJobs : work'[i] = IF i = j THEN new ELSE work[i]
  BY ActivityTypes
<1>2. n \in Nat /\ eventId \in Nat
  BY ActivityTypes, ActivityBounds DEF EventIds
<1>3. ActivityTypeOK'
  BY <1>1 DEF ActivityInv, ActivityTypeOK
<1>4. EventsFit'
  BY <1>2, ActivityTypes DEF ActivityInv, EventsFit, LastOf
<1>5. ASSUME NEW i \in AgentJobs PROVE WorkFits(i)' /\ StatusTold(i)'
  <2>1. StatusTold(i)'
    BY DEF ActivityInv, StatusTold, JobEvents, LastOf
  <2>2. CASE i = j
    <3>1. work'[i] = new
      BY <1>1, <2>2
    <3>2. \A e \in new, f \in event : e.id # f.id /\ f.id < e.id
      BY <1>2, ActivityTypes DEF ActivityInv, EventsFit
    <3>3. \A k \in AgentJobs \ {j} : \A e \in new, f \in work'[k] : e.id # f.id
      BY <1>1, <1>2, ActivityTypes DEF ActivityInv, WorkFits
    <3> QED
      BY <2>1, <2>2, <3>1, <3>2, <3>3 DEF WorkFits, LastOf
  <2>3. CASE i # j
    <3>1. work'[i] = work[i]
      BY <1>1, <2>3
    <3>2. \A e \in work[i] : e.id <= n
      BY <1>2, ActivityTypes DEF ActivityInv, WorkFits
    <3>3. \A k \in AgentJobs \ {i} : \A e \in work[i], f \in work'[k] : e.id # f.id
      BY <1>1, <1>2, ActivityTypes DEF ActivityInv, WorkFits
    <3> QED
      BY <2>1, <3>1, <3>2, <3>3 DEF ActivityInv, WorkFits, LastOf
  <2> QED
    BY <2>2, <2>3
<1>6. ASSUME NEW w \in Watchers PROVE WatcherFits(w)'
  BY <1>2, ActivityTypes
     DEF ActivityInv, WatcherFits, JobWatched, JobEvents, LastOf
<1> QED
  BY <1>3, <1>4, <1>5, <1>6 DEF ActivityInv

LEMMA RecordedEvent ==
    ASSUME NEW j \in AgentJobs, NEW status \in JobStatus, NEW n \in EventIds
    PROVE  LET e == record_event(j, status, n) IN
           e \in ActivityEvent /\ e.id = n /\ e.job = j /\ e.status = status
BY DEF record_event, ActivityEvent

LEMMA OneIsFinite == \A x : IsFiniteSet({x})
BY FS_Singleton

LEMMA CreateJobKeeps ==
    ASSUME ActivityInv, NEW j \in AgentJobs, create_and_start(j)
    PROVE  ActivityInv'
<1> DEFINE a == record_event(j, "QUEUED", eventId + 1)
           b == record_event(j, "RUNNING", eventId + 2)
<1>1. /\ eventId \in Nat /\ eventId + 1 \in EventIds /\ eventId + 2 \in EventIds
      /\ eventId < eventId + 2 /\ eventId < eventId + 1
      /\ eventId + 1 < eventId + 2
  BY ActivityTypes, ActivityBounds DEF create_and_start, EventIds
<1>2. /\ a \in ActivityEvent /\ a.id = eventId + 1 /\ a.job = j
      /\ b \in ActivityEvent /\ b.id = eventId + 2 /\ b.job = j
  BY <1>1, RecordedEvent DEF JobStatus
<1>3. /\ work' = [work EXCEPT ![j] = {a, b}] /\ eventId' = eventId + 2
      /\ UNCHANGED <<agentJob, event, watcher, passed>>
  BY DEF create_and_start
<1> HIDE DEF a, b
<1>4. IsFiniteSet({a, b})
  <2>1. {a, b} = {a} \cup {b} /\ IsFiniteSet({a})
    BY OneIsFinite
  <2>2. IsFiniteSet({a} \cup {b})
    BY <2>1, FS_AddElement
  <2> QED
    BY <2>1, <2>2
<1>5. LastOf({a, b}, b)
  BY <1>1, <1>2 DEF LastOf
<1>6. \A e \in {a, b} : e.job = j /\ eventId < e.id /\ e.id <= eventId + 2
  BY <1>1, <1>2
<1>7. \A e, f \in {a, b} : e.id = f.id => e = f
  BY <1>1, <1>2
<1>8. {a, b} \in SUBSET ActivityEvent
  BY <1>2
<1> QED
  BY <1>1, <1>3, <1>4, <1>5, <1>6, <1>7, <1>8, InsertKeeps

LEMMA FinishJobKeeps ==
    ASSUME ActivityInv, NEW j \in AgentJobs, finish_job(j)
    PROVE  ActivityInv'
<1>1. PICK status \in {"SUCCEEDED", "FAILED"} :
        work' = [work EXCEPT ![j] = {record_event(j, status, eventId + 1)}]
  BY DEF finish_job
<1> DEFINE a == record_event(j, status, eventId + 1)
<1>2. /\ eventId \in Nat /\ eventId + 1 \in EventIds /\ eventId < eventId + 1
  BY ActivityTypes, ActivityBounds DEF finish_job, EventIds
<1>3. a \in ActivityEvent /\ a.id = eventId + 1 /\ a.job = j
  BY <1>2, RecordedEvent DEF JobStatus
<1>4. /\ eventId' = eventId + 1 /\ UNCHANGED <<agentJob, event, watcher, passed>>
  BY DEF finish_job
<1>5. work' = [work EXCEPT ![j] = {a}]
  BY <1>1
<1> HIDE DEF a
<1>6. IsFiniteSet({a}) /\ LastOf({a}, a) /\ {a} \in SUBSET ActivityEvent
  <2>1. IsFiniteSet({a})
    BY OneIsFinite, Zenon
  <2>2. LastOf({a}, a)
    BY <1>2, <1>3 DEF LastOf
  <2> QED
    BY <1>3, <2>1, <2>2
<1>7. \A e \in {a} : e.job = j /\ eventId < e.id /\ e.id <= eventId + 1
  BY <1>2, <1>3
<1> QED
  BY <1>2, <1>4, <1>5, <1>6, <1>7, InsertKeeps

LEMMA SyncKeeps ==
    ASSUME ActivityInv, NEW j \in AgentJobs, request_sync(j)
    PROVE  ActivityInv'
<1> DEFINE a == record_event(j, "QUEUED", eventId + 1)
           b == record_event(j, "RUNNING", eventId + 2)
           c == record_event(j, "FAILED", eventId + 3)
<1>1. /\ eventId \in Nat /\ eventId + 1 \in EventIds /\ eventId + 2 \in EventIds
      /\ eventId + 3 \in EventIds
  BY ActivityTypes, ActivityBounds DEF request_sync, EventIds
<1>2. /\ a \in ActivityEvent /\ a.id = eventId + 1 /\ a.job = j
      /\ b \in ActivityEvent /\ b.id = eventId + 2 /\ b.job = j
      /\ c \in ActivityEvent /\ c.id = eventId + 3 /\ c.job = j
  BY <1>1, RecordedEvent DEF JobStatus
<1>3. /\ work' = [work EXCEPT ![j] = {a, b, c}] /\ eventId' = eventId + 3
      /\ UNCHANGED <<agentJob, event, watcher, passed>>
  BY DEF request_sync
<1> HIDE DEF a, b, c
<1>4. IsFiniteSet({a, b, c})
  <2>1. {a, b, c} = ({a} \cup {b}) \cup {c}
    OBVIOUS
  <2>2. IsFiniteSet({a} \cup {b})
    BY OneIsFinite, FS_AddElement
  <2> QED
    BY <2>1, <2>2, FS_AddElement
<1>5. LastOf({a, b, c}, c)
  BY <1>1, <1>2 DEF LastOf
<1>6. \A e \in {a, b, c} : e.job = j /\ eventId < e.id /\ e.id <= eventId + 3
  BY <1>1, <1>2
<1>7. \A e, f \in {a, b, c} : e.id = f.id => e = f
  BY <1>1, <1>2
<1>8. {a, b, c} \in SUBSET ActivityEvent /\ eventId < eventId + 3
  BY <1>1, <1>2
<1> QED
  BY <1>1, <1>3, <1>4, <1>5, <1>6, <1>7, <1>8, InsertKeeps

LEMMA WrittenIsLast ==
    ASSUME ActivityInv, NEW j \in AgentJobs, work[j] # {}
    PROVE  \E e \in work[j] : LastOf(work[j], e) /\ Written(j) = e.status
<1> DEFINE e == CHOOSE x \in work[j] : \A f \in work[j] : f.id <= x.id
<1>1. \E x \in work[j] : \A f \in work[j] : f.id <= x.id
  BY DEF ActivityInv, WorkFits, LastOf
<1>2. e \in work[j] /\ \A f \in work[j] : f.id <= e.id
  BY <1>1
<1> QED
  BY <1>2 DEF Written, LastOf

\* A commit either puts the job's last event past the cursor of a client, or
\* passes the client by.
LEMMA CommitJobKeeps ==
    ASSUME ActivityInv, NEW j \in AgentJobs, commit_job(j)
    PROVE  ActivityInv'
<1>1. /\ work[j] # {}
      /\ passed' = [w \in Watchers |-> IF Behind(w, j) THEN passed[w] \cup {j}
                                                      ELSE passed[w] \ {j}]
      /\ agentJob' = [agentJob EXCEPT ![j] = Written(j)]
      /\ event' = event \cup work[j]
      /\ work' = [work EXCEPT ![j] = {}]
      /\ UNCHANGED <<eventId, watcher>>
  BY Zenon DEF commit_job
<1>2. PICK last \in work[j] : LastOf(work[j], last) /\ Written(j) = last.status
  BY <1>1, WrittenIsLast
<1>3. /\ IsFiniteSet(work[j]) /\ work[j] \subseteq ActivityEvent
      /\ \A e \in work[j] : e.job = j /\ e.id <= eventId
      /\ \A e, f \in work[j] : e.id = f.id => e = f
      /\ \A e \in work[j], f \in event : e.id # f.id /\ (f.job = j => f.id < e.id)
  BY ActivityTypes DEF ActivityInv, WorkFits
<1>4. /\ agentJob' \in [AgentJobs -> JobStatus] /\ agentJob'[j] = last.status
      /\ \A i \in AgentJobs : i # j => agentJob'[i] = agentJob[i]
  BY <1>1, <1>2, <1>3, ActivityTypes
<1>5. /\ work' \in [AgentJobs -> SUBSET ActivityEvent] /\ work'[j] = {}
      /\ \A i \in AgentJobs : i # j => work'[i] = work[i]
  BY <1>1, ActivityTypes
<1>6. ActivityTypeOK'
  <2>1. passed' \in [Watchers -> SUBSET AgentJobs]
    BY <1>1, ActivityTypes
  <2> QED
    BY <1>1, <1>3, <1>4, <1>5, <2>1 DEF ActivityInv, ActivityTypeOK
<1>7. \A f \in JobEvents(j)' : f.id <= last.id
  <2>1. ASSUME NEW f \in event, f.job = j PROVE f.id <= last.id
    <3>1. f.id \in Nat /\ last.id \in Nat /\ f.id < last.id
      BY <1>2, <1>3, <2>1, ActivityTypes
    <3> QED
      BY <3>1
  <2>2. \A f \in work[j] : f.id <= last.id
    BY <1>2 DEF LastOf
  <2> QED
    BY <1>1, <2>1, <2>2 DEF JobEvents
<1>8. last \in event' /\ LastOf(JobEvents(j)', last)
  BY <1>1, <1>2, <1>3, <1>7 DEF LastOf, JobEvents
<1>9. EventsFit'
  <2>1. IsFiniteSet(event')
    BY <1>1, <1>3, FS_Union DEF ActivityInv, EventsFit
  <2>2. \A e, f \in event' : e.id = f.id => e = f
    BY <1>1, <1>3 DEF ActivityInv, EventsFit
  <2> QED
    BY <1>1, <1>3, <2>1, <2>2 DEF ActivityInv, EventsFit
<1>10. ASSUME NEW i \in AgentJobs, i # j PROVE JobEvents(i)' = JobEvents(i)
  BY <1>1, <1>3, <1>10 DEF JobEvents
<1>11. ASSUME NEW i \in AgentJobs PROVE WorkFits(i)'
  <2>1. CASE i = j
    BY <1>5, <2>1, FS_EmptySet DEF WorkFits
  <2>2. CASE i # j
    <3>1. \A e \in work[i], f \in event' : e.id # f.id /\ (f.job = i => f.id < e.id)
      BY <1>1, <1>3, <2>2 DEF ActivityInv, WorkFits
    <3>2. \A k \in AgentJobs \ {i} : \A e \in work[i], f \in work'[k] : e.id # f.id
      BY <1>5, <2>2 DEF ActivityInv, WorkFits
    <3> QED
      BY <1>1, <1>5, <2>2, <3>1, <3>2 DEF ActivityInv, WorkFits, LastOf
  <2> QED
    BY <2>1, <2>2
<1>12. ASSUME NEW i \in AgentJobs PROVE StatusTold(i)'
  <2>1. CASE i = j
    BY <1>4, <1>8, <2>1 DEF StatusTold
  <2>2. CASE i # j
    <3>1. \/ agentJob'[i] = "NONE" /\ JobEvents(i)' = {}
          \/ \E e \in event : LastOf(JobEvents(i)', e) /\ e.status = agentJob'[i]
      BY <1>4, <1>10, <2>2 DEF ActivityInv, StatusTold
    <3> QED
      BY <1>1, <3>1 DEF StatusTold
  <2> QED
    BY <2>1, <2>2
<1>13. ASSUME NEW w \in Watchers, watcher[w].at = "FOLLOWS",
              NEW i \in AgentJobs \ passed'[w]
       PROVE  JobWatched(w, i)'
  <2>1. passed'[w] = IF Behind(w, j) THEN passed[w] \cup {j} ELSE passed[w] \ {j}
    BY <1>1
  <2>2. CASE i = j
    <3>1. ~Behind(w, j)
      BY <1>13, <2>1, <2>2
    <3>2. PICK e \in work[j] : ~(e.id <= watcher[w].cursor)
      BY <1>13, <3>1 DEF Behind
    <3>3. /\ e.id \in Nat /\ last.id \in Nat /\ watcher[w].cursor \in Nat
          /\ e.id <= last.id
      BY <1>2, <1>3, <3>2, ActivityTypes DEF LastOf
    <3>4. last.id > watcher'[w].cursor
      BY <1>1, <3>2, <3>3
    <3> QED
      BY <1>8, <2>2, <3>4 DEF JobWatched
  <2>3. CASE i # j
    <3>1. JobEvents(i)' = JobEvents(i) /\ agentJob'[i] = agentJob[i]
      BY <1>4, <1>10, <2>3
    <3>2. JobWatched(w, i)
      <4>1. i \in AgentJobs \ passed[w]
        BY <2>1, <2>3
      <4> QED
        BY <1>13, <4>1 DEF ActivityInv, WatcherFits
    <3>3. \/ /\ \A e \in watcher'[w].got : e.job # i
             /\ UnderWay(watcher'[w].listed[i]) <=> UnderWay(agentJob'[i])
          \/ \E e \in event : /\ LastOf(JobEvents(i)', e)
                              /\ e.id > watcher'[w].cursor \/ e \in watcher'[w].got
      BY <1>1, <3>1, <3>2 DEF JobWatched
    <3> QED
      BY <1>1, <3>3 DEF JobWatched, UnderWay
  <2> QED
    BY <2>2, <2>3
<1>14. ASSUME NEW w \in Watchers PROVE WatcherFits(w)'
  BY <1>1, <1>13 DEF ActivityInv, WatcherFits
<1> QED
  BY <1>6, <1>9, <1>11, <1>12, <1>14 DEF ActivityInv

LEMMA RollbackKeeps ==
    ASSUME ActivityInv, NEW j \in AgentJobs, rollback_job(j)
    PROVE  ActivityInv'
<1>1. /\ work' = [work EXCEPT ![j] = {}]
      /\ UNCHANGED <<agentJob, event, eventId, watcher, passed>>
  BY DEF rollback_job
<1>2. /\ work' \in [AgentJobs -> SUBSET ActivityEvent] /\ work'[j] = {}
      /\ \A i \in AgentJobs : i # j => work'[i] = work[i]
  BY <1>1, ActivityTypes
<1>3. \A i \in AgentJobs : WorkFits(i)' /\ StatusTold(i)'
  BY <1>1, <1>2, FS_EmptySet DEF ActivityInv, WorkFits, StatusTold, JobEvents, LastOf
<1>4. \A w \in Watchers : WatcherFits(w)'
  BY <1>1 DEF ActivityInv, WatcherFits, JobWatched, JobEvents, LastOf
<1>5. ActivityTypeOK' /\ EventsFit'
  BY <1>1, <1>2 DEF ActivityInv, ActivityTypeOK, EventsFit, LastOf
<1> QED
  BY <1>3, <1>4, <1>5 DEF ActivityInv

\* Only one client's row changes, and its cursor is an id that can be read.
LEMMA WatcherMoves ==
    ASSUME ActivityInv, NEW w \in Watchers, NEW row \in Watcher,
           watcher' = [watcher EXCEPT ![w] = row],
           row.got \subseteq event, row.at # "FOLLOWS" => row.got = {},
           passed' \in [Watchers -> SUBSET AgentJobs],
           \A v \in Watchers \ {w} : passed'[v] = passed[v],
           row.at = "FOLLOWS" =>
               \A j \in AgentJobs \ passed'[w] : JobWatched(w, j)',
           \/ row.cursor \in {0, watcher[w].cursor}
           \/ \E e \in event : e.id = row.cursor,
           UNCHANGED <<agentJob, work, event, eventId>>
    PROVE  ActivityInv'
<1>1. /\ watcher' \in [Watchers -> Watcher] /\ watcher'[w] = row
      /\ \A v \in Watchers : v # w => watcher'[v] = watcher[v]
  BY ActivityTypes
<1>2. row.cursor <= eventId
  BY ActivityTypes DEF ActivityInv, WatcherFits, EventsFit
<1>4. \A i \in AgentJobs : WorkFits(i)' /\ StatusTold(i)'
  BY <1>1 DEF ActivityInv, WorkFits, StatusTold, JobEvents, LastOf
<1>5. ASSUME NEW v \in Watchers PROVE WatcherFits(v)'
  <2>1. CASE v = w
    BY <1>1, <1>2, <2>1 DEF WatcherFits
  <2>2. CASE v # w
    BY <1>1, <2>2 DEF ActivityInv, WatcherFits, JobWatched, JobEvents, LastOf
  <2> QED
    BY <2>1, <2>2
<1>6. ActivityTypeOK' /\ EventsFit'
  BY <1>1 DEF ActivityInv, ActivityTypeOK, EventsFit, LastOf
<1> QED
  BY <1>4, <1>5, <1>6 DEF ActivityInv

LEMMA SnapshotCursorKeeps ==
    ASSUME ActivityInv, NEW w \in Watchers, snapshot_cursor(w)
    PROVE  ActivityInv'
<1> DEFINE row == [at |-> "CURSOR", cursor |-> latest_cursor,
                   listed |-> [j \in AgentJobs |-> "UNLISTED"], got |-> {}]
<1>1. latest_cursor = 0 \/ \E e \in event : e.id = latest_cursor
  <2>1. CASE event = {}
    BY <2>1 DEF latest_cursor
  <2>2. CASE event # {}
    <3> DEFINE last == CHOOSE n \in {e.id : e \in event} : \A e \in event : e.id <= n
    <3>1. \E n \in {e.id : e \in event} : \A e \in event : e.id <= n
      <4>1. {e.id : e \in event} \in SUBSET (1 .. MaxEvents)
        BY ActivityTypes DEF EventIds
      <4>2. PICK n \in {e.id : e \in event} : \A m \in {e.id : e \in event} : m <= n
        BY <2>2, <4>1, LastNumber, ActivityBounds
      <4> QED
        BY <4>2
    <3>2. last \in {e.id : e \in event}
      BY <3>1
    <3>3. latest_cursor = last
      BY <2>2 DEF latest_cursor
    <3> QED
      BY <3>2, <3>3
  <2> QED
    BY <2>1, <2>2
<1>2. latest_cursor \in EventIds \cup {0}
  BY <1>1, ActivityTypes
<1>3. row \in Watcher /\ row.at = "CURSOR" /\ row.got = {} /\ row.cursor = latest_cursor
  BY <1>2 DEF Watcher, Listed
<1>4. /\ watcher' = [watcher EXCEPT ![w] = row]
      /\ UNCHANGED <<agentJob, work, event, eventId>>
  BY DEF snapshot_cursor
<1>5. /\ passed' \in [Watchers -> SUBSET AgentJobs]
      /\ \A v \in Watchers \ {w} : passed'[v] = passed[v]
  BY ActivityTypes DEF snapshot_cursor
<1> HIDE DEF row
<1> QED
  BY <1>1, <1>3, <1>4, <1>5, WatcherMoves

\* Whatever was committed since the cursor was read, is in the list, and will
\* be told again.
LEMMA SnapshotJobsKeeps ==
    ASSUME ActivityInv, NEW w \in Watchers, snapshot_jobs(w)
    PROVE  ActivityInv'
<1> DEFINE list == [j \in AgentJobs |-> IF agentJob[j] \in Listed THEN agentJob[j]
                                                                ELSE "UNLISTED"]
           row == [watcher[w] EXCEPT !.at = "FOLLOWS", !.listed = list]
<1>1. list \in [AgentJobs -> Listed] /\ \A j \in AgentJobs : UnderWay(list[j]) <=> UnderWay(agentJob[j])
  BY DEF Listed, UnderWay
<1> HIDE DEF list
<1>2. watcher[w] \in Watcher /\ watcher[w].at = "CURSOR" /\ watcher[w].got = {}
  BY ActivityTypes DEF snapshot_jobs, ActivityInv, WatcherFits
<1>3. /\ row \in Watcher /\ row.at = "FOLLOWS" /\ row.got = {} /\ row.listed = list
      /\ row.cursor = watcher[w].cursor
  BY <1>1, <1>2 DEF Watcher
<1>4. /\ watcher' = [watcher EXCEPT ![w] = row]
      /\ UNCHANGED <<agentJob, work, event, eventId, passed>>
  BY ActivityTypes DEF snapshot_jobs, list
<1> HIDE DEF row
<1>5. watcher'[w] = row
  BY <1>4, ActivityTypes
<1>6. \A j \in AgentJobs : JobWatched(w, j)'
  BY <1>1, <1>3, <1>4, <1>5 DEF JobWatched, UnderWay
<1> QED
  BY <1>3, <1>4, <1>6, ActivityTypes, WatcherMoves

\* A batch has every event between the old cursor and the new one.
LEMMA BatchIsWhole ==
    ASSUME ActivityInv, NEW cursor \in Nat, NEW e \in events_after(cursor),
           NEW f \in event, cursor < f.id, f.id <= e.id
    PROVE  f \in events_after(cursor)
<1> DEFINE Before(x) == {g \in event : cursor < g.id /\ g.id < x.id}
<1>1. e \in event /\ Cardinality(Before(e)) < MaxBatch
  BY DEF events_after
<1>2. /\ \A g \in event : g.id \in Nat
      /\ IsFiniteSet(event)
  BY ActivityTypes DEF ActivityInv, EventsFit
<1>3. Before(e) \subseteq event /\ Before(f) \subseteq Before(e)
  BY <1>1, <1>2
<1>4. IsFiniteSet(Before(e))
  BY <1>2, <1>3, FS_Subset
<1>5. Cardinality(Before(f)) <= Cardinality(Before(e)) /\ IsFiniteSet(Before(f))
  BY <1>3, <1>4, FS_Subset
<1>6. Cardinality(Before(f)) \in Nat /\ Cardinality(Before(e)) \in Nat
  BY <1>4, <1>5, FS_CardinalityType
<1>7. Cardinality(Before(f)) < MaxBatch
  BY <1>1, <1>5, <1>6, ActivityBounds
<1> QED
  BY <1>7 DEF events_after

LEMMA PollActivityKeeps ==
    ASSUME ActivityInv, NEW w \in Watchers, poll(w)
    PROVE  ActivityInv'
<1> DEFINE batch == events_after(watcher[w].cursor)
           ids == {e.id : e \in batch}
           next == CHOOSE n \in ids : \A e \in batch : e.id <= n
           row == [watcher[w] EXCEPT !.got = watcher[w].got \cup batch, !.cursor = next]
<1>1. /\ watcher[w].at = "FOLLOWS" /\ batch # {}
      /\ UNCHANGED <<agentJob, work, event, eventId, passed>>
  BY DEF poll
<1>2. watcher' = [watcher EXCEPT ![w] = row]
  <2>1. watcher' = [watcher EXCEPT ![w].got = @ \cup batch, ![w].cursor = next]
    BY Zenon DEF poll
  <2> HIDE DEF batch, ids, next
  <2> QED
    BY <2>1, ActivityTypes
<1>3. batch \subseteq event /\ \A e \in batch : e.id > watcher[w].cursor
  BY DEF events_after
<1>4. ids \in SUBSET (1 .. MaxEvents) /\ ids # {}
  BY <1>1, <1>3, ActivityTypes DEF EventIds
<1>5. \E n \in ids : \A e \in batch : e.id <= n
  <2>1. PICK n \in ids : \A m \in ids : m <= n
    BY <1>4, LastNumber, ActivityBounds
  <2> QED
    BY <2>1
<1>6. next \in ids /\ \A e \in batch : e.id <= next
  BY <1>5
<1>7. PICK last \in batch : last.id = next
  BY <1>6
<1>8. watcher[w] \in Watcher /\ watcher[w].cursor \in Nat /\ next \in EventIds
  BY <1>4, <1>6, ActivityTypes DEF EventIds
<1>9. \A f \in event : f.id <= next => f.id <= watcher[w].cursor \/ f \in batch
  <2> SUFFICES ASSUME NEW f \in event, f.id <= next, ~(f.id <= watcher[w].cursor)
               PROVE  f \in batch
    OBVIOUS
  <2>1. f.id \in Nat /\ watcher[w].cursor < f.id /\ f.id <= last.id
    BY <1>7, <1>8, ActivityTypes
  <2> QED
    BY <1>8, <2>1, BatchIsWhole
<1> HIDE DEF batch, ids, next
<1>10. /\ row \in Watcher /\ row.at = "FOLLOWS" /\ row.cursor = next
       /\ row.got = watcher[w].got \cup batch /\ row.listed = watcher[w].listed
  <2>1. batch \subseteq ActivityEvent
    BY <1>3, ActivityTypes
  <2> QED
    BY <1>1, <1>8, <2>1 DEF Watcher
<1> HIDE DEF row
<1>11. watcher'[w] = row
  BY <1>2, ActivityTypes
<1>12. row.got \subseteq event
  BY <1>3, <1>10 DEF ActivityInv, WatcherFits
<1>13. ASSUME NEW j \in AgentJobs \ passed[w] PROVE JobWatched(w, j)'
  <2>1. JobWatched(w, j) /\ StatusTold(j)
    BY <1>1 DEF ActivityInv, WatcherFits
  <2>2. JobEvents(j)' = JobEvents(j)
    BY <1>1 DEF JobEvents
  <2>3. ASSUME NEW e \in event, LastOf(JobEvents(j), e), e.id > watcher[w].cursor
        PROVE  JobWatched(w, j)'
    <3>1. e.id > next \/ e \in batch
      BY <1>8, <1>9, <2>3, ActivityTypes DEF EventIds
    <3>2. e.id > watcher'[w].cursor \/ e \in watcher'[w].got
      BY <1>10, <1>11, <3>1
    <3> QED
      BY <1>1, <2>2, <2>3, <3>2 DEF JobWatched
  <2>4. CASE \E e \in event : LastOf(JobEvents(j), e) /\ e \in watcher[w].got
    <3>1. PICK e \in event : LastOf(JobEvents(j), e) /\ e \in watcher[w].got
      BY <2>4
    <3>2. e \in watcher'[w].got
      BY <1>10, <1>11, <3>1
    <3> QED
      BY <1>1, <2>2, <3>1, <3>2 DEF JobWatched
  <2>5. CASE /\ \A e \in watcher[w].got : e.job # j
             /\ UnderWay(watcher[w].listed[j]) <=> UnderWay(agentJob[j])
    <3>1. CASE \E f \in batch : f.job = j
      <4>1. PICK f \in batch : f.job = j
        BY <3>1
      <4>2. f \in JobEvents(j)
        BY <1>3, <4>1 DEF JobEvents
      <4>3. PICK e \in event : LastOf(JobEvents(j), e)
        BY <2>1, <4>2 DEF StatusTold
      <4>4. e.id > watcher[w].cursor
        BY <1>3, <1>8, <4>1, <4>2, <4>3, ActivityTypes DEF LastOf
      <4> QED
        BY <2>3, <4>3, <4>4
    <3>2. CASE \A f \in batch : f.job # j
      <4>1. \A e \in watcher'[w].got : e.job # j
        BY <1>10, <1>11, <2>5, <3>2
      <4>2. UnderWay(watcher'[w].listed[j]) <=> UnderWay(agentJob'[j])
        BY <1>1, <1>10, <1>11, <2>5
      <4> QED
        BY <4>1, <4>2 DEF JobWatched, UnderWay
    <3> QED
      BY <3>1, <3>2
  <2> QED
    BY <2>1, <2>3, <2>4, <2>5 DEF JobWatched
<1> QED
  BY <1>1, <1>2, <1>3, <1>7, <1>10, <1>12, <1>13, ActivityTypes, WatcherMoves

LEMMA NextActivity == ActivityInv /\ [ActivityNext]_activityVars => ActivityInv'
<1> SUFFICES ASSUME ActivityInv, [ActivityNext]_activityVars PROVE ActivityInv'
  OBVIOUS
<1>1. CASE UNCHANGED activityVars
  BY <1>1 DEF activityVars, ActivityInv, ActivityTypeOK, EventsFit, WorkFits, StatusTold,
      WatcherFits, JobWatched, JobEvents, LastOf
<1>2. ASSUME NEW j \in AgentJobs, create_and_start(j) \/ finish_job(j) \/ request_sync(j)
      PROVE  ActivityInv'
  BY <1>2, CreateJobKeeps, FinishJobKeeps, SyncKeeps
<1>3. ASSUME NEW j \in AgentJobs, commit_job(j) \/ rollback_job(j) PROVE ActivityInv'
  <2>1. CASE commit_job(j)
    BY <2>1, CommitJobKeeps, Zenon
  <2>2. CASE rollback_job(j)
    BY <2>2, RollbackKeeps
  <2> QED
    BY <1>3, <2>1, <2>2
<1>4. ASSUME NEW w \in Watchers, snapshot_cursor(w) \/ snapshot_jobs(w) \/ poll(w)
      PROVE  ActivityInv'
  BY <1>4, SnapshotCursorKeeps, SnapshotJobsKeeps, PollActivityKeeps
<1> QED
  BY <1>1, <1>2, <1>3, <1>4 DEF ActivityNext

\* What a client that has got everything knows of a job is what a fresh
\* snapshot would show, unless it was passed by.
LEMMA KnownIsBusy ==
    ASSUME ActivityInv, NEW w \in Watchers, CaughtUp(w),
           NEW j \in AgentJobs \ passed[w]
    PROVE  UnderWay(Known(w, j)) <=> UnderWay(agentJob[j])
<1> DEFINE got == {e \in watcher[w].got : e.job = j}
<1>1. /\ JobWatched(w, j) /\ StatusTold(j) /\ watcher[w].got \subseteq event
      /\ \A e, f \in event : e.id = f.id => e = f
  BY DEF ActivityInv, WatcherFits, EventsFit, CaughtUp
<1>2. CASE /\ \A e \in watcher[w].got : e.job # j
           /\ UnderWay(watcher[w].listed[j]) <=> UnderWay(agentJob[j])
  <2>1. got = {}
    BY <1>2
  <2>2. Known(w, j) = watcher[w].listed[j]
    BY <2>1 DEF Known
  <2> QED
    BY <1>2, <2>2
<1>3. ASSUME NEW e \in event, LastOf(JobEvents(j), e), e \in watcher[w].got
      PROVE  UnderWay(Known(w, j)) <=> UnderWay(agentJob[j])
  <2>1. e \in got /\ got \subseteq JobEvents(j)
    BY <1>1, <1>3 DEF LastOf, JobEvents
  <2> DEFINE c == CHOOSE x \in got : \A f \in got : f.id <= x.id
  <2>2. \E x \in got : \A f \in got : f.id <= x.id
    BY <1>3, <2>1 DEF LastOf
  <2>3. c \in got /\ \A f \in got : f.id <= c.id
    BY <2>2
  <2>4. Known(w, j) = c.status
    BY <2>1 DEF Known
  <2>5. c = e
    <3>1. c \in event /\ c.id <= e.id /\ e.id <= c.id /\ c.id \in Nat /\ e.id \in Nat
      BY <1>1, <1>3, <2>1, <2>3, ActivityTypes DEF LastOf
    <3> QED
      BY <1>1, <3>1
  <2>6. e.status = agentJob[j]
    <3>1. PICK x \in event : LastOf(JobEvents(j), x) /\ x.status = agentJob[j]
      BY <1>1, <2>1 DEF StatusTold
    <3>2. x.id <= e.id /\ e.id <= x.id /\ x.id \in Nat /\ e.id \in Nat
      BY <1>3, <3>1, ActivityTypes DEF LastOf
    <3> QED
      BY <1>1, <3>1, <3>2
  <2> QED
    BY <2>4, <2>5, <2>6
<1>4. \A e \in event : ~(e.id > watcher[w].cursor)
  BY ActivityTypes DEF CaughtUp
<1> QED
  BY <1>1, <1>2, <1>3, <1>4 DEF JobWatched

\* activity_service and routers/agent: in whatever order transactions commit, a
\* client that has got everything knows of every job what a fresh snapshot would
\* show, whatever was committed between the two reads of its snapshot and between
\* two polls and however small the batches are; excepted are the jobs whose last
\* events became visible behind its cursor.
THEOREM WatchersAreUpToDate ==
    ActivityInit /\ [][ActivityNext]_activityVars => []WatcherIsUpToDate
<1>1. ActivityInv => WatcherIsUpToDate
  <2> SUFFICES ASSUME ActivityInv, NEW w \in Watchers, CaughtUp(w)
               PROVE  /\ \A j \in AgentJobs \ passed[w] :
                            UnderWay(Known(w, j)) <=> UnderWay(agentJob[j])
                      /\ passed[w] = {} =>
                            \A proposed \in {0, 1} :
                               character_state([j \in AgentJobs |-> Known(w, j)],
                                               proposed) =
                               character_state(agentJob, proposed)
    BY DEF WatcherIsUpToDate, ActivityInv
  <2>1. \A j \in AgentJobs \ passed[w] : UnderWay(Known(w, j)) <=> UnderWay(agentJob[j])
    BY KnownIsBusy
  <2>2. ASSUME passed[w] = {}, NEW proposed \in {0, 1}
        PROVE  character_state([j \in AgentJobs |-> Known(w, j)], proposed) =
               character_state(agentJob, proposed)
    BY <2>1, <2>2 DEF character_state, UnderWay
  <2> QED
    BY <2>1, <2>2
<1> QED
  BY <1>1, InitActivity, NextActivity, PTL

----------------------------------------------------------------------------
(* The review of a plan and its revision.                                  *)

RevisionInv ==
    /\ planRevision \in Nat /\ reviewed.rev \in Nat
    /\ reviewed.rev <= planRevision
    /\ ReviewSawCurrentSteps

LEMMA InitRevision == ConditionsInit => RevisionInv
BY DEF ConditionsInit, RevisionInv, ReviewSawCurrentSteps

LEMMA NextRevision == RevisionInv /\ [ConditionsNext]_conditionVars => RevisionInv'
<1> SUFFICES ASSUME RevisionInv, [ConditionsNext]_conditionVars PROVE RevisionInv'
  OBVIOUS
<1> USE DEF RevisionInv, ReviewSawCurrentSteps
<1>1. ASSUME NEW fee \in Fee, SaveTurn(fee) PROVE RevisionInv'
  BY <1>1 DEF SaveTurn
<1>2. ASSUME NEW fee \in Fee, GenerateTurn(fee) PROVE RevisionInv'
  BY <1>2 DEF GenerateTurn
<1>3. ASSUME NEW fee \in Fee, UpdateAmount(fee) PROVE RevisionInv'
  <2>1. CASE fee = amount
    BY <1>3, <2>1 DEF UpdateAmount
  <2>2. CASE fee # amount
    <3>1. planRevision' = planRevision + 1 /\ reviewed' = reviewed
      BY <1>3, <2>2 DEF UpdateAmount
    <3> QED
      BY <3>1
  <2> QED
    BY <2>1, <2>2
<1>4. CASE ReplaceSteps
  BY <1>4 DEF ReplaceSteps
<1>5. CASE ReviewPlan
  BY <1>5 DEF ReviewPlan
<1>6. CASE UNCHANGED conditionVars
  BY <1>6 DEF conditionVars
<1> QED
  BY <1>1, <1>2, <1>3, <1>4, <1>5, <1>6 DEF ConditionsNext

----------------------------------------------------------------------------
(* The planning agent.  A turn works on a copy, so everything that is to   *)
(* hold of the stored state must hold of the copy after every tool call.   *)

\* The last deferral is about the offer as it stands: that is why a new offer,
\* which is made only for other conditions, cannot meet it.
KeepsItsWord(now) ==
    /\ now \in Kept
    /\ now.made => now.gen.preview.request # 0
    /\ now.gen.preview.accepted = now.gen.preview.basis
    /\ now.refused = now.gen.fields
    /\ now.refused # {} => now.gen.pending
    /\ now.declined.latest \subseteq {now.gen.offer.basis}
    /\ now.declined.latest # {} => now.gen.offer.status = "deferred"

\* A response is one model call and has at least one tool call, of which the
\* first is run: tools are offered only below the limit.
CallsAreCounted ==
    \/ turn.models <= turn.count
    \/ /\ turn.at = "TOOLS" /\ turn.count < MaxToolCalls
       /\ turn.models = turn.count + 1

AgentInv ==
    /\ requests \in 0 .. MaxTurns
    /\ turn \in Turn
    /\ KeepsItsWord(kept) /\ KeepsItsWord(turn.now)
    /\ turn.at # "IDLE" => turn.id # 0
    /\ turn.at = "TOOLS" => turn.left > 0
    /\ CallsAreCounted

LEMMA EmptyKeepsItsWord == KeepsItsWord(Empty)
<1>1. NoDraft \in Draft
  BY DEF NoDraft, Draft
<1>2. NoOffer \in Offer /\ NoPreview \in Preview
  BY <1>1 DEF NoOffer, Offer, NoPreview, Preview
<1>3. Empty.gen \in Generation /\ Empty.draft \in Draft
  BY <1>1, <1>2 DEF Empty, Generation
<1>4. Empty \in Kept
  BY <1>1, <1>2 DEF Empty, Kept, Generation, PutOff, NonePutOff
<1> QED
  BY <1>4 DEF KeepsItsWord, Empty, NoPreview, NonePutOff

LEMMA RestIsATurn ==
    /\ Rest \in Turn /\ Rest.at = "IDLE" /\ Rest.now = Empty
    /\ Rest.models = 0 /\ Rest.count = 0
<1>1. 0 \in 0 .. MaxPerResponse /\ 0 \in 0 .. MaxToolCalls
  BY AgentAssumption
<1> QED
  BY <1>1, EmptyKeepsItsWord DEF Rest, Turn, KeepsItsWord

LEMMA InitAgent == AgentInit => AgentInv
BY EmptyKeepsItsWord, RestIsATurn, AgentAssumption
   DEF AgentInit, AgentInv, CallsAreCounted

\* One more message in the history changes nothing that was agreed on.
LEMMA MessageKeepsTheWord ==
    ASSUME NEW now, KeepsItsWord(now)
    PROVE  KeepsItsWord([now EXCEPT !.history = @ + 1])
BY DEF KeepsItsWord, Kept

LEMMA TurnFields ==
    ASSUME NEW at, NEW id, NEW now, NEW left, NEW count, NEW models,
           NEW searched, NEW put_off, NEW t,
           t = [at |-> at, id |-> id, now |-> now, left |-> left, count |-> count,
                models |-> models, searched |-> searched, put_off |-> put_off]
    PROVE  /\ t.now = now /\ t.id = id /\ t.left = left
           /\ t.at = at /\ t.count = count /\ t.models = models
OBVIOUS

\* A tool call has run, with any result that keeps the word.
RanWith(now, ok, searched, put_off) ==
    [ran(now, ok) EXCEPT !.searched = searched, !.put_off = put_off]

LEMMA RanKeeps ==
    ASSUME AgentInv, turn.at = "TOOLS", NEW now, KeepsItsWord(now), NEW ok,
           NEW searched \in BOOLEAN, NEW put_off \in BOOLEAN,
           turn' = RanWith(now, ok, searched, put_off),
           UNCHANGED <<kept, requests>>
    PROVE  AgentInv'
<1> DEFINE next == [now EXCEPT !.history = @ + 1]
           at == IF turn.left = 1 THEN "AGENT" ELSE "TOOLS"
<1>1. /\ turn \in Turn /\ turn.left > 0 /\ turn.id # 0 /\ CallsAreCounted
      /\ turn.left \in Nat /\ turn.left <= MaxPerResponse
      /\ turn.count \in Nat /\ turn.count <= MaxToolCalls /\ turn.models \in Nat
      /\ turn.id \in Nat
  BY AgentAssumption DEF AgentInv, Turn
<1>2. KeepsItsWord(next) /\ next \in Kept
  BY MessageKeepsTheWord DEF KeepsItsWord
<1>3. turn' = [at |-> at, id |-> turn.id, now |-> next, left |-> turn.left - 1,
               count |-> counted(ok), models |-> turn.models,
               searched |-> searched, put_off |-> put_off]
  BY <1>1 DEF ran, RanWith, Turn
<1>4. counted(ok) = IF turn.count < MaxToolCalls THEN turn.count + 1 ELSE turn.count
  BY DEF counted, running
<1>5. turn.left - 1 \in 0 .. MaxPerResponse /\ counted(ok) \in 0 .. MaxToolCalls
  BY <1>1, <1>4, AgentAssumption
<1>6. turn' \in Turn
  BY <1>1, <1>2, <1>3, <1>5 DEF Turn
<1>7. /\ turn'.now = next /\ turn'.id = turn.id /\ turn'.left = turn.left - 1
      /\ turn'.at = at /\ turn'.count = counted(ok) /\ turn'.models = turn.models
  <2>1. \A t : t = [at |-> at, id |-> turn.id, now |-> next, left |-> turn.left - 1,
                   count |-> counted(ok), models |-> turn.models,
                   searched |-> searched, put_off |-> put_off] =>
             /\ t.now = next /\ t.id = turn.id /\ t.left = turn.left - 1
             /\ t.at = at /\ t.count = counted(ok) /\ t.models = turn.models
    BY TurnFields
  <2> QED
    BY <1>3, <2>1
<1>8. CallsAreCounted'
  BY <1>1, <1>4, <1>7, AgentAssumption DEF CallsAreCounted
<1>9. turn'.at = "TOOLS" => turn'.left > 0
  BY <1>1, <1>7
<1> QED
  BY <1>1, <1>2, <1>6, <1>7, <1>8, <1>9 DEF AgentInv

\* The same when no search ran and nothing was put off by the call.
LEMMA RanPlainlyKeeps ==
    ASSUME AgentInv, turn.at = "TOOLS", NEW now, KeepsItsWord(now), NEW ok,
           turn' = ran(now, ok), UNCHANGED <<kept, requests>>
    PROVE  AgentInv'
<1>1. /\ turn \in Turn /\ turn.searched \in BOOLEAN /\ turn.put_off \in BOOLEAN
  BY DEF AgentInv, Turn
<1>2. ran(now, ok) = RanWith(now, ok, turn.searched, turn.put_off)
  BY <1>1 DEF ran, RanWith, Turn
<1> QED
  BY <1>1, <1>2, RanKeeps

LEMMA AskKeeps ==
    ASSUME AgentInv, NEW n \in 1 .. MaxPerResponse, ask_tools(n)
    PROVE  AgentInv'
<1> DEFINE next == [turn.now EXCEPT !.history = @ + 1]
<1>1. /\ turn \in Turn /\ turn.count \in Nat /\ turn.models \in Nat
      /\ turn.count < MaxToolCalls /\ turn.at = "AGENT" /\ turn.id # 0
      /\ turn.models <= turn.count
  BY AgentAssumption
     DEF AgentInv, Turn, ask_tools, allow_tools, CallsAreCounted
<1>2. KeepsItsWord(next) /\ next \in Kept
  BY MessageKeepsTheWord DEF AgentInv, KeepsItsWord
<1>3. turn' = [at |-> "TOOLS", id |-> turn.id, now |-> next, left |-> n,
               count |-> turn.count, models |-> turn.models + 1,
               searched |-> FALSE, put_off |-> FALSE]
  BY <1>1 DEF ask_tools, Turn
<1>4. n \in 0 .. MaxPerResponse /\ n > 0
  BY AgentAssumption
<1>5. turn' \in Turn
  BY <1>1, <1>2, <1>3, <1>4 DEF Turn
<1>6. CallsAreCounted'
  BY <1>1, <1>3, AgentAssumption DEF CallsAreCounted
<1> QED
  BY <1>1, <1>2, <1>3, <1>4, <1>5, <1>6 DEF AgentInv, ask_tools

LEMMA BeginTurnKeeps == AgentInv /\ begin_chat => AgentInv'
<1> SUFFICES ASSUME AgentInv, begin_chat PROVE AgentInv'
  OBVIOUS
<1> DEFINE next == [kept EXCEPT !.history = @ + 1]
<1>1. requests \in Nat /\ requests < MaxTurns /\ requests' = requests + 1
  BY AgentAssumption DEF AgentInv, begin_chat
<1>2. KeepsItsWord(next) /\ next \in Kept
  BY MessageKeepsTheWord DEF AgentInv, KeepsItsWord
<1>3. turn' = [at |-> "AGENT", id |-> requests + 1, now |-> next, left |-> 0,
               count |-> 0, models |-> 0, searched |-> FALSE, put_off |-> FALSE]
  BY DEF begin_chat, Rest
<1>4. 0 \in 0 .. MaxPerResponse /\ 0 \in 0 .. MaxToolCalls
  BY AgentAssumption
<1>5. turn' \in Turn
  BY <1>1, <1>2, <1>3, <1>4 DEF Turn
<1>6. CallsAreCounted'
  BY <1>3 DEF CallsAreCounted
<1> QED
  BY <1>1, <1>2, <1>3, <1>5, <1>6, AgentAssumption DEF AgentInv, begin_chat

\* A turn that ends leaves its copy, or nothing.
LEMMA EndTurnKeeps == AgentInv /\ (answer \/ turn_fails) => AgentInv'
<1> SUFFICES ASSUME AgentInv, answer \/ turn_fails PROVE AgentInv'
  OBVIOUS
<1>1. KeepsItsWord([turn.now EXCEPT !.history = @ + 1])
  BY MessageKeepsTheWord DEF AgentInv
<1>2. turn' = Rest /\ requests' = requests /\ KeepsItsWord(kept)'
  BY <1>1 DEF AgentInv, answer, turn_fails
<1> QED
  BY <1>2, EmptyKeepsItsWord, RestIsATurn DEF AgentInv, CallsAreCounted

\* A change that is asked for is one of them also when what ran before it made
\* it invalid.
LEMMA ChangesAreAskedFor ==
    ASSUME NEW c \in Changes, NEW valid \in BOOLEAN
    PROVE  [c EXCEPT !.valid = valid] \in AskedChange
<1>1. c \in AskedChange
  BY DEF Changes
<1> QED
  BY <1>1 DEF AskedChange

\* The stored state with some of its columns replaced.
KeptRow(now, d, gen, refused, declined) ==
    [draft |-> d, gen |-> gen, history |-> now.history, refused |-> refused,
     declined |-> declined, made |-> now.made]

Replaced(now, d, gen, refused, declined) ==
    [now EXCEPT !.draft = d, !.gen = gen, !.refused = refused, !.declined = declined]

LEMMA ReplacedColumns ==
    ASSUME NEW now \in Kept, NEW d, NEW gen, NEW refused, NEW declined
    PROVE  Replaced(now, d, gen, refused, declined)
             = KeptRow(now, d, gen, refused, declined)
<1>1. [now EXCEPT !.draft = d] = KeptRow(now, d, now.gen, now.refused, now.declined)
  BY DEF Kept, KeptRow
<1>2. [KeptRow(now, d, now.gen, now.refused, now.declined) EXCEPT !.gen = gen]
        = KeptRow(now, d, gen, now.refused, now.declined)
  BY DEF KeptRow
<1>3. [KeptRow(now, d, gen, now.refused, now.declined) EXCEPT !.refused = refused]
        = KeptRow(now, d, gen, refused, now.declined)
  BY DEF KeptRow
<1>4. [KeptRow(now, d, gen, refused, now.declined) EXCEPT !.declined = declined]
        = KeptRow(now, d, gen, refused, declined)
  BY DEF KeptRow
<1> QED
  BY <1>1, <1>2, <1>3, <1>4 DEF Replaced

\* The same for an offer, which touches no draft and no refused change.
LEMMA ReplacedOffer ==
    ASSUME NEW now \in Kept, NEW gen, NEW declined
    PROVE  [now EXCEPT !.gen = gen, !.declined = declined]
             = KeptRow(now, now.draft, gen, now.refused, declined)
<1>1. [now EXCEPT !.gen = gen] = KeptRow(now, now.draft, gen, now.refused, now.declined)
  BY DEF Kept, KeptRow
<1>2. [KeptRow(now, now.draft, gen, now.refused, now.declined)
         EXCEPT !.declined = declined]
        = KeptRow(now, now.draft, gen, now.refused, declined)
  BY DEF KeptRow
<1> QED
  BY <1>1, <1>2

LEMMA UpdatedDraft ==
    ASSUME NEW d \in Draft, NEW change \in AskedChange
    PROVE  update_event_conditions(d, change) \in Draft
<1> DEFINE set == IF change.event_type = "keep" THEN d.event_type
                  ELSE change.event_type = "set"
           count == IF change.headcount = "keep" THEN d.headcount
                    ELSE IF change.headcount = "set" THEN 1 ELSE 0
           off == \/ change.defer
                  \/ d.deferred /\ ~change.resume /\ change.headcount # "set"
<1>1. CASE ~applies(change)
  BY <1>1 DEF update_event_conditions
<1>2. CASE applies(change)
  <2>1. set \in BOOLEAN /\ count \in 0 .. 1 /\ off \in BOOLEAN
    <3>1. d.event_type \in BOOLEAN /\ d.headcount \in 0 .. 1 /\ d.deferred \in BOOLEAN
      BY DEF Draft
    <3>2. change.defer \in BOOLEAN
      BY DEF AskedChange
    <3>3. set \in BOOLEAN
      BY <3>1
    <3>4. count \in 0 .. 1
      BY <3>1
    <3>5. off \in BOOLEAN
      BY <3>1, <3>2, Zenon
    <3> QED
      BY <3>3, <3>4, <3>5
  <2>2. update_event_conditions(d, change)
          = [event_type |-> set, headcount |-> count, deferred |-> off]
    BY <1>2, Zenon DEF update_event_conditions
  <2> HIDE DEF set, count, off
  <2> QED
    BY <2>1, <2>2 DEF Draft
<1> QED
  BY <1>1, <1>2

\* A refused change is remembered with its field, and blocks generation.
LEMMA ChangedGeneration ==
    ASSUME NEW gen \in Generation, NEW change,
           gen.fields # {} => gen.pending
    PROVE  LET new == condition_generation_state(gen, change) IN
           /\ new \in Generation
           /\ new.offer = gen.offer /\ new.preview = gen.preview
           /\ new.fields = IF applies(change) THEN gen.fields \ named(change)
                                           ELSE gen.fields \cup named(change)
           /\ new.fields # {} => new.pending
<1> DEFINE fields == IF applies(change) THEN gen.fields \ named(change)
                                     ELSE gen.fields \cup named(change)
           pending == \/ ~applies(change)
                      \/ fields # {}
                      \/ gen.pending /\ gen.fields = {}
<1>1. named(change) \subseteq Fields /\ gen.fields \subseteq Fields
  BY DEF named, Generation
<1>2. fields \in SUBSET Fields /\ pending \in BOOLEAN
  BY <1>1
<1>3. condition_generation_state(gen, change) =
        [offer |-> gen.offer, preview |-> gen.preview, pending |-> pending,
         fields |-> fields]
  <2>1. condition_generation_state(gen, change) =
          [gen EXCEPT !.fields = fields, !.pending = pending]
    BY Zenon DEF condition_generation_state
  <2> HIDE DEF fields, pending
  <2> QED
    BY <2>1 DEF Generation
<1> HIDE DEF fields, pending
<1>4. fields # {} => pending
  BY DEF pending
<1>5. condition_generation_state(gen, change) \in Generation
  BY <1>2, <1>3 DEF Generation
<1> QED
  BY <1>3, <1>4, <1>5 DEF fields

LEMMA ChangeKeepsTheWord ==
    ASSUME NEW now, KeepsItsWord(now), NEW change \in AskedChange,
           NEW follows \in BOOLEAN,
           follows => now.gen.offer.status = "deferred"
    PROVE  LET d == update_event_conditions(now.draft, change)
               gen == condition_generation_state(now.gen, change)
           IN  KeepsItsWord([now EXCEPT
                      !.draft = d,
                      !.gen = IF follows THEN rebased(gen, d) ELSE gen,
                      !.refused = IF applies(change) THEN @ \ named(change)
                                                  ELSE @ \cup named(change),
                      !.declined = IF follows
                                     THEN [latest |-> {d},
                                           ever |-> (@.ever \ @.latest) \cup {d}]
                                     ELSE @])
<1> DEFINE d == update_event_conditions(now.draft, change)
           gen == condition_generation_state(now.gen, change)
           next == IF follows THEN rebased(gen, d) ELSE gen
           refused == IF applies(change) THEN now.refused \ named(change)
                                      ELSE now.refused \cup named(change)
           declined == IF follows
                         THEN [latest |-> {d},
                               ever |-> (now.declined.ever \ now.declined.latest)
                                          \cup {d}]
                         ELSE now.declined
           new == [draft |-> d, gen |-> next, history |-> now.history,
                   refused |-> refused, declined |-> declined, made |-> now.made]
<1>1. /\ now \in Kept /\ now.draft \in Draft /\ now.gen \in Generation
      /\ now.refused = now.gen.fields
      /\ now.gen.fields # {} => now.gen.pending
  BY DEF KeepsItsWord, Kept
<1>2. d \in Draft
  BY <1>1, UpdatedDraft
<1>3. /\ gen \in Generation
      /\ gen.offer = now.gen.offer /\ gen.preview = now.gen.preview
      /\ gen.fields = refused /\ (gen.fields # {} => gen.pending)
  BY <1>1, ChangedGeneration
<1>4. [now EXCEPT !.draft = d, !.gen = next, !.refused = refused,
                  !.declined = declined] = new
  <2> HIDE DEF d, next, refused, declined
  <2>1. Replaced(now, d, next, refused, declined)
          = KeptRow(now, d, next, refused, declined)
    BY <1>1, ReplacedColumns
  <2>2. KeptRow(now, d, next, refused, declined) = new
    BY DEF KeptRow
  <2> HIDE DEF new
  <2> QED
    BY <2>1, <2>2, Zenon DEF Replaced
<1> HIDE DEF d, gen
<1>5. /\ next \in Generation /\ next.preview = now.gen.preview
      /\ next.offer.status = now.gen.offer.status
      /\ next.offer.basis = IF follows THEN d ELSE now.gen.offer.basis
      /\ next.fields = refused /\ next.pending = gen.pending
  <2>1. CASE ~follows
    BY <1>3, <2>1
  <2>2. CASE follows
    <3>1. /\ gen.offer \in Offer
          /\ gen = [offer |-> gen.offer, preview |-> gen.preview,
                    pending |-> gen.pending, fields |-> gen.fields]
      BY <1>3 DEF Generation
    <3>2. next = [offer |-> [status |-> gen.offer.status, basis |-> d],
                  preview |-> gen.preview, pending |-> gen.pending,
                  fields |-> gen.fields]
      BY <1>3, <2>2, <3>1 DEF rebased, Generation, Offer
    <3>3. next \in Generation
      BY <1>2, <1>3, <3>1, <3>2 DEF Generation, Offer
    <3> QED
      BY <1>3, <2>2, <3>2, <3>3
  <2> QED
    BY <2>1, <2>2
<1>6. /\ declined \in PutOff
      /\ declined.latest \subseteq {next.offer.basis}
      /\ declined.latest # {} => next.offer.status = "deferred"
  <2>1. /\ now.declined \in PutOff
        /\ now.declined.latest \subseteq {now.gen.offer.basis}
        /\ now.declined.latest # {} => now.gen.offer.status = "deferred"
    BY DEF KeepsItsWord, Kept
  <2>2. CASE follows
    BY <1>2, <1>5, <2>1, <2>2 DEF PutOff
  <2>3. CASE ~follows
    BY <1>5, <2>1, <2>3
  <2> QED
    BY <2>2, <2>3
<1>7. refused \subseteq Fields
  BY <1>3 DEF Generation
<1> HIDE DEF next, refused, declined
<1>8. new \in Kept
  BY <1>1, <1>2, <1>5, <1>6, <1>7 DEF Kept
<1>9. KeepsItsWord(new)
  BY <1>3, <1>5, <1>6, <1>8 DEF KeepsItsWord
<1> QED
  BY <1>4, <1>9 DEF d, gen, next, refused, declined

LEMMA ConditionsKeep ==
    ASSUME AgentInv, NEW asked \in Changes, tool_conditions(asked)
    PROVE  AgentInv'
<1> DEFINE change == [asked EXCEPT !.valid = @ /\ ~turn.searched /\ running]
           now == turn.now
           d == update_event_conditions(now.draft, change)
           gen == condition_generation_state(now.gen, change)
           follows == /\ turn.put_off /\ gen.offer.status = "deferred"
                      /\ applies(change) /\ d # now.draft
           new == [now EXCEPT
                      !.draft = d,
                      !.gen = IF follows THEN rebased(gen, d) ELSE gen,
                      !.refused = IF applies(change) THEN @ \ named(change)
                                                  ELSE @ \cup named(change),
                      !.declined = IF follows
                                     THEN [latest |-> {d},
                                           ever |-> (@.ever \ @.latest) \cup {d}]
                                     ELSE @]
<1>1. change \in AskedChange
  <2>1. (asked.valid /\ ~turn.searched /\ running) \in BOOLEAN
    OBVIOUS
  <2> QED
    BY <2>1, ChangesAreAskedFor, Zenon
<1>2. KeepsItsWord(now) /\ now.gen \in Generation
      /\ (now.gen.fields # {} => now.gen.pending)
  BY DEF AgentInv, KeepsItsWord, Kept
<1>3. turn.at = "TOOLS" /\ turn' = ran(new, applies(change))
      /\ UNCHANGED <<kept, requests>>
  BY DEF tool_conditions
<1> HIDE DEF change
<1>4. gen.offer = now.gen.offer
  BY <1>2, ChangedGeneration
<1>5. follows \in BOOLEAN /\ (follows => now.gen.offer.status = "deferred")
  BY <1>4
<1> HIDE DEF follows
<1>6. KeepsItsWord(new)
  BY <1>1, <1>2, <1>5, ChangeKeepsTheWord
<1> QED
  BY <1>3, <1>6, RanPlainlyKeeps

\* An offer, made or put off, for the conditions as they are now.
LEMMA OfferKeepsTheWord ==
    ASSUME NEW now, KeepsItsWord(now), NEW status \in {"pending", "deferred"},
           NEW declined \in PutOff, declined.latest \subseteq {now.draft},
           declined.latest # {} => status = "deferred"
    PROVE  KeepsItsWord([now EXCEPT !.gen.offer = [status |-> status,
                                                   basis |-> now.draft],
                                    !.declined = declined])
<1> DEFINE offer == [status |-> status, basis |-> now.draft]
           gen == [offer |-> offer, preview |-> now.gen.preview,
                   pending |-> now.gen.pending, fields |-> now.gen.fields]
           new == [draft |-> now.draft, gen |-> gen, history |-> now.history,
                   refused |-> now.refused, declined |-> declined,
                   made |-> now.made]
<1>1. now \in Kept /\ now.draft \in Draft /\ now.gen \in Generation
  BY DEF KeepsItsWord, Kept
<1>2. [now EXCEPT !.gen.offer = offer, !.declined = declined] = new
  <2> HIDE DEF offer
  <2>1. [now.gen EXCEPT !.offer = offer] = gen
    BY <1>1 DEF Generation
  <2>2. [now EXCEPT !.gen = gen, !.declined = declined] = new
    <3> HIDE DEF gen
    <3> QED
      BY <1>1, ReplacedOffer DEF KeptRow
  <2>3. [now EXCEPT !.gen.offer = offer, !.declined = declined]
          = [now EXCEPT !.gen = [now.gen EXCEPT !.offer = offer],
                        !.declined = declined]
    BY <1>1 DEF Kept
  <2> QED
    BY <2>1, <2>2, <2>3
<1>3. offer \in Offer
  BY <1>1 DEF Offer
<1>4. gen \in Generation
  BY <1>1, <1>3 DEF Generation
<1>5. new \in Kept
  BY <1>1, <1>4 DEF Kept
<1>6. KeepsItsWord(new)
  BY <1>5 DEF KeepsItsWord
<1> QED
  BY <1>2, <1>6

LEMMA OfferKeeps == ASSUME AgentInv, tool_offer PROVE AgentInv'
<1> DEFINE now == turn.now
           gen == now.gen
           made == /\ ready(now.draft, gen, FALSE)
                   /\ gen.offer.status # "none" =>
                        ~same_basis(gen.offer.basis, now.draft)
                   /\ gen.preview.request # 0 =>
                        ~same_basis(gen.preview.basis, now.draft)
           declined == [now.declined EXCEPT !.latest = @ \cap {now.draft}]
           offered == [now EXCEPT !.gen.offer = [status |-> "pending",
                                                 basis |-> now.draft],
                                  !.declined = declined]
<1>1. /\ turn.at = "TOOLS"
      /\ turn' = ran(IF made
                       THEN [now EXCEPT !.gen.offer = [status |-> "pending",
                                                       basis |-> now.draft],
                                        !.declined.latest = @ \cap {now.draft}]
                       ELSE now, made)
      /\ UNCHANGED <<kept, requests>>
  BY DEF tool_offer, running
<1>2. KeepsItsWord(now) /\ now \in Kept
  BY DEF AgentInv, KeepsItsWord
<1> SUFFICES ASSUME NEW ok, ok = made PROVE AgentInv'
  OBVIOUS
<1>3. CASE ~made
  BY <1>1, <1>2, <1>3, RanPlainlyKeeps
<1>4. CASE made
  \* An offer that was put off stands for other conditions than these.
  <2>1. declined.latest = {} /\ declined \in PutOff
    <3>1. now.declined.latest # {} => gen.offer.status = "deferred"
      BY <1>2 DEF KeepsItsWord
    <3>2. now.declined.latest \subseteq {gen.offer.basis}
      BY <1>2 DEF KeepsItsWord
    <3>3. gen.offer.status # "none" => gen.offer.basis # now.draft
      BY <1>4 DEF same_basis
    <3>4. now.declined \in PutOff
      BY <1>2 DEF Kept
    <3>5. /\ declined = [latest |-> now.declined.latest \cap {now.draft},
                         ever |-> now.declined.ever]
          /\ now.declined.latest \cap {now.draft} = {}
      BY <3>1, <3>2, <3>3, <3>4 DEF PutOff
    <3> QED
      BY <3>4, <3>5 DEF PutOff
  <2>2. /\ declined.latest \subseteq {now.draft}
        /\ declined.latest # {} => "pending" = "deferred"
    BY <2>1
  <2>3. KeepsItsWord(offered)
    BY <1>2, <2>1, <2>2, OfferKeepsTheWord
  <2>4. turn' = ran(offered, made)
    <3>1. [now EXCEPT !.gen.offer = [status |-> "pending", basis |-> now.draft],
                      !.declined.latest = @ \cap {now.draft}] = offered
      BY <1>2 DEF Kept
    <3> QED
      BY <1>1, <1>4, <3>1
  <2> HIDE DEF offered, made
  <2> QED
    BY <1>1, <2>3, <2>4, RanPlainlyKeeps
<1> QED
  BY <1>3, <1>4

LEMMA DeferKeeps ==
    ASSUME AgentInv, NEW valid \in BOOLEAN, tool_defer(valid)
    PROVE  AgentInv'
<1> DEFINE now == turn.now
           put_off == [now EXCEPT !.gen.offer = [status |-> "deferred",
                                                 basis |-> now.draft],
                                  !.declined = [latest |-> {now.draft},
                                                ever |-> @.ever \cup {now.draft}]]
           next == IF valid THEN put_off ELSE now
<1>1. /\ turn.at = "TOOLS"
      /\ turn' = [ran(next, valid) EXCEPT !.put_off = @ \/ valid]
      /\ UNCHANGED <<kept, requests>>
  BY DEF tool_defer, running
<1>2. KeepsItsWord(now) /\ turn \in Turn
  BY DEF AgentInv
<1>3. KeepsItsWord(put_off)
  <2> DEFINE declined == [latest |-> {now.draft},
                          ever |-> now.declined.ever \cup {now.draft}]
  <2>1. declined \in PutOff /\ declined.latest \subseteq {now.draft}
    BY <1>2 DEF KeepsItsWord, Kept, PutOff
  <2> QED
    BY <1>2, <2>1, OfferKeepsTheWord
<1>4. KeepsItsWord(next)
  BY <1>2, <1>3
<1> HIDE DEF next
<1> DEFINE was == turn.searched
           is == turn.put_off \/ valid
<1>5. was \in BOOLEAN /\ is \in BOOLEAN
  BY <1>2 DEF Turn
<1>6. turn' = RanWith(next, valid, was, is)
  BY <1>1, <1>2 DEF ran, RanWith, Turn
<1> HIDE DEF was, is
<1> QED
  BY <1>1, <1>4, <1>5, <1>6, RanKeeps

LEMMA ToolSearchKeeps == AgentInv /\ tool_search => AgentInv'
<1> SUFFICES ASSUME AgentInv, tool_search PROVE AgentInv'
  OBVIOUS
<1>1. /\ turn.at = "TOOLS" /\ turn' = [ran(turn.now, TRUE) EXCEPT !.searched = TRUE]
      /\ UNCHANGED <<kept, requests>>
  BY DEF tool_search, running
<1>2. KeepsItsWord(turn.now) /\ turn \in Turn /\ turn.put_off \in BOOLEAN
  BY DEF AgentInv, Turn
<1>3. turn' = RanWith(turn.now, TRUE, TRUE, turn.put_off)
  BY <1>1, <1>2 DEF ran, RanWith, Turn
<1> QED
  BY <1>1, <1>2, <1>3, RanKeeps

----------------------------------------------------------------------------
(* Generating, asked for in a chat or by the button.                       *)

\* The state with a plan in it: nothing is open any more.
Planned(now, preview) ==
    [now EXCEPT !.gen = [offer |-> NoOffer, preview |-> preview,
                         pending |-> FALSE, fields |-> {}],
                !.refused = {}, !.declined = NonePutOff, !.made = TRUE]

LEMMA PlanKeepsTheWord ==
    ASSUME NEW now, KeepsItsWord(now), NEW preview \in Preview,
           preview.request # 0, preview.accepted = preview.basis
    PROVE  KeepsItsWord(Planned(now, preview))
<1> DEFINE gen == [offer |-> NoOffer, preview |-> preview, pending |-> FALSE,
                   fields |-> {}]
           new == [draft |-> now.draft, gen |-> gen, history |-> now.history,
                   refused |-> {}, declined |-> NonePutOff, made |-> TRUE]
<1>1. now \in Kept
  BY DEF KeepsItsWord
<1>2. gen \in Generation
  BY DEF Generation, NoOffer, Offer, NoDraft, Draft
<1> HIDE DEF gen
<1>3. Planned(now, preview) = new
  <2>1. [now EXCEPT !.gen = gen] = KeptRow(now, now.draft, gen, now.refused, now.declined)
    BY <1>1 DEF Kept, KeptRow
  <2>2. [KeptRow(now, now.draft, gen, now.refused, now.declined) EXCEPT !.refused = {}]
          = KeptRow(now, now.draft, gen, {}, now.declined)
    BY DEF KeptRow
  <2>3. [KeptRow(now, now.draft, gen, {}, now.declined) EXCEPT !.declined = NonePutOff]
          = KeptRow(now, now.draft, gen, {}, NonePutOff)
    BY DEF KeptRow
  <2>4. [KeptRow(now, now.draft, gen, {}, NonePutOff) EXCEPT !.made = TRUE] = new
    <3>1. ASSUME NEW made
          PROVE  [KeptRow(now, now.draft, gen, {}, NonePutOff) EXCEPT !.made = made]
                   = [draft |-> now.draft, gen |-> gen, history |-> now.history,
                      refused |-> {}, declined |-> NonePutOff, made |-> made]
      BY DEF KeptRow
    <3> QED
      BY <3>1, Zenon
  <2>5. Planned(now, preview)
          = [now EXCEPT !.gen = gen, !.refused = {}, !.declined = NonePutOff, !.made = TRUE]
    BY Zenon DEF Planned, gen
  <2> QED
    BY <2>1, <2>2, <2>3, <2>4, <2>5
<1>4. new \in Kept
  BY <1>1, <1>2 DEF Kept, PutOff, NonePutOff
<1>5. KeepsItsWord(new)
  BY <1>4 DEF KeepsItsWord, gen, NonePutOff
<1> QED
  BY <1>3, <1>5

LEMMA GenerationKeepsTheWord ==
    ASSUME NEW now, KeepsItsWord(now), NEW id \in Nat \ {0},
           NEW source \in {"CHAT", "BUTTON"}, NEW accepted, accepted = now.draft,
           NEW use_current,
           NEW next \in generate_with_context(now, id, source, accepted, use_current)
    PROVE  KeepsItsWord(next)
<1> DEFINE old == now.gen.preview
           new == [request |-> id, source |-> source, basis |-> now.draft,
                   accepted |-> accepted]
<1>1. /\ now \in Kept /\ now.draft \in Draft /\ old \in Preview
      /\ old.accepted = old.basis
  BY DEF KeepsItsWord, Kept, Generation
<1>2. \/ next = now
      \/ old.request = id /\ next = Planned(now, old)
      \/ next = Planned(now, new)
  BY DEF generate_with_context, Planned
<1>3. new \in Preview
  BY <1>1 DEF Preview
<1>4. CASE next = now
  BY <1>4
<1>5. CASE old.request = id /\ next = Planned(now, old)
  BY <1>1, <1>5, PlanKeepsTheWord
<1>6. CASE next = Planned(now, new)
  <2>1. new.request # 0 /\ new.accepted = new.basis
    OBVIOUS
  <2> HIDE DEF new
  <2> QED
    BY <1>3, <1>6, <2>1, PlanKeepsTheWord
<1> QED
  BY <1>2, <1>4, <1>5, <1>6

LEMMA GenerateKeeps ==
    ASSUME AgentInv, NEW accepts \in BOOLEAN, NEW use_current \in BOOLEAN,
           tool_generate(accepts, use_current)
    PROVE  AgentInv'
<1> DEFINE now == turn.now
           basis == IF accepts THEN now.gen.offer.basis ELSE now.draft
<1>1. /\ turn.at = "TOOLS" /\ KeepsItsWord(now) /\ turn.id \in Nat \ {0}
      /\ UNCHANGED <<kept, requests>>
  BY DEF AgentInv, Turn, tool_generate, running
<1>2. CASE accepts /\ ~acceptable(now.gen, now.draft)
  <2>1. turn' = ran(now, FALSE)
    BY <1>2 DEF tool_generate
  <2> QED
    BY <1>1, <2>1, RanPlainlyKeeps
<1>3. CASE ~(accepts /\ ~acceptable(now.gen, now.draft))
  <2>1. basis = now.draft
    BY <1>3 DEF acceptable, same_basis
  <2>2. PICK next \in generate_with_context(now, turn.id, "CHAT", basis, use_current) :
          turn' = ran(next, TRUE)
    BY <1>3, Zenon DEF tool_generate
  <2> HIDE DEF basis
  <2>3. KeepsItsWord(next)
    BY <1>1, <2>1, <2>2, GenerationKeepsTheWord
  <2> QED
    BY <1>1, <2>2, <2>3, RanPlainlyKeeps
<1> QED
  BY <1>2, <1>3

LEMMA ButtonKeeps ==
    ASSUME AgentInv, NEW use_current \in BOOLEAN, generate_preview(use_current)
    PROVE  AgentInv'
<1>1. PICK id \in {requests + 1, kept.gen.preview.request} \ {0} :
        /\ id <= MaxTurns
        /\ requests' = IF id > requests THEN id ELSE requests
        /\ kept' \in generate_with_context(kept, id, "BUTTON", kept.draft, use_current)
  BY DEF generate_preview
<1>2. /\ requests \in Nat /\ KeepsItsWord(kept) /\ kept.gen.preview.request \in Nat
      /\ turn' = turn /\ requests <= MaxTurns
  BY AgentAssumption
     DEF AgentInv, KeepsItsWord, Kept, Generation, Preview, generate_preview
<1>3. id \in Nat \ {0}
  BY <1>1, <1>2
<1>4. requests' \in 0 .. MaxTurns
  BY <1>1, <1>2, <1>3, AgentAssumption
<1>5. KeepsItsWord(kept')
  BY <1>1, <1>2, <1>3, GenerationKeepsTheWord
<1> QED
  BY <1>2, <1>4, <1>5 DEF AgentInv, CallsAreCounted

LEMMA NextAgent == AgentInv /\ [AgentNext]_agentVars => AgentInv'
<1> SUFFICES ASSUME AgentInv, [AgentNext]_agentVars PROVE AgentInv'
  OBVIOUS
<1>1. CASE UNCHANGED agentVars
  BY <1>1 DEF agentVars, AgentInv, CallsAreCounted
<1>2. CASE tool_refused
  <2>1. KeepsItsWord(turn.now)
    BY DEF AgentInv
  <2> QED
    BY <1>2, <2>1, RanPlainlyKeeps DEF tool_refused
<1>3. ASSUME NEW n \in 1 .. MaxPerResponse, ask_tools(n) PROVE AgentInv'
  BY <1>3, AskKeeps
<1>4. ASSUME NEW change \in Changes, tool_conditions(change) PROVE AgentInv'
  BY <1>4, ConditionsKeep
<1>5. ASSUME NEW valid \in BOOLEAN, tool_defer(valid) PROVE AgentInv'
  BY <1>5, DeferKeeps
<1>6. ASSUME NEW accepts \in BOOLEAN, NEW use_current \in BOOLEAN,
             tool_generate(accepts, use_current)
      PROVE  AgentInv'
  BY <1>6, GenerateKeeps
<1>7. ASSUME NEW use_current \in BOOLEAN, generate_preview(use_current) PROVE AgentInv'
  BY <1>7, ButtonKeeps
<1>8. CASE begin_chat \/ answer \/ turn_fails
  BY <1>8, BeginTurnKeeps, EndTurnKeeps
<1>9. CASE tool_search \/ tool_offer
  BY <1>9, ToolSearchKeeps, OfferKeeps
<1> QED
  BY <1>1, <1>2, <1>3, <1>4, <1>5, <1>6, <1>7, <1>8, <1>9 DEF AgentNext

LEMMA AgentInvSuffices == AgentInv => AgentKeepsItsWord
<1> SUFFICES ASSUME AgentInv PROVE AgentKeepsItsWord
  OBVIOUS
<1>1. AgentTypeOK
  BY DEF AgentInv, AgentTypeOK, KeepsItsWord
<1>2. PreviewIsKept /\ RefusalIsRemembered
  BY DEF AgentInv, KeepsItsWord, PreviewIsKept, RefusalIsRemembered
<1>3. DeferralIsRespected
  BY DEF AgentInv, KeepsItsWord, DeferralIsRespected
<1>4. TurnIsBounded
  BY AgentAssumption DEF AgentInv, CallsAreCounted, TurnIsBounded, Turn
<1> QED
  BY <1>1, <1>2, <1>3, <1>4 DEF AgentKeepsItsWord

----------------------------------------------------------------------------
(* The codes of a plan: those that are kept, in their order *)

\* Sequences of steps of the catalogue that have none twice.
Lines == {s \in Seq(Codes) : \A i, j \in DOMAIN s : s[i] = s[j] => i = j}

\* What is kept of the first i codes: those that are chosen, in their order.
Picked(codes, chosen, i) ==
    {x \in Seq(Codes) :
       /\ \A k \in DOMAIN x : x[k] \in chosen /\ \E j \in 1..i : codes[j] = x[k]
       /\ \A j \in 1..i : codes[j] \in chosen => \E k \in DOMAIN x : x[k] = codes[j]
       /\ \A k, l \in DOMAIN x : k < l =>
            \E a, b \in 1..i : a < b /\ codes[a] = x[k] /\ codes[b] = x[l]}

LEMMA KeepCode ==
    ASSUME NEW codes \in Seq(Codes), NEW chosen, NEW i \in 0..Len(codes), i < Len(codes),
           NEW x \in Picked(codes, chosen, i)
    PROVE  keep_code(x, codes[i + 1], chosen) \in Picked(codes, chosen, i + 1)
<1> DEFINE c == codes[i + 1]
<1>1. i + 1 \in 1..i + 1 /\ c \in Codes /\ i \in Nat /\ 1..i \subseteq 1..i + 1 /\ i + 1 \in DOMAIN codes
  OBVIOUS
<1>2. /\ x \in Seq(Codes)
      /\ \A k \in DOMAIN x : x[k] \in chosen /\ \E j \in 1..i : codes[j] = x[k]
      /\ \A j \in 1..i : codes[j] \in chosen => \E k \in DOMAIN x : x[k] = codes[j]
      /\ \A k, l \in DOMAIN x : k < l =>
            \E a, b \in 1..i : a < b /\ codes[a] = x[k] /\ codes[b] = x[l]
  BY DEF Picked
<1>3. \A j \in 1..i + 1 : j \in 1..i \/ j = i + 1
  BY <1>1
<1>4. CASE c \notin chosen
  <2>1. keep_code(x, c, chosen) = x
    BY <1>4 DEF keep_code
  <2>2. \A k \in DOMAIN x : x[k] \in chosen /\ \E j \in 1..i + 1 : codes[j] = x[k]
    BY <1>1, <1>2
  <2>3. \A j \in 1..i + 1 : codes[j] \in chosen => \E k \in DOMAIN x : x[k] = codes[j]
    BY <1>2, <1>3, <1>4
  <2>4. \A k, l \in DOMAIN x : k < l =>
            \E a, b \in 1..i + 1 : a < b /\ codes[a] = x[k] /\ codes[b] = x[l]
    BY <1>1, <1>2
  <2> QED
    BY <1>2, <2>1, <2>2, <2>3, <2>4 DEF Picked
<1>5. CASE c \in chosen
  <2> DEFINE y == Append(x, c)
             n == Len(x)
  <2>1. keep_code(x, c, chosen) = y
    BY <1>5 DEF keep_code
  <2>2. /\ y \in Seq(Codes) /\ n \in Nat /\ DOMAIN x = 1..n /\ DOMAIN y = 1..n + 1
        /\ \A k \in 1..n : y[k] = x[k]
        /\ y[n + 1] = c
    BY <1>1, <1>2
  <2> HIDE DEF y, n
  <2>3. \A k \in DOMAIN y : k \in 1..n \/ k = n + 1
    BY <2>2
  <2>4. \A k \in DOMAIN y : y[k] \in chosen /\ \E j \in 1..i + 1 : codes[j] = y[k]
    BY <1>1, <1>2, <1>5, <2>2, <2>3
  <2>5. \A j \in 1..i + 1 : codes[j] \in chosen => \E k \in DOMAIN y : y[k] = codes[j]
    <3>1. n + 1 \in DOMAIN y /\ \A k \in 1..n : k \in DOMAIN y
      BY <2>2
    <3> SUFFICES ASSUME NEW j \in 1..i + 1, codes[j] \in chosen PROVE \E k \in DOMAIN y : y[k] = codes[j]
      OBVIOUS
    <3>2. CASE j = i + 1
      BY <2>2, <3>1, <3>2
    <3>3. CASE j \in 1..i
      <4>1. PICK k \in DOMAIN x : x[k] = codes[j]
        BY <1>2, <3>3
      <4>2. k \in 1..n /\ y[k] = x[k] /\ k \in DOMAIN y
        BY <2>2, <3>1
      <4> QED
        BY <4>1, <4>2
    <3> QED
      BY <1>3, <3>2, <3>3
  <2>6. \A k, l \in DOMAIN y : k < l =>
            \E a, b \in 1..i + 1 : a < b /\ codes[a] = y[k] /\ codes[b] = y[l]
    <3> SUFFICES ASSUME NEW k \in DOMAIN y, NEW l \in DOMAIN y, k < l
                 PROVE  \E a, b \in 1..i + 1 : a < b /\ codes[a] = y[k] /\ codes[b] = y[l]
      OBVIOUS
    <3>1. k \in 1..n
      BY <2>2
    <3>2. CASE l \in 1..n
      <4>1. k \in DOMAIN x /\ l \in DOMAIN x /\ y[k] = x[k] /\ y[l] = x[l]
        BY <2>2, <3>1, <3>2
      <4>2. PICK a, b \in 1..i : a < b /\ codes[a] = x[k] /\ codes[b] = x[l]
        BY <1>2, <4>1
      <4> QED
        BY <1>1, <4>1, <4>2
    <3>3. CASE l = n + 1
      <4>1. PICK a \in 1..i : codes[a] = x[k]
        BY <1>2, <2>2, <3>1
      <4>2. a < i + 1 /\ a \in 1..i + 1
        BY <1>1
      <4> QED
        BY <1>1, <2>2, <3>1, <3>3, <4>1, <4>2
    <3> QED
      BY <2>3, <3>2, <3>3
  <2> QED
    BY <2>1, <2>2, <2>4, <2>5, <2>6 DEF Picked
<1> QED
  BY <1>4, <1>5

LEMMA CodesInPicked ==
    ASSUME NEW codes \in Seq(Codes), NEW chosen
    PROVE  codes_in(codes, chosen) \in Picked(codes, chosen, Len(codes))
<1> DEFINE n == Len(codes)
           S == Seq(Codes)
           step == [p \in (1..n) \X S |-> keep_code(p[2], codes[p[1]], chosen)]
           is(it) == it = [s \in SUBSET (DOMAIN codes) |->
                        IF s = {} THEN <<>> ELSE keep_code(it[s \ {Max(s)}], codes[Max(s)], chosen)]
           f == CHOOSE it : is(it)
           I == [i \in 0..n |-> Picked(codes, chosen, i)]
<1>1. n \in Nat /\ DOMAIN codes = 1..n
  OBVIOUS
<1>2. codes_in(codes, chosen) = f[DOMAIN codes]
  BY Zenon DEF codes_in, FoldLeft, MapThenFoldSet
<1>3. \A i \in 1..n, x \in S : keep_code(x, codes[i], chosen) \in S
  BY <1>1 DEF keep_code
<1>4. <<>> \in S
  OBVIOUS
<1> HIDE DEF S
<1>5. step \in [(1..n) \X S -> S]
  BY <1>3
<1>6. \A i \in 1..n, x \in S : step[i, x] = keep_code(x, codes[i], chosen)
  OBVIOUS
<1> HIDE DEF n, step
<1>7. FoldOn(n, S, <<>>, step)
  BY <1>1, <1>4, <1>5, FoldExists
<1>8. PICK it \in [SUBSET (1..n) -> S] :
         /\ it[{}] = <<>>
         /\ \A s \in SUBSET (1..n) : s # {} => Max(s) \in s /\ it[s] = step[Max(s), it[s \ {Max(s)}]]
  BY <1>7 DEF FoldOn
<1>9. ASSUME NEW s \in SUBSET (1..n), s # {}
      PROVE  it[s] = keep_code(it[s \ {Max(s)}], codes[Max(s)], chosen)
  <2>1. Max(s) \in 1..n /\ it[s \ {Max(s)}] \in S
    BY <1>8, <1>9
  <2> QED
    BY <1>6, <1>8, <1>9, <2>1
<1>10. is(it)
  <2>1. it = [s \in SUBSET (1..n) |-> it[s]]
    OBVIOUS
  <2>2. \A s \in SUBSET (1..n) :
           it[s] = IF s = {} THEN <<>> ELSE keep_code(it[s \ {Max(s)}], codes[Max(s)], chosen)
    BY <1>8, <1>9
  <2> QED
    BY <1>1, <2>1, <2>2
<1>11. is(f)
  <2> HIDE DEF is
  <2> QED
    BY <1>10
<1> HIDE DEF f
<1>12. f = [s \in SUBSET (1..n) |->
              IF s = {} THEN <<>> ELSE keep_code(f[s \ {Max(s)}], codes[Max(s)], chosen)]
  BY <1>1, <1>11
<1> HIDE DEF is
<1>13. /\ f[{}] = <<>>
       /\ \A s \in SUBSET (1..n) : s # {} => f[s] = keep_code(f[s \ {Max(s)}], codes[Max(s)], chosen)
  BY <1>12
<1>14. Folds(f, n, S, <<>>, step)
  <2> SUFFICES ASSUME NEW s \in SUBSET (1..n), s # {}, f[s \ {Max(s)}] \in S
               PROVE  f[s] = step[Max(s), f[s \ {Max(s)}]]
    BY <1>13 DEF Folds
  <2>1. Max(s) \in 1..n
    BY <1>8
  <2> QED
    BY <1>6, <1>13, <2>1
<1>15. Leads(I, n, S, <<>>, step)
  <2>1. <<>> \in I[0]
    <3>1. <<>> \in Picked(codes, chosen, 0)
      BY DEF Picked
    <3> QED
      BY <1>1, <3>1
  <2>2. ASSUME NEW i \in 0..n, i < n, NEW x \in I[i] \cap S
        PROVE  step[i + 1, x] \in I[i + 1]
    <3>1. i + 1 \in 1..n /\ i + 1 \in 0..n /\ i \in 0..Len(codes) /\ i < Len(codes)
      BY <1>1, <2>2 DEF n
    <3>2. x \in Picked(codes, chosen, i) /\ x \in S
      OBVIOUS
    <3>3. keep_code(x, codes[i + 1], chosen) \in Picked(codes, chosen, i + 1)
      BY <3>1, <3>2, KeepCode
    <3>4. step[i + 1, x] = keep_code(x, codes[i + 1], chosen)
      BY <1>6, <3>1, <3>2
    <3> QED
      BY <3>1, <3>3, <3>4
  <2> HIDE DEF I
  <2> QED
    BY <2>1, <2>2 DEF Leads
<1> HIDE DEF I
<1>16. f[1..n] \in I[n] \cap S
  BY <1>1, <1>4, <1>5, <1>14, <1>15, FoldReaches
<1>17. n \in 0..n
  BY <1>1
<1> QED
  BY <1>1, <1>2, <1>16, <1>17 DEF I, n

\* The place of a step in a sequence that has it once.
LEMMA PlaceIs ==
    ASSUME NEW s \in Lines, NEW c \in Range(s)
    PROVE  /\ place(s, c) \in DOMAIN s /\ s[place(s, c)] = c
           /\ \A i \in DOMAIN s : s[i] = c => place(s, c) = i
<1>1. \E i \in DOMAIN s : s[i] = c
  BY DEF Range
<1> QED
  BY <1>1 DEF place, Lines

\* Picking steps of a sequence that has each once: the chosen ones, each once,
\* and in the same order.
LEMMA CodesInKeeps ==
    ASSUME NEW codes \in Lines, NEW chosen
    PROVE  /\ codes_in(codes, chosen) \in Lines
           /\ Range(codes_in(codes, chosen)) = Range(codes) \cap chosen
           /\ \A b, c \in Range(codes) \cap chosen :
                place(codes_in(codes, chosen), b) < place(codes_in(codes, chosen), c)
                  <=> place(codes, b) < place(codes, c)
<1> DEFINE x == codes_in(codes, chosen)
           n == Len(codes)
<1>1. /\ codes \in Seq(Codes) /\ DOMAIN codes = 1..n /\ n \in Nat
      /\ \A i, j \in DOMAIN codes : codes[i] = codes[j] => i = j
  BY DEF Lines
<1>2. x \in Picked(codes, chosen, n)
  BY <1>1, CodesInPicked
<1> HIDE DEF x, n
<1>3. /\ x \in Seq(Codes)
      /\ \A k \in DOMAIN x : x[k] \in chosen /\ \E j \in 1..n : codes[j] = x[k]
      /\ \A j \in 1..n : codes[j] \in chosen => \E k \in DOMAIN x : x[k] = codes[j]
      /\ \A k, l \in DOMAIN x : k < l =>
            \E a, b \in 1..n : a < b /\ codes[a] = x[k] /\ codes[b] = x[l]
  BY <1>2 DEF Picked
<1>4. x \in Lines
  <2>1. ASSUME NEW k \in DOMAIN x, NEW l \in DOMAIN x, x[k] = x[l], k < l PROVE FALSE
    <3>1. PICK a, b \in 1..n : a < b /\ codes[a] = x[k] /\ codes[b] = x[l]
      BY <1>3, <2>1
    <3>2. a = b
      BY <1>1, <2>1, <3>1
    <3> QED
      BY <3>1, <3>2
  <2>2. \A k, l \in DOMAIN x : x[k] = x[l] => k = l
    <3> SUFFICES ASSUME NEW k \in DOMAIN x, NEW l \in DOMAIN x, x[k] = x[l], k # l PROVE FALSE
      OBVIOUS
    <3>1. k < l \/ l < k
      BY <1>3
    <3> QED
      BY <2>1, <3>1
  <2> QED
    BY <1>3, <2>2 DEF Lines
<1>5. Range(x) = Range(codes) \cap chosen
  <2>1. ASSUME NEW c \in Range(x) PROVE c \in Range(codes) \cap chosen
    <3>1. PICK k \in DOMAIN x : x[k] = c
      BY DEF Range
    <3>2. x[k] \in chosen /\ \E j \in 1..n : codes[j] = x[k]
      BY <1>3
    <3> QED
      BY <1>1, <3>1, <3>2 DEF Range
  <2>2. ASSUME NEW c \in Range(codes) \cap chosen PROVE c \in Range(x)
    <3>1. PICK j \in 1..n : codes[j] = c
      BY <1>1 DEF Range
    <3>2. \E k \in DOMAIN x : x[k] = c
      BY <1>3, <3>1
    <3> QED
      BY <3>2 DEF Range
  <2> QED
    BY <2>1, <2>2
<1>6. ASSUME NEW b \in Range(codes) \cap chosen, NEW c \in Range(codes) \cap chosen,
             place(x, b) < place(x, c)
      PROVE  place(codes, b) < place(codes, c)
  <2>1. place(x, b) \in DOMAIN x /\ place(x, c) \in DOMAIN x /\ x[place(x, b)] = b /\ x[place(x, c)] = c
    BY <1>4, <1>5, PlaceIs
  <2>2. PICK i, j \in 1..n : i < j /\ codes[i] = b /\ codes[j] = c
    <3> DEFINE k == place(x, b)
               l == place(x, c)
    <3>1. k \in DOMAIN x /\ l \in DOMAIN x /\ x[k] = b /\ x[l] = c /\ k < l
      BY <1>6, <2>1
    <3> HIDE DEF k, l
    <3>2. \E i, j \in 1..n : i < j /\ codes[i] = x[k] /\ codes[j] = x[l]
      BY <1>3, <3>1
    <3> QED
      BY <3>1, <3>2
  <2>3. place(codes, b) = i /\ place(codes, c) = j
    BY <1>1, <2>2, PlaceIs
  <2> QED
    BY <2>2, <2>3
<1>7. ASSUME NEW b \in Range(codes) \cap chosen, NEW c \in Range(codes) \cap chosen,
             place(codes, b) < place(codes, c)
      PROVE  place(x, b) < place(x, c)
  <2>1. place(x, b) \in DOMAIN x /\ place(x, c) \in DOMAIN x /\ x[place(x, b)] = b /\ x[place(x, c)] = c
    BY <1>4, <1>5, PlaceIs
  <2>2. place(codes, b) \in Nat /\ place(codes, c) \in Nat
    BY <1>1, PlaceIs
  <2>3. place(x, b) \in Nat /\ place(x, c) \in Nat
    BY <1>3, <2>1
  <2>4. CASE place(x, b) = place(x, c)
    BY <1>7, <2>1, <2>2, <2>4
  <2>5. CASE place(x, c) < place(x, b)
    <3>1. place(codes, c) < place(codes, b)
      BY <1>6, <2>5
    <3> QED
      BY <1>7, <2>2, <3>1
  <2> QED
    BY <2>3, <2>4, <2>5
<1>8. \A b, c \in Range(codes) \cap chosen : place(x, b) < place(x, c) <=> place(codes, b) < place(codes, c)
  BY <1>6, <1>7
<1> QED
  BY <1>4, <1>5, <1>8 DEF x

\* Two sequences of the same steps, each once, in which one has another place,
\* have two the other way round.
LEMMA MovedMeansSwapped ==
    ASSUME NEW u \in Lines, NEW v \in Lines, Range(u) = Range(v),
           NEW m \in Range(u), place(u, m) # place(v, m)
    PROVE  \E b, c \in Range(u) : place(u, b) < place(u, c) /\ place(v, c) < place(v, b)
<1>1. /\ u \in Seq(Codes) /\ v \in Seq(Codes)
      /\ \A i, j \in DOMAIN u : u[i] = u[j] => i = j
      /\ \A i, j \in DOMAIN v : v[i] = v[j] => i = j
  BY DEF Lines
<1> DEFINE D == {i \in DOMAIN u : i \notin DOMAIN v \/ u[i] # v[i]}
           R == {ss \in Nat \X Nat : ss[1] < ss[2]}
<1>2. D # {} /\ D \subseteq Nat
  <2>1. place(u, m) \in DOMAIN u /\ u[place(u, m)] = m /\ \A i \in DOMAIN v : v[i] = m => place(v, m) = i
    BY PlaceIs
  <2>2. place(u, m) \in D
    BY <2>1
  <2> QED
    BY <1>1, <2>2
<1>3. IsWellFoundedOn(R, Nat)
  BY NatLessThanWellFounded DEF OpToRel
<1>4. \A x, y \in Nat : x < y => <<x, y>> \in R
  OBVIOUS
<1> HIDE DEF R
<1>5. PICK i \in D : \A y \in D : ~(<<y, i>> \in R)
  <2> HIDE DEF D
  <2> QED
    BY <1>2, <1>3, WFMin
<1>6. i \in DOMAIN u /\ i \in Nat /\ (i \in DOMAIN v => u[i] # v[i])
  BY <1>1
<1>7. \A k \in DOMAIN u : k < i => k \in DOMAIN v /\ u[k] = v[k]
  <2> SUFFICES ASSUME NEW k \in DOMAIN u, k < i PROVE k \notin D
    OBVIOUS
  <2>1. k \in Nat
    BY <1>1
  <2> HIDE DEF D
  <2> QED
    BY <1>4, <1>5, <1>6, <2>1
<1> HIDE DEF D
<1> DEFINE b == u[i]
           j == place(v, b)
<1>8. b \in Range(u) /\ place(u, b) = i
  <2>1. b \in Range(u)
    BY <1>6 DEF Range
  <2> QED
    BY <1>6, <2>1, PlaceIs
<1>9. j \in DOMAIN v /\ v[j] = b
  BY <1>8, PlaceIs
<1> HIDE DEF j
<1>10. i < j
  <2>1. j \in Nat /\ j # i
    BY <1>1, <1>6, <1>9
  <2>2. CASE j < i
    <3>1. j \in DOMAIN u
      BY <1>1, <1>6, <1>9, <2>2
    <3>2. u[j] = u[i]
      BY <1>7, <1>9, <2>2, <3>1
    <3> QED
      BY <1>1, <1>6, <2>1, <3>1, <3>2
  <2> QED
    BY <1>6, <2>1, <2>2
<1>11. i \in DOMAIN v
  BY <1>1, <1>6, <1>9, <1>10
<1> DEFINE c == v[i]
           k == place(u, c)
<1>12. c \in Range(u) /\ place(v, c) = i
  <2>1. c \in Range(v)
    BY <1>11 DEF Range
  <2> QED
    BY <1>11, <2>1, PlaceIs
<1>13. k \in DOMAIN u /\ u[k] = c
  BY <1>12, PlaceIs
<1> HIDE DEF k
<1>14. i < k
  <2>1. k \in Nat /\ k # i
    BY <1>1, <1>6, <1>11, <1>13
  <2>2. CASE k < i
    <3>1. k \in DOMAIN v /\ v[k] = v[i]
      BY <1>7, <1>13, <2>2
    <3> QED
      BY <1>1, <1>11, <2>1, <3>1
  <2> QED
    BY <1>6, <2>1, <2>2
<1> HIDE DEF b, c
<1>15. place(u, b) < place(u, c) /\ place(v, c) < place(v, b)
  BY <1>8, <1>10, <1>12, <1>14 DEF j, k
<1> QED
  BY <1>8, <1>12, <1>15

\* The places of the steps of one phase, among the steps of two plans.
InPhase(s, both, p) == codes_in(codes_in(s, both), phase_codes(p))

LEMMA InPhaseKeeps ==
    ASSUME NEW s \in Lines, NEW both \in SUBSET Range(s), NEW p
    PROVE  /\ InPhase(s, both, p) \in Lines
           /\ Range(InPhase(s, both, p)) = both \cap phase_codes(p)
           /\ \A b, c \in both \cap phase_codes(p) :
                place(InPhase(s, both, p), b) < place(InPhase(s, both, p), c)
                  <=> place(s, b) < place(s, c)
<1> DEFINE x == codes_in(s, both)
           y == codes_in(x, phase_codes(p))
<1>1. /\ x \in Lines /\ Range(x) = both
      /\ \A b, c \in both : place(x, b) < place(x, c) <=> place(s, b) < place(s, c)
  <2>1. Range(s) \cap both = both
    OBVIOUS
  <2> QED
    BY <2>1, CodesInKeeps
<1> HIDE DEF x
<1>2. /\ y \in Lines /\ Range(y) = both \cap phase_codes(p)
      /\ \A b, c \in both \cap phase_codes(p) : place(y, b) < place(y, c) <=> place(x, b) < place(x, c)
  BY <1>1, CodesInKeeps
<1> HIDE DEF y
<1>3. InPhase(s, both, p) = y
  BY DEF InPhase, x, y
<1> QED
  BY <1>1, <1>2, <1>3

\* A step is reported as moved when it has another place in its phase.
LEMMA MovedIs ==
    ASSUME NEW now \in Lines, NEW old \in Lines, NEW c
    PROVE  c \in _moved_codes(now, old) <=>
             LET both == Range(now) \cap Range(old) IN
             c \in both /\ place(InPhase(now, both, BY_CODE[c]), c) # place(InPhase(old, both, BY_CODE[c]), c)
<1> DEFINE both == Range(now) \cap Range(old)
<1>1. \A d \in both : BY_CODE[d] \in Range(PhaseOrder)
  <2>1. Range(now) \subseteq Codes
    BY DEF Lines, Range
  <2> QED
    BY <2>1, DiffAssumption
<1>2. \A d \in both : /\ _phase_sequences(codes_in(now, both))[BY_CODE[d]] = InPhase(now, both, BY_CODE[d])
                      /\ _phase_sequences(codes_in(old, both))[BY_CODE[d]] = InPhase(old, both, BY_CODE[d])
  BY <1>1 DEF _phase_sequences, InPhase
<1>3. _moved_codes(now, old) =
        {d \in both : place(_phase_sequences(codes_in(now, both))[BY_CODE[d]], d)
                        # place(_phase_sequences(codes_in(old, both))[BY_CODE[d]], d)}
  BY DEF _moved_codes
<1> HIDE DEF both
<1> QED
  BY <1>2, <1>3 DEF both

\* What is reported as moved: of every two steps of a phase that changed
\* places one is, and nothing is when no two did.
LEMMA MovedIsSwapped ==
    ASSUME NEW now \in Lines, NEW old \in Lines
    PROVE  /\ _moved_codes(now, old) = {} <=> Swapped(now, old) = {}
           /\ \A pair \in Swapped(now, old) : Range(pair) \cap _moved_codes(now, old) # {}
<1> DEFINE both == Range(now) \cap Range(old)
           u(p) == InPhase(now, both, p)
           v(p) == InPhase(old, both, p)
           in(p) == both \cap phase_codes(p)
<1>1. \A p : u(p) \in Lines /\ v(p) \in Lines /\ Range(u(p)) = in(p) /\ Range(v(p)) = in(p)
  <2> SUFFICES ASSUME NEW p
               PROVE  u(p) \in Lines /\ v(p) \in Lines /\ Range(u(p)) = in(p) /\ Range(v(p)) = in(p)
    OBVIOUS
  <2>1. both \in SUBSET Range(now) /\ both \in SUBSET Range(old)
    OBVIOUS
  <2> HIDE DEF both
  <2> QED
    BY <2>1, InPhaseKeeps
<1>2. \A p : \A b, c \in in(p) : /\ place(u(p), b) < place(u(p), c) <=> place(now, b) < place(now, c)
                                 /\ place(v(p), b) < place(v(p), c) <=> place(old, b) < place(old, c)
  BY InPhaseKeeps
<1>3. \A c : c \in _moved_codes(now, old) <=>
               c \in both /\ place(u(BY_CODE[c]), c) # place(v(BY_CODE[c]), c)
  BY MovedIs
<1>4. \A p : in(p) = {c \in both : BY_CODE[c] = p}
  <2>1. both \subseteq Codes
    BY DEF Lines, Range
  <2> QED
    BY <2>1 DEF phase_codes
<1>5. Swapped(now, old) =
        {pair \in both \X both : /\ BY_CODE[pair[1]] = BY_CODE[pair[2]]
                                 /\ place(now, pair[1]) < place(now, pair[2])
                                 /\ place(old, pair[2]) < place(old, pair[1])}
  BY DEF Swapped
<1>6. \A p : \A c \in in(p) : place(u(p), c) \in Nat /\ place(v(p), c) \in Nat
  <2> SUFFICES ASSUME NEW p, NEW c \in in(p) PROVE place(u(p), c) \in Nat /\ place(v(p), c) \in Nat
    OBVIOUS
  <2> DEFINE up == u(p)
             vp == v(p)
  <2>1. up \in Lines /\ vp \in Lines /\ c \in Range(up) /\ c \in Range(vp)
    BY <1>1
  <2> HIDE DEF up, vp
  <2>2. place(up, c) \in DOMAIN up /\ place(vp, c) \in DOMAIN vp
    BY <2>1, PlaceIs
  <2>3. up \in Seq(Codes) /\ vp \in Seq(Codes)
    BY <2>1 DEF Lines
  <2>4. place(up, c) \in Nat /\ place(vp, c) \in Nat
    BY <2>2, <2>3
  <2> QED
    BY <2>4 DEF up, vp
<1> HIDE DEF both, u, v
<1>7. ASSUME NEW pair \in Swapped(now, old) PROVE Range(pair) \cap _moved_codes(now, old) # {}
  <2>1. PICK b, c \in both : /\ pair = <<b, c>> /\ BY_CODE[b] = BY_CODE[c]
                             /\ place(now, b) < place(now, c) /\ place(old, c) < place(old, b)
    BY <1>5, <1>7
  <2> DEFINE p == BY_CODE[b]
  <2>2. b \in in(p) /\ c \in in(p) /\ BY_CODE[c] = p
    BY <1>4, <2>1
  <2> HIDE DEF p
  <2>3. place(u(p), b) < place(u(p), c) /\ place(v(p), c) < place(v(p), b)
    BY <1>2, <2>1, <2>2
  <2>4. /\ place(u(p), b) \in Nat /\ place(u(p), c) \in Nat
        /\ place(v(p), b) \in Nat /\ place(v(p), c) \in Nat
    BY <1>6, <2>2
  <2>5. place(u(p), b) # place(v(p), b) \/ place(u(p), c) # place(v(p), c)
    BY <2>3, <2>4
  <2>6. b \in _moved_codes(now, old) \/ c \in _moved_codes(now, old)
    BY <1>3, <2>1, <2>2, <2>5 DEF p
  <2>7. b \in Range(pair) /\ c \in Range(pair)
    BY <2>1 DEF Range
  <2> QED
    BY <2>6, <2>7
<1>8. ASSUME NEW m \in _moved_codes(now, old) PROVE Swapped(now, old) # {}
  <2> DEFINE p == BY_CODE[m]
  <2>1. m \in both /\ place(u(p), m) # place(v(p), m)
    BY <1>3, <1>8
  <2>2. m \in in(p)
    BY <1>4, <2>1
  <2> HIDE DEF p
  <2>3. PICK b, c \in in(p) : place(u(p), b) < place(u(p), c) /\ place(v(p), c) < place(v(p), b)
    <3> DEFINE up == u(p)
               vp == v(p)
    <3>1. /\ up \in Lines /\ vp \in Lines /\ Range(up) = in(p) /\ Range(vp) = in(p)
          /\ place(up, m) # place(vp, m) /\ m \in in(p)
      BY <1>1, <2>1, <2>2
    <3> HIDE DEF up, vp, in
    <3>2. \E b, c \in in(p) : place(up, b) < place(up, c) /\ place(vp, c) < place(vp, b)
      BY <3>1, MovedMeansSwapped
    <3> QED
      BY <3>2 DEF up, vp
  <2>4. place(now, b) < place(now, c) /\ place(old, c) < place(old, b)
    BY <1>2, <2>3
  <2>5. b \in both /\ c \in both /\ BY_CODE[b] = p /\ BY_CODE[c] = p
    BY <1>4, <2>3
  <2>6. <<b, c>> \in Swapped(now, old)
    BY <1>5, <2>4, <2>5
  <2> QED
    BY <2>6
<1> QED
  BY <1>7, <1>8

----------------------------------------------------------------------------
(* The order of the phases *)

LEMMA PhasesTyped == PhaseOrder \in Seq(Range(PhaseOrder)) /\ Len(PhaseOrder) \in Nat
                     /\ DOMAIN PhaseOrder = 1..Len(PhaseOrder)
BY DiffAssumption

\* A line of the steps of the first i phases.
Phased(i) == {x \in Lines : \A k \in DOMAIN x : \E j \in 1..i : BY_CODE[x[k]] = PhaseOrder[j]}

LEMMA AddPhase ==
    ASSUME NEW codes \in Lines, NEW i \in 0..Len(PhaseOrder), i < Len(PhaseOrder), NEW x \in Phased(i)
    PROVE  add_phase(x, PhaseOrder[i + 1], codes) \in Phased(i + 1)
<1> DEFINE p == PhaseOrder[i + 1]
           y == codes_in(codes, phase_codes(p))
           z == x \o y
           m == Len(x)
           n == Len(y)
<1>1. i \in Nat /\ i + 1 \in DOMAIN PhaseOrder /\ 1..i \subseteq DOMAIN PhaseOrder
  BY PhasesTyped
<1>2. y \in Lines /\ Range(y) = Range(codes) \cap phase_codes(p)
  BY CodesInKeeps
<1>3. /\ x \in Seq(Codes) /\ \A k, l \in DOMAIN x : x[k] = x[l] => k = l
      /\ \A k \in DOMAIN x : \E j \in 1..i : BY_CODE[x[k]] = PhaseOrder[j]
  BY DEF Phased, Lines
<1> HIDE DEF y
<1>4. y \in Seq(Codes) /\ \A k, l \in DOMAIN y : y[k] = y[l] => k = l
  BY <1>2 DEF Lines
<1>5. \A k \in DOMAIN y : BY_CODE[y[k]] = p
  BY <1>2 DEF Range, phase_codes
<1>6. \A j \in 1..i : PhaseOrder[j] # p
  <2>1. \A a, b \in DOMAIN PhaseOrder : PhaseOrder[a] = PhaseOrder[b] => a = b
    BY DiffAssumption DEF IsInjective
  <2>2. \A j \in 1..i : j # i + 1
    BY <1>1
  <2> QED
    BY <1>1, <2>1, <2>2
<1>7. /\ z \in Seq(Codes) /\ m \in Nat /\ n \in Nat /\ DOMAIN x = 1..m /\ DOMAIN y = 1..n
      /\ DOMAIN z = 1..m + n
      /\ \A k \in 1..m : z[k] = x[k]
      /\ \A k \in 1..n : z[m + k] = y[k]
  BY <1>3, <1>4
<1> HIDE DEF p, z, m, n
<1>8. \A k \in DOMAIN z : k \in 1..m \/ \E l \in 1..n : k = m + l
  <2> SUFFICES ASSUME NEW k \in DOMAIN z, k \notin 1..m PROVE k - m \in 1..n /\ k = m + (k - m)
    OBVIOUS
  <2> QED
    BY <1>7
<1>9. \A k \in 1..m, l \in 1..n : x[k] # y[l]
  <2> SUFFICES ASSUME NEW k \in 1..m, NEW l \in 1..n, x[k] = y[l] PROVE FALSE
    OBVIOUS
  <2>1. PICK j \in 1..i : BY_CODE[x[k]] = PhaseOrder[j]
    BY <1>3, <1>7
  <2>2. BY_CODE[y[l]] = p
    BY <1>5, <1>7
  <2> QED
    BY <1>6, <2>1, <2>2
<1>10. \A k, l \in DOMAIN z : z[k] = z[l] => k = l
  <2> SUFFICES ASSUME NEW k \in DOMAIN z, NEW l \in DOMAIN z, z[k] = z[l] PROVE k = l
    OBVIOUS
  <2>1. CASE k \in 1..m /\ l \in 1..m
    BY <1>3, <1>7, <2>1
  <2>2. CASE k \in 1..m /\ l \notin 1..m
    <3>1. PICK b \in 1..n : l = m + b
      BY <1>8, <2>2
    <3>2. x[k] = y[b]
      BY <1>7, <2>2, <3>1
    <3> QED
      BY <1>9, <2>2, <3>1, <3>2
  <2>3. CASE k \notin 1..m /\ l \in 1..m
    <3>1. PICK a \in 1..n : k = m + a
      BY <1>8, <2>3
    <3>2. x[l] = y[a]
      BY <1>7, <2>3, <3>1
    <3> QED
      BY <1>9, <2>3, <3>1, <3>2
  <2>4. CASE k \notin 1..m /\ l \notin 1..m
    <3>1. PICK a \in 1..n, b \in 1..n : k = m + a /\ l = m + b
      BY <1>8, <2>4
    <3>2. y[a] = y[b]
      BY <1>7, <3>1
    <3> QED
      BY <1>4, <1>7, <3>1, <3>2
  <2> QED
    BY <2>1, <2>2, <2>3, <2>4
<1>11. \A k \in DOMAIN z : \E j \in 1..i + 1 : BY_CODE[z[k]] = PhaseOrder[j]
  <2> SUFFICES ASSUME NEW k \in DOMAIN z PROVE \E j \in 1..i + 1 : BY_CODE[z[k]] = PhaseOrder[j]
    OBVIOUS
  <2>1. CASE k \in 1..m
    <3>1. PICK j \in 1..i : BY_CODE[x[k]] = PhaseOrder[j]
      BY <1>3, <1>7, <2>1
    <3>2. j \in 1..i + 1
      BY <1>1
    <3> QED
      BY <1>7, <2>1, <3>1, <3>2
  <2>2. ASSUME NEW l \in 1..n, k = m + l PROVE \E j \in 1..i + 1 : BY_CODE[z[k]] = PhaseOrder[j]
    <3>1. i + 1 \in 1..i + 1
      BY <1>1
    <3>2. z[k] = y[l] /\ BY_CODE[y[l]] = p
      BY <1>5, <1>7, <2>2
    <3> QED
      BY <3>1, <3>2 DEF p
  <2> QED
    BY <1>8, <2>1, <2>2
<1>12. z \in Phased(i + 1)
  BY <1>7, <1>10, <1>11 DEF Phased, Lines
<1> QED
  BY <1>12 DEF z, y, p, add_phase

\* Sorting by phase keeps a line of steps a line.
LEMMA ByPhaseLine ==
    ASSUME NEW codes \in Lines
    PROVE  by_phase(codes) \in Lines
<1> DEFINE n == Len(PhaseOrder)
           S == Seq(Codes)
           step == [p \in (1..n) \X S |-> add_phase(p[2], PhaseOrder[p[1]], codes)]
           is(it) == it = [s \in SUBSET (DOMAIN PhaseOrder) |->
                        IF s = {} THEN <<>> ELSE add_phase(it[s \ {Max(s)}], PhaseOrder[Max(s)], codes)]
           f == CHOOSE it : is(it)
           I == [i \in 0..n |-> Phased(i)]
<1>1. n \in Nat /\ DOMAIN PhaseOrder = 1..n
  BY PhasesTyped
<1>2. by_phase(codes) = f[DOMAIN PhaseOrder]
  BY Zenon DEF by_phase, FoldLeft, MapThenFoldSet
<1>3. \A i \in 1..n, x \in S : add_phase(x, PhaseOrder[i], codes) \in S
  <2> SUFFICES ASSUME NEW i \in 1..n, NEW x \in S PROVE add_phase(x, PhaseOrder[i], codes) \in S
    OBVIOUS
  <2>1. codes_in(codes, phase_codes(PhaseOrder[i])) \in Seq(Codes)
    BY CodesInKeeps DEF Lines
  <2> QED
    BY <2>1 DEF add_phase
<1>4. <<>> \in S
  OBVIOUS
<1> HIDE DEF S
<1>5. step \in [(1..n) \X S -> S]
  BY <1>3
<1>6. \A i \in 1..n, x \in S : step[i, x] = add_phase(x, PhaseOrder[i], codes)
  OBVIOUS
<1> HIDE DEF n, step
<1>7. FoldOn(n, S, <<>>, step)
  BY <1>1, <1>4, <1>5, FoldExists
<1>8. PICK it \in [SUBSET (1..n) -> S] :
         /\ it[{}] = <<>>
         /\ \A s \in SUBSET (1..n) : s # {} => Max(s) \in s /\ it[s] = step[Max(s), it[s \ {Max(s)}]]
  BY <1>7 DEF FoldOn
<1>9. ASSUME NEW s \in SUBSET (1..n), s # {}
      PROVE  it[s] = add_phase(it[s \ {Max(s)}], PhaseOrder[Max(s)], codes)
  <2>1. Max(s) \in 1..n /\ it[s \ {Max(s)}] \in S
    BY <1>8, <1>9
  <2> QED
    BY <1>6, <1>8, <1>9, <2>1
<1>10. is(it)
  <2>1. it = [s \in SUBSET (1..n) |-> it[s]]
    OBVIOUS
  <2>2. \A s \in SUBSET (1..n) :
           it[s] = IF s = {} THEN <<>> ELSE add_phase(it[s \ {Max(s)}], PhaseOrder[Max(s)], codes)
    BY <1>8, <1>9
  <2> QED
    BY <1>1, <2>1, <2>2
<1>11. is(f)
  <2> HIDE DEF is
  <2> QED
    BY <1>10
<1> HIDE DEF f
<1>12. f = [s \in SUBSET (1..n) |->
              IF s = {} THEN <<>> ELSE add_phase(f[s \ {Max(s)}], PhaseOrder[Max(s)], codes)]
  BY <1>1, <1>11
<1> HIDE DEF is
<1>13. /\ f[{}] = <<>>
       /\ \A s \in SUBSET (1..n) : s # {} => f[s] = add_phase(f[s \ {Max(s)}], PhaseOrder[Max(s)], codes)
  BY <1>12
<1>14. Folds(f, n, S, <<>>, step)
  <2> SUFFICES ASSUME NEW s \in SUBSET (1..n), s # {}, f[s \ {Max(s)}] \in S
               PROVE  f[s] = step[Max(s), f[s \ {Max(s)}]]
    BY <1>13 DEF Folds
  <2>1. Max(s) \in 1..n
    BY <1>8
  <2> QED
    BY <1>6, <1>13, <2>1
<1>15. Leads(I, n, S, <<>>, step)
  <2>1. <<>> \in I[0]
    <3>1. <<>> \in Phased(0)
      <4>1. <<>> \in Seq(Codes) /\ DOMAIN <<>> = {}
        OBVIOUS
      <4> QED
        BY <4>1 DEF Phased, Lines
    <3> QED
      BY <1>1, <3>1
  <2>2. ASSUME NEW i \in 0..n, i < n, NEW x \in I[i] \cap S
        PROVE  step[i + 1, x] \in I[i + 1]
    <3>1. i + 1 \in 1..n /\ i + 1 \in 0..n /\ i \in 0..Len(PhaseOrder) /\ i < Len(PhaseOrder)
      BY <1>1, <2>2 DEF n
    <3>2. x \in Phased(i) /\ x \in S
      OBVIOUS
    <3>3. add_phase(x, PhaseOrder[i + 1], codes) \in Phased(i + 1)
      BY <3>1, <3>2, AddPhase
    <3>4. step[i + 1, x] = add_phase(x, PhaseOrder[i + 1], codes)
      BY <1>6, <3>1, <3>2
    <3> QED
      BY <3>1, <3>3, <3>4
  <2> HIDE DEF I
  <2> QED
    BY <2>1, <2>2 DEF Leads
<1> HIDE DEF I
<1>16. f[1..n] \in I[n] \cap S
  BY <1>1, <1>4, <1>5, <1>14, <1>15, FoldReaches
<1>17. n \in 0..n
  BY <1>1
<1> QED
  BY <1>1, <1>2, <1>16, <1>17 DEF I, Phased

\* An order that may be sent has each of its steps once.
LEMMA OrdersAreLines == Orders \subseteq Lines
<1> SUFFICES ASSUME NEW o \in Orders PROVE o \in Lines
  OBVIOUS
<1>1. PICK cs \in SUBSET Codes : \E s \in SetToSeqs(cs) : o = by_phase(s)
  BY DEF Orders
<1> PICK s \in SetToSeqs(cs) : o = by_phase(s)
  BY <1>1
<1>2. IsFiniteSet(cs)
  BY DiffAssumption, FS_Subset
<1>3. Cardinality(cs) \in Nat
  BY <1>2, FS_CardinalityType
<1>4. s \in [1..Cardinality(cs) -> cs] /\ \A i, j \in 1..Cardinality(cs) : i # j => s[i] # s[j]
  BY DEF SetToSeqs
<1>5. s \in Seq(Codes)
  BY <1>3, <1>4
<1>6. s \in Lines
  BY <1>4, <1>5 DEF Lines
<1> QED
  BY <1>6, ByPhaseLine

----------------------------------------------------------------------------
(* The plan and what its review is told *)

PlanSteps == [code : Codes, when : 0..1, actions : Seq(PlanActions)]
IsPlan(steps) == steps \in Seq(PlanSteps) /\ codes_of(steps) \in Orders \cup {<<>>}

\* The steps that are out of a plan, and who left them out.
LeftOut(steps, ai) ==
    {[code |-> c, by |-> IF c \in ai THEN "ai" ELSE "user"] : c \in Codes \ Range(codes_of(steps))}

DiffInv ==
    /\ IsPlan(planned) /\ IsPlan(generated.baseline)
    /\ generated \in [baseline : Seq(PlanSteps), ai_excluded : SUBSET Codes, edits : 0..MaxPlanEdits]
    /\ generated.ai_excluded = Codes \ Range(codes_of(generated.baseline))
    /\ DOMAIN told = {"at", "included", "excluded", "changes", "outcome", "named"}
    /\ told.at \in {"none", "asked", "answered", "failed"}
    /\ told.at # "none" =>
         /\ generated.baseline # <<>> /\ IsPlan(told.included)
         /\ told.excluded = LeftOut(told.included, generated.ai_excluded)
         /\ told.changes = change_set(told.included, generated.baseline)
    /\ told.at = "answered" => told.named \subseteq Codes

LEMMA PlanCodes ==
    ASSUME NEW steps, IsPlan(steps)
    PROVE  /\ codes_of(steps) \in Lines
           /\ \A i \in DOMAIN steps : steps[i] \in PlanSteps /\ codes_of(steps)[i] = steps[i].code
           /\ DOMAIN codes_of(steps) = DOMAIN steps
           /\ \A c \in Range(codes_of(steps)) : \E i \in DOMAIN steps : step_of(steps, c) = steps[i] /\ steps[i].code = c
<1>1. <<>> \in Lines
  <2>1. <<>> \in Seq(Codes) /\ DOMAIN <<>> = {}
    OBVIOUS
  <2> QED
    BY <2>1 DEF Lines
<1>2. codes_of(steps) \in Lines
  BY <1>1, OrdersAreLines DEF IsPlan
<1>3. \A i \in DOMAIN steps : steps[i] \in PlanSteps
  BY DEF IsPlan
<1>4. DOMAIN codes_of(steps) = DOMAIN steps /\ \A i \in DOMAIN steps : codes_of(steps)[i] = steps[i].code
  BY DEF codes_of
<1>5. ASSUME NEW c \in Range(codes_of(steps))
      PROVE  \E i \in DOMAIN steps : step_of(steps, c) = steps[i] /\ steps[i].code = c
  <2>1. \E i \in DOMAIN steps : steps[i].code = c
    BY <1>4, <1>5 DEF Range
  <2> QED
    BY <2>1 DEF step_of
<1> QED
  BY <1>2, <1>3, <1>4, <1>5

LEMMA PlanOf ==
    ASSUME NEW order \in Orders, NEW steps, DOMAIN steps = DOMAIN order,
           steps = [i \in DOMAIN order |-> steps[i]],
           \A i \in DOMAIN order : steps[i] \in PlanSteps /\ steps[i].code = order[i]
    PROVE  IsPlan(steps) /\ codes_of(steps) = order
<1>1. order \in Seq(Codes)
  BY OrdersAreLines DEF Lines
<1>2. steps \in Seq(PlanSteps)
  BY <1>1
<1>3. codes_of(steps) = [i \in DOMAIN order |-> order[i]]
  BY DEF codes_of
<1>4. order = [i \in DOMAIN order |-> order[i]]
  BY <1>1
<1> QED
  BY <1>2, <1>3, <1>4 DEF IsPlan

LEMMA NewStepIs ==
    ASSUME NEW c \in Codes
    PROVE  NewStep(c) \in PlanSteps /\ NewStep(c).code = c
<1>1. DefaultAction \in PlanActions
  BY DEF DefaultAction, PlanActions, Titles
<1>2. <<DefaultAction>> \in Seq(PlanActions) /\ <<>> \in Seq(PlanActions)
  BY <1>1
<1> DEFINE acts == IF c = DetailedStep THEN <<DefaultAction>> ELSE <<>>
<1>3. acts \in Seq(PlanActions)
  BY <1>2
<1>4. NewStep(c) = [code |-> c, when |-> 0, actions |-> acts]
  BY DEF NewStep
<1> HIDE DEF acts
<1>5. 0 \in 0..1
  OBVIOUS
<1> QED
  BY <1>3, <1>4, <1>5 DEF PlanSteps

LEMMA GeneratedTyped == GeneratedActions \subseteq Seq(PlanActions)
<1>1. \A a \in PlanActions : [a EXCEPT !.due = 0] \in PlanActions
  BY DEF PlanActions
<1> SUFFICES ASSUME NEW acts \in GeneratedActions PROVE acts \in Seq(PlanActions)
  OBVIOUS
<1>2. PICK n \in 1..2 : acts \in [1..n -> {[a EXCEPT !.due = 0] : a \in PlanActions}]
  BY DEF GeneratedActions
<1>3. acts \in [1..n -> PlanActions]
  BY <1>1, <1>2
<1> QED
  BY <1>3

\* The same steps in the same order, one of them changed in what it holds.
LEMMA PlanEdited ==
    ASSUME NEW steps, IsPlan(steps), NEW i \in DOMAIN steps, NEW x \in PlanSteps,
           x.code = steps[i].code
    PROVE  IsPlan([steps EXCEPT ![i] = x])
<1> DEFINE y == [steps EXCEPT ![i] = x]
<1>1. steps \in Seq(PlanSteps) /\ y \in Seq(PlanSteps) /\ DOMAIN y = DOMAIN steps
  BY DEF IsPlan
<1>2. \A j \in DOMAIN steps : y[j].code = steps[j].code
  BY <1>1
<1> HIDE DEF y
<1>3. codes_of(y) = codes_of(steps)
  BY <1>1, <1>2 DEF codes_of
<1> QED
  BY <1>1, <1>3 DEF IsPlan, y

LEMMA DiffStarts == DiffInit => DiffInv
<1> SUFFICES ASSUME DiffInit PROVE DiffInv
  OBVIOUS
<1>1. <<>> \in Seq(PlanSteps) /\ DOMAIN <<>> = {}
  OBVIOUS
<1>2. codes_of(<<>>) = <<>> /\ Range(codes_of(<<>>)) = {}
  BY DEF codes_of, Range
<1>3. IsPlan(<<>>)
  BY <1>1, <1>2 DEF IsPlan
<1>4. PICK nil : nil = <<>>
  OBVIOUS
<1>5. /\ planned = nil /\ generated = [baseline |-> nil, ai_excluded |-> Codes, edits |-> 0]
      /\ told = NoRequest
  BY <1>4 DEF DiffInit
<1>6. 0 \in 0..MaxPlanEdits
  BY DiffAssumption
<1>7. generated \in [baseline : Seq(PlanSteps), ai_excluded : SUBSET Codes, edits : 0..MaxPlanEdits]
  BY <1>1, <1>4, <1>5, <1>6
<1>8. told.at = "none" /\ DOMAIN told = {"at", "included", "excluded", "changes", "outcome", "named"}
  BY <1>5 DEF NoRequest
<1>9. generated.baseline = <<>> /\ generated.ai_excluded = Codes
  BY <1>4, <1>5
<1>10. generated.ai_excluded = Codes \ Range(codes_of(generated.baseline))
  BY <1>2, <1>9
<1>11. IsPlan(planned) /\ IsPlan(generated.baseline)
  BY <1>3, <1>4, <1>5, <1>9
<1> QED
  BY <1>7, <1>8, <1>10, <1>11 DEF DiffInv

LEMMA SnapshotKeeps ==
    ASSUME DiffInv, snapshot_plan
    PROVE  DiffInv'
<1>1. PICK order \in Orders, acts \in GeneratedActions :
         /\ planned' = [i \in DOMAIN order |->
              [NewStep(order[i]) EXCEPT !.actions = IF order[i] = DetailedStep THEN acts ELSE @]]
         /\ generated' = [baseline |-> planned', ai_excluded |-> Codes \ Range(order), edits |-> 0]
  BY DEF snapshot_plan
<1>2. order \in Seq(Codes)
  BY OrdersAreLines DEF Lines
<1>3. ASSUME NEW i \in DOMAIN order PROVE planned'[i] \in PlanSteps /\ planned'[i].code = order[i]
  <2>1. order[i] \in Codes
    BY <1>2
  <2>2. acts \in Seq(PlanActions)
    BY GeneratedTyped
  <2> DEFINE x == NewStep(order[i])
             a == IF order[i] = DetailedStep THEN acts ELSE x.actions
  <2>3. x \in PlanSteps /\ x.code = order[i]
    BY <2>1, NewStepIs
  <2> HIDE DEF x
  <2>4. a \in Seq(PlanActions)
    BY <2>2, <2>3 DEF PlanSteps
  <2>5. planned'[i] = [x EXCEPT !.actions = a]
    BY <1>1 DEF x
  <2> HIDE DEF a
  <2> QED
    BY <2>3, <2>4, <2>5 DEF PlanSteps
<1>4. DOMAIN (planned') = DOMAIN order /\ planned' = [i \in DOMAIN order |-> planned'[i]]
  BY <1>1
<1>5. IsPlan(planned') /\ codes_of(planned') = order
  BY <1>3, <1>4, PlanOf
<1>6. /\ generated'.baseline = planned' /\ generated'.ai_excluded = Codes \ Range(order)
      /\ generated'.edits = 0
  BY <1>1
<1>7. 0 \in 0..MaxPlanEdits
  BY DiffAssumption
<1>8. generated' \in [baseline : Seq(PlanSteps), ai_excluded : SUBSET Codes, edits : 0..MaxPlanEdits]
  BY <1>1, <1>5, <1>7 DEF IsPlan
<1>9. told' = told /\ told.at = "none"
  BY DEF snapshot_plan, DiffInv
<1> QED
  BY <1>5, <1>6, <1>8, <1>9 DEF DiffInv

\* An edit of the plan, which takes place before any review is asked for.
LEMMA EditKeeps ==
    ASSUME DiffInv, Editing, Edited_once, UNCHANGED told, IsPlan(planned')
    PROVE  DiffInv'
<1>1. told.at = "none" /\ told' = told /\ generated.edits < MaxPlanEdits
  BY DEF Editing
<1>2. generated \in [baseline : Seq(PlanSteps), ai_excluded : SUBSET Codes, edits : 0..MaxPlanEdits]
  BY DEF DiffInv
<1>3. generated.edits + 1 \in 0..MaxPlanEdits
  BY <1>1, <1>2, DiffAssumption
<1>4. /\ generated'.baseline = generated.baseline /\ generated'.ai_excluded = generated.ai_excluded
      /\ generated' \in [baseline : Seq(PlanSteps), ai_excluded : SUBSET Codes, edits : 0..MaxPlanEdits]
  BY <1>2, <1>3 DEF Edited_once
<1> QED
  BY <1>1, <1>4 DEF DiffInv

LEMMA ReplaceKeeps ==
    ASSUME DiffInv, replace_steps
    PROVE  DiffInv'
<1>1. PICK order \in Orders :
        planned' = [i \in DOMAIN order |->
                      IF order[i] \in Range(codes_of(planned))
                      THEN step_of(planned, order[i]) ELSE NewStep(order[i])]
  BY DEF replace_steps
<1>2. order \in Seq(Codes)
  BY OrdersAreLines DEF Lines
<1>3. IsPlan(planned)
  BY DEF DiffInv
<1>4. ASSUME NEW i \in DOMAIN order PROVE planned'[i] \in PlanSteps /\ planned'[i].code = order[i]
  <2>1. order[i] \in Codes
    BY <1>2
  <2>2. CASE order[i] \in Range(codes_of(planned))
    <3>1. PICK j \in DOMAIN planned : step_of(planned, order[i]) = planned[j] /\ planned[j].code = order[i]
      BY <1>3, <2>2, PlanCodes
    <3>2. planned[j] \in PlanSteps
      BY <1>3, PlanCodes
    <3> QED
      BY <1>1, <2>2, <3>1, <3>2
  <2>3. CASE order[i] \notin Range(codes_of(planned))
    BY <1>1, <2>1, <2>3, NewStepIs
  <2> QED
    BY <2>2, <2>3
<1>5. DOMAIN (planned') = DOMAIN order /\ planned' = [i \in DOMAIN order |-> planned'[i]]
  BY <1>1
<1>6. IsPlan(planned')
  BY <1>4, <1>5, PlanOf
<1> QED
  BY <1>6, EditKeeps DEF replace_steps

LEMMA RescheduleKeeps ==
    ASSUME DiffInv, reschedule_step
    PROVE  DiffInv'
<1>1. PICK i \in DOMAIN planned, w \in 0..1 : planned' = [planned EXCEPT ![i].when = w]
  BY DEF reschedule_step
<1>2. IsPlan(planned)
  BY DEF DiffInv
<1> DEFINE x == [planned[i] EXCEPT !.when = w]
<1>3. planned' = [planned EXCEPT ![i] = x]
  BY <1>1
<1>4. planned[i] \in PlanSteps
  BY <1>2, PlanCodes
<1>5. x \in PlanSteps /\ x.code = planned[i].code
  BY <1>4 DEF PlanSteps
<1> HIDE DEF x
<1>6. IsPlan(planned')
  BY <1>2, <1>3, <1>5, PlanEdited
<1> QED
  BY <1>6, EditKeeps DEF reschedule_step

LEMMA ChangeActionKeeps ==
    ASSUME DiffInv, change_action
    PROVE  DiffInv'
<1>1. PICK i \in DOMAIN planned : \E k \in DOMAIN planned[i].actions : \E a \in PlanActions :
         planned' = [planned EXCEPT ![i].actions[k] = a]
  BY DEF change_action
<1>2. PICK k \in DOMAIN planned[i].actions : \E a \in PlanActions : planned' = [planned EXCEPT ![i].actions[k] = a]
  BY <1>1
<1>3. PICK a \in PlanActions : planned' = [planned EXCEPT ![i].actions[k] = a]
  BY <1>2
<1>4. IsPlan(planned)
  BY DEF DiffInv
<1> DEFINE acts == [planned[i].actions EXCEPT ![k] = a]
           x == [planned[i] EXCEPT !.actions = acts]
<1>5. planned' = [planned EXCEPT ![i] = x]
  BY <1>3
<1>6. planned[i] \in PlanSteps
  BY <1>4, PlanCodes
<1>7. acts \in Seq(PlanActions)
  BY <1>6 DEF PlanSteps
<1> HIDE DEF acts
<1>8. x \in PlanSteps /\ x.code = planned[i].code
  BY <1>6, <1>7 DEF PlanSteps
<1> HIDE DEF x
<1>9. IsPlan(planned')
  BY <1>4, <1>5, <1>8, PlanEdited
<1> QED
  BY <1>9, EditKeeps DEF change_action

LEMMA RequestKeeps ==
    ASSUME DiffInv, build_review_request
    PROVE  DiffInv'
<1>1. /\ planned' = planned /\ generated' = generated /\ generated.baseline # <<>>
      /\ told' = [told EXCEPT !.at = "asked", !.included = planned,
                       !.excluded = excluded_steps(planned),
                       !.changes = change_set(planned, generated.baseline)]
  BY DEF build_review_request
<1>2. PICK out : out = excluded_steps(planned)
  OBVIOUS
<1>3. PICK chs : chs = change_set(planned, generated.baseline)
  OBVIOUS
<1>4. told' = [told EXCEPT !.at = "asked", !.included = planned, !.excluded = out, !.changes = chs]
  BY <1>1, <1>2, <1>3, Zenon
<1>5. DOMAIN told = {"at", "included", "excluded", "changes", "outcome", "named"}
  BY DEF DiffInv
<1>6. /\ told'.at = "asked" /\ told'.included = planned /\ told'.excluded = out /\ told'.changes = chs
      /\ DOMAIN (told') = {"at", "included", "excluded", "changes", "outcome", "named"}
  BY <1>4, <1>5
<1>7. out = LeftOut(planned, generated.ai_excluded)
  BY <1>2 DEF excluded_steps, LeftOut
<1> QED
  BY <1>1, <1>3, <1>6, <1>7 DEF DiffInv

LEMMA LeftOutIs ==
    ASSUME NEW steps, NEW ai
    PROVE  /\ {x.code : x \in LeftOut(steps, ai)} = Codes \ Range(codes_of(steps))
           /\ \A x \in LeftOut(steps, ai) : x.by = "user" => x.code \notin ai
<1>1. ASSUME NEW x \in LeftOut(steps, ai)
      PROVE  x.code \in Codes \ Range(codes_of(steps)) /\ (x.by = "user" => x.code \notin ai)
  <2>1. PICK c \in Codes \ Range(codes_of(steps)) : x = [code |-> c, by |-> IF c \in ai THEN "ai" ELSE "user"]
    BY <1>1 DEF LeftOut
  <2> QED
    BY <2>1
<1>2. ASSUME NEW c \in Codes \ Range(codes_of(steps)) PROVE \E x \in LeftOut(steps, ai) : x.code = c
  <2> DEFINE x == [code |-> c, by |-> IF c \in ai THEN "ai" ELSE "user"]
  <2>1. x \in LeftOut(steps, ai) /\ x.code = c
    BY DEF LeftOut
  <2> QED
    BY <2>1
<1> QED
  BY <1>1, <1>2

LEMMA AnswerOfReviewKeeps ==
    ASSUME DiffInv, review_plan_edit
    PROVE  DiffInv'
<1>1. PICK outcome, ns :
        told' = IF valid_review(outcome, ns)
                THEN [told EXCEPT !.at = "answered", !.outcome = outcome, !.named = ns]
                ELSE [told EXCEPT !.at = "failed"]
  BY DEF review_plan_edit
<1>2. told.at = "asked" /\ planned' = planned /\ generated' = generated
  BY DEF review_plan_edit
<1>3. DOMAIN told = {"at", "included", "excluded", "changes", "outcome", "named"}
  BY DEF DiffInv
<1>4. /\ told'.included = told.included /\ told'.excluded = told.excluded /\ told'.changes = told.changes
      /\ DOMAIN (told') = DOMAIN told
      /\ told'.at \in {"answered", "failed"}
      /\ told'.at = "answered" => valid_review(outcome, ns) /\ told'.named = ns
  BY <1>1, <1>3
<1>5. valid_review(outcome, ns) => ns \subseteq Codes
  <2>1. told.excluded = LeftOut(told.included, generated.ai_excluded) /\ IsPlan(told.included)
    BY <1>2 DEF DiffInv
  <2>2. {x.code : x \in told.excluded} \subseteq Codes
    BY <2>1, LeftOutIs
  <2>3. Range(codes_of(told.included)) \subseteq Codes
    BY <2>1, PlanCodes DEF Lines, Range
  <2> QED
    BY <2>2, <2>3 DEF valid_review
<1> QED
  BY <1>2, <1>3, <1>4, <1>5 DEF DiffInv

LEMMA DiffKept == DiffInv /\ [DiffNext]_diffVars => DiffInv'
<1>1. DiffInv /\ UNCHANGED diffVars => DiffInv'
  BY DEF DiffInv, diffVars
<1> QED
  BY <1>1, SnapshotKeeps, ReplaceKeeps, RescheduleKeeps, ChangeActionKeeps, RequestKeeps,
     AnswerOfReviewKeeps DEF DiffNext

\* The action of a title that stands once is the one found.
LEMMA OnceIs ==
    ASSUME NEW acts \in Seq(PlanActions), NEW t, Once(acts, t)
    PROVE  \E k \in DOMAIN acts : /\ acts[k].title = t /\ by_title(acts, t) = acts[k]
                                  /\ \A j \in DOMAIN acts : acts[j].title = t => j = k
<1> DEFINE S == {k \in DOMAIN acts : acts[k].title = t}
<1>1. IsFiniteSet(S)
  <2>1. DOMAIN acts = 1..Len(acts) /\ Len(acts) \in Nat
    OBVIOUS
  <2>2. IsFiniteSet(1..Len(acts))
    BY <2>1, FS_Interval
  <2> QED
    BY <2>1, <2>2, FS_Subset
<1>2. Cardinality(S) = 1
  BY DEF Once
<1> HIDE DEF S
<1>3. PICK k : S = {k}
  BY <1>1, <1>2, FS_Singleton
<1>4. k \in DOMAIN acts /\ acts[k].title = t /\ \A j \in DOMAIN acts : acts[j].title = t => j = k
  BY <1>3 DEF S
<1>5. \A j \in DOMAIN acts : j <= j
  OBVIOUS
<1>6. by_title(acts, t) = acts[k]
  <2> DEFINE P(m) == /\ acts[m].title = t
                     /\ \A j \in DOMAIN acts : acts[j].title = t => j <= m
             m0 == CHOOSE m \in DOMAIN acts : P(m)
  <2>1. P(k)
    BY <1>4, <1>5
  <2>2. m0 \in DOMAIN acts /\ P(m0)
    BY <1>4, <2>1
  <2>3. by_title(acts, t) = acts[m0]
    BY DEF by_title
  <2> HIDE DEF m0
  <2>4. m0 = k
    BY <1>4, <2>2
  <2> QED
    BY <2>3, <2>4
<1> QED
  BY <1>4, <1>6

\* Under a title that stands once on both sides, a value is reported if and
\* only if it differs.
LEMMA ActionChangeIs ==
    ASSUME NEW a \in Seq(PlanActions), NEW b \in Seq(PlanActions), NEW c,
           NEW t \in Titles, NEW fld \in {"amount", "due"}, Once(a, t), Once(b, t)
    PROVE  [code |-> c, title |-> t, field |-> fld] \in _action_changes(c, a, b)
             <=> by_title(a, t)[fld] # by_title(b, t)[fld]
<1> DEFINE x == [code |-> c, title |-> t, field |-> fld]
<1>1. PICK i \in DOMAIN a : a[i].title = t /\ by_title(a, t) = a[i]
  BY OnceIs
<1>2. PICK k \in DOMAIN b : /\ b[k].title = t /\ by_title(b, t) = b[k]
                            /\ \A j \in DOMAIN b : b[j].title = t => j = k
  BY OnceIs
<1>3. x \in [code : {c}, title : Titles, field : {"amount", "due"}] /\ x.title = t /\ x.field = fld
  OBVIOUS
<1> HIDE DEF x
<1>4. x \in _action_changes(c, a, b) <=>
        /\ \E j \in DOMAIN a : a[j].title = t
        /\ \E j \in DOMAIN b : b[j].title = t /\ b[j][fld] # by_title(a, t)[fld]
  BY <1>3 DEF _action_changes
<1>5. x \in _action_changes(c, a, b) <=> by_title(a, t)[fld] # by_title(b, t)[fld]
  BY <1>1, <1>2, <1>4
<1> QED
  BY <1>5 DEF x

\* The change set lists an action's changes under its step.
LEMMA ActionsOfStep ==
    ASSUME NEW now, NEW old, NEW c \in Range(codes_of(now)) \cap Range(codes_of(old)), NEW t, NEW fld
    PROVE  [code |-> c, title |-> t, field |-> fld] \in change_set(now, old).actions
             <=> [code |-> c, title |-> t, field |-> fld]
                   \in _action_changes(c, step_of(old, c).actions, step_of(now, c).actions)
<1> DEFINE x == [code |-> c, title |-> t, field |-> fld]
           of(d) == _action_changes(d, step_of(old, d).actions, step_of(now, d).actions)
           both == Range(codes_of(now)) \cap Range(codes_of(old))
<1>1. \A d : \A y \in of(d) : y.code = d
  BY DEF _action_changes
<1>2. change_set(now, old).actions = UNION {of(d) : d \in both}
  BY DEF change_set
<1>3. x.code = c
  OBVIOUS
<1> HIDE DEF x, of
<1>4. x \in UNION {of(d) : d \in both} <=> x \in of(c)
  <2>1. ASSUME NEW d \in both, x \in of(d) PROVE x \in of(c)
    <3>1. d = c
      BY <1>1, <1>3, <2>1
    <3> QED
      BY <2>1, <3>1
  <2> QED
    BY <2>1
<1> QED
  BY <1>2, <1>4 DEF x, of

LEMMA DiffShows == DiffInv => ReviewIsToldTheEdits
<1> SUFFICES ASSUME DiffInv PROVE ReviewIsToldTheEdits
  OBVIOUS
<1>1. DiffTypeOK
  BY DEF DiffInv, DiffTypeOK, IsPlan
<1>2. ASSUME told.at # "none"
      PROVE  LET old == generated.baseline
                 now == told.included
                 was == codes_of(old)
                 is  == codes_of(now)
             IN /\ Range(is) \cup {x.code : x \in told.excluded} = Codes
                /\ \A x \in told.excluded :
                     x.code \notin Range(is) /\ (x.by = "user" => x.code \in told.changes.removed)
                /\ told.changes.moved = {} <=> Swapped(is, was) = {}
                /\ \A pair \in Swapped(is, was) : Range(pair) \cap told.changes.moved # {}
                /\ \A c \in Range(is) \cap Range(was) :
                     /\ c \in told.changes.rescheduled <=> step_of(now, c).when # step_of(old, c).when
                     /\ \A t \in Titles :
                          LET a == step_of(old, c).actions
                              b == step_of(now, c).actions
                          IN Once(a, t) /\ Once(b, t) =>
                               \A f \in {"amount", "due"} :
                                 [code |-> c, title |-> t, field |-> f] \in told.changes.actions
                                   <=> by_title(a, t)[f] # by_title(b, t)[f]
                /\ told.at = "answered" => told.named \subseteq Codes
  <2> DEFINE old == generated.baseline
             now == told.included
             was == codes_of(old)
             is  == codes_of(now)
  <2>1. /\ IsPlan(now) /\ IsPlan(old)
        /\ told.excluded = LeftOut(now, generated.ai_excluded)
        /\ told.changes = change_set(now, old)
        /\ generated.ai_excluded = Codes \ Range(was)
        /\ told.at = "answered" => told.named \subseteq Codes
    BY <1>2 DEF DiffInv
  <2>2. is \in Lines /\ was \in Lines
    BY <2>1, PlanCodes
  <2>3. Range(is) \subseteq Codes /\ Range(was) \subseteq Codes
    BY <2>2 DEF Lines, Range
  <2>4. {x.code : x \in told.excluded} = Codes \ Range(is)
    BY <2>1, LeftOutIs
  <2>5. \A x \in told.excluded : x.code \in Codes \ Range(is) /\ (x.by = "user" => x.code \notin generated.ai_excluded)
    BY <2>1, <2>4, LeftOutIs
  <2>6. told.changes.removed = Range(was) \ Range(is) /\ told.changes.moved = _moved_codes(is, was)
    BY <2>1 DEF change_set
  <2>7. \A c \in Range(is) \cap Range(was) :
           c \in told.changes.rescheduled <=> step_of(now, c).when # step_of(old, c).when
    BY <2>1 DEF change_set
  <2>8. /\ told.changes.moved = {} <=> Swapped(is, was) = {}
        /\ \A pair \in Swapped(is, was) : Range(pair) \cap told.changes.moved # {}
    BY <2>2, <2>6, MovedIsSwapped
  <2>9. ASSUME NEW c \in Range(is) \cap Range(was), NEW t \in Titles,
               Once(step_of(old, c).actions, t), Once(step_of(now, c).actions, t),
               NEW fld \in {"amount", "due"}
        PROVE  [code |-> c, title |-> t, field |-> fld] \in told.changes.actions
                 <=> by_title(step_of(old, c).actions, t)[fld] # by_title(step_of(now, c).actions, t)[fld]
    <3> DEFINE a == step_of(old, c).actions
               b == step_of(now, c).actions
    <3>1. a \in Seq(PlanActions) /\ b \in Seq(PlanActions)
      BY <2>1, <2>9, PlanCodes DEF PlanSteps
    <3>2. [code |-> c, title |-> t, field |-> fld] \in told.changes.actions
            <=> [code |-> c, title |-> t, field |-> fld] \in _action_changes(c, a, b)
      BY <2>1, <2>9, ActionsOfStep
    <3>3. [code |-> c, title |-> t, field |-> fld] \in _action_changes(c, a, b)
             <=> by_title(a, t)[fld] # by_title(b, t)[fld]
      <4> HIDE DEF a, b
      <4>1. Once(a, t) /\ Once(b, t)
        BY <2>9 DEF a, b
      <4> QED
        BY <3>1, <4>1, ActionChangeIs
    <3> QED
      BY <3>2, <3>3
  <2>10. Range(is) \cup {x.code : x \in told.excluded} = Codes
    BY <2>3, <2>4
  <2>11. \A x \in told.excluded :
            x.code \notin Range(is) /\ (x.by = "user" => x.code \in told.changes.removed)
    BY <2>1, <2>5, <2>6
  <2> QED
    BY <2>1, <2>7, <2>8, <2>9, <2>10, <2>11
<1> QED
  BY <1>1, <1>2 DEF ReviewIsToldTheEdits

\* After any edits of a generated plan its review is told the steps that are in
\* the plan, those that are out and by whom, and the changes that were made
\* (plan_review_service).
THEOREM ReviewsAreToldTheEdits == DiffInit /\ [][DiffNext]_diffVars => []ReviewIsToldTheEdits
<1>1. DiffInit => DiffInv
  BY DiffStarts
<1>2. DiffInv /\ [DiffNext]_diffVars => DiffInv'
  BY DiffKept
<1>3. DiffInv => ReviewIsToldTheEdits
  BY DiffShows
<1> QED
  BY <1>1, <1>2, <1>3, PTL

----------------------------------------------------------------------------
(* From a part to the server: a step of the server is a step of a part or  *)
(* leaves its rows alone.                                                  *)

LEMMA OthersRest == Next => Others
<1>1. FinishRequest => Others
  BY DEF FinishRequest
<1> QED
  BY <1>1 DEF Next

LEMMA FocusMoves ==
    Next => /\ focus = "conditions" => ConditionsNext
            /\ focus = "agent" => AgentNext
            /\ focus = "cases" => CaseNext
            /\ focus = "records" => RecordNext
            /\ focus = "receipts" => ReceiptNext
            /\ focus = "clubs" => ClubNext
            /\ focus = "discord" => DiscordNext
            /\ focus = "activity" => ActivityNext
            /\ focus = "search" => RetrievalNext
            /\ focus = "judge" => JudgeNext
            /\ focus = "tori" => ToriNext
            /\ focus = "llm" => LlmNext
            /\ focus = "speech" => SpeechNext
            /\ focus = "drafts" => DraftNext
            /\ focus = "reply" => ReplyNext
            /\ focus = "talk" => TalkNext
            /\ focus = "diffs" => DiffNext
            /\ focus = "generation" => GenNext
            /\ focus = "reviews" => ReviewNext \/ UNCHANGED reviewVars
<1>1. FinishRequest =>
        focus \in {"judgement", "reviews"} /\ UNCHANGED reviewVars
  BY DEF FinishRequest
<1> QED
  BY <1>1 DEF Next

LEMMA StepOfAPart ==
    ASSUME [Next]_serviceVars
    PROVE  /\ [CaseNext]_caseVars /\ [RecordNext]_recordVars
           /\ [ReceiptNext]_receiptVars /\ [ClubNext]_clubVars
           /\ [DiscordNext]_discordVars /\ [ReviewNext]_reviewVars
           /\ [ActivityNext]_activityVars
           /\ [ConditionsNext]_conditionVars /\ [AgentNext]_agentVars
           /\ [RetrievalNext]_searchVars /\ [JudgeNext]_judgeVars
           /\ [ToriNext]_toriVars /\ [LlmNext]_llmVars
           /\ [SpeechNext]_speechVars /\ [DraftNext]_draftVars
           /\ [ReplyNext]_replyVars /\ [TalkNext]_talkVars
           /\ [DiffNext]_diffVars /\ [GenNext]_genVars
<1>1. CASE UNCHANGED serviceVars
  BY <1>1 DEF serviceVars
<1>2. CASE Next
  BY <1>2, OthersRest, FocusMoves DEF Others, Rests
<1> QED
  BY <1>1, <1>2

LEMMA MeetingMoves ==
    Next => \/ JudgedMeetingNext
            \/ focus # "judgement" /\ UNCHANGED meetingVars
<1>1. FinishRequest => JudgedMeetingNext
  <2>1. FinishRequest => UNCHANGED judgement
    BY DEF FinishRequest
  <2>2. FinishRequest => finish_meeting(FALSE)
    BY Zenon DEF FinishRequest
  <2> QED
    BY <2>1, <2>2, Zenon DEF JudgedMeetingNext
<1>2. Others =>
        focus \in {"judgement", "reviews"} \/ UNCHANGED meetingVars
  BY DEF Others
<1>3. JudgementNext => JudgedMeetingNext
  BY DEF JudgedMeetingNext
<1> QED
  BY <1>1, <1>2, <1>3 DEF Next

\* finish_meeting is a step of the meeting whichever part is looked at.
LEMMA StepOfAMeeting == ASSUME [Next]_serviceVars PROVE [JudgedMeetingNext]_judgementVars
<1>1. CASE UNCHANGED serviceVars
  BY <1>1 DEF serviceVars, meetingVars, judgementVars
<1>2. CASE Next
  <2>1. CASE focus # "judgement" /\ UNCHANGED meetingVars
    BY <1>2, <2>1, OthersRest DEF Others, Rests, meetingVars, judgementVars
  <2> QED
    BY <1>2, <2>1, MeetingMoves
<1> QED
  BY <1>1, <1>2

\* operation_case_service, in the server as a whole.
THEOREM ServerAnswersCasesOnce == Spec => []CaseIsAnsweredOnce
<1>1. Init => CaseInv
  BY InitCase DEF Init
<1>2. CaseInv /\ [Next]_serviceVars => CaseInv'
  BY StepOfAPart, NextCase
<1> QED
  BY <1>1, <1>2, CaseInvSuffices, PTL DEF Spec

\* record_service and record_search_service, in the server as a whole.
THEOREM ServerKeepsRecordsWhole == Spec => []RecordsStayWhole
<1>1. Init => RecordInit
  BY DEF Init
<1>2. [Next]_serviceVars => [RecordNext]_recordVars
  BY StepOfAPart
<1> QED
  BY <1>1, <1>2, RecordsAreWhole, PTL DEF Spec

\* accounting_service, in the server as a whole, as long as the original of a
\* receipt is read within OCR_TIMEOUT.
THEOREM ServerBooksReceiptsOnce == ~SlowStorage => (Spec => []ReceiptIsBookedOnce)
<1> SUFFICES ASSUME ~SlowStorage PROVE Spec => []ReceiptIsBookedOnce
  OBVIOUS
<1>1. Init => ReceiptInit
  BY DEF Init
<1>2. [Next]_serviceVars => [ReceiptNext]_receiptVars
  BY StepOfAPart
<1>3. ReceiptInit /\ [][ReceiptNext]_receiptVars => []ReceiptIsBookedOnce
  BY ReceiptsAreBookedOnce
<1> QED
  BY <1>1, <1>2, <1>3, PTL DEF Spec

\* discord_service, in the server as a whole.
THEOREM ServerReadsDiscordOnce == Spec => []DiscordIsReadOnce
<1>1. Init => DiscordInit
  BY DEF Init
<1>2. [Next]_serviceVars => [DiscordNext]_discordVars
  BY StepOfAPart
<1> QED
  BY <1>1, <1>2, DiscordIsRead, PTL DEF Spec

\* club_service and auth_service, in the server as a whole.
THEOREM ServerKeepsClubsInOrder == Spec => []ClubsAreInOrder
<1>1. Init => ClubInit
  BY DEF Init
<1>2. [Next]_serviceVars => [ClubNext]_clubVars
  BY StepOfAPart
<1> QED
  BY <1>1, <1>2, ClubsStayInOrder, PTL DEF Spec

\* activity_service, in the server as a whole: whatever the other parts do, and
\* in whatever order transactions commit.
THEOREM ServerKeepsWatchersUpToDate == Spec => []WatcherIsUpToDate
<1>1. Init => ActivityInit
  BY DEF Init
<1>2. [Next]_serviceVars => [ActivityNext]_activityVars
  BY StepOfAPart
<1> QED
  BY <1>1, <1>2, WatchersAreUpToDate, PTL DEF Spec

\* meeting_review_service, in the server as a whole: one paid diarization per
\* meeting as long as the provider's key stays set or unset, no result lost,
\* and minutes from the stored names.
THEOREM ServerPaysOnce == ~KeyMayChange => (Spec => []ReviewIsPaidOnce)
<1> SUFFICES ASSUME ~KeyMayChange PROVE Spec => []ReviewIsPaidOnce
  OBVIOUS
<1> DEFINE Inv == MinutesInv /\ BillingInv
<1>1. Init => Inv
  BY InitMinutes DEF Init
<1>2. Inv /\ [Next]_serviceVars => Inv'
  BY StepOfAPart, NextMinutes
<1>3. Inv => ReviewIsPaidOnce
  BY DEF MinutesInv, BillingInv, Billing, PaidOnce, ReviewIsPaidOnce
<1> QED
  BY <1>1, <1>2, <1>3, PTL DEF Spec

\* meeting_judgement_service, in the server as a whole, over corrections and
\* the end of the meeting at any moment.
THEOREM ServerJudgesAsSaid == Spec => []MeetingIsJudgedAsSaid
<1>1. Init => JudgementInv
  BY InitJudgement DEF Init
<1>2. JudgementInv /\ [Next]_serviceVars => JudgementInv'
  BY StepOfAMeeting, NextJudgement
<1>3. JudgementInv => MeetingIsJudgedAsSaid
  BY JudgementInvSuffices DEF JudgementInv, MeetingIsJudgedAsSaid
<1> QED
  BY <1>1, <1>2, <1>3, PTL DEF Spec

\* event_generation_service, plan_review_service and update_action, in the server
\* as a whole: a plan is announced and shown as it was written and only if it
\* fits catalogue and dates, a review is told the real edits, and the review that
\* is shown for a revision judged the steps and amounts of that revision.
THEOREM ServerTellsPlansAsTheyAre == Spec => []PlanIsToldAsItIs
<1> DEFINE Inv == GenInv /\ DiffInv /\ RevisionInv
<1>1. Init => Inv
  BY GenStarts, DiffStarts, InitRevision DEF Init
<1>2. Inv /\ [Next]_serviceVars => Inv'
  BY StepOfAPart, GenKept, DiffKept, NextRevision
<1>3. Inv => PlanIsToldAsItIs
  BY GenShows, DiffShows DEF PlanIsToldAsItIs, RevisionInv
<1> QED
  BY <1>1, <1>2, <1>3, PTL DEF Spec

\* ai/features/planning, in the server as a whole: however the model mixes its
\* tools over the turns, a plan is made from the conditions its offer was made
\* for, a refused change blocks generation, an offer is not repeated for
\* conditions it was put off for, and a turn ends within MAX_TOOL_CALLS.
THEOREM ServerAgentKeepsItsWord == Spec => []AgentKeepsItsWord
<1>1. Init => AgentInv
  BY InitAgent DEF Init
<1>2. AgentInv /\ [Next]_serviceVars => AgentInv'
  BY StepOfAPart, NextAgent
<1> QED
  BY <1>1, <1>2, AgentInvSuffices, PTL DEF Spec

\* search_records, judge_utterance, meeting_event_service and tori_service, in
\* the server as a whole: an answer rests on what its searches found, whatever
\* the models say and whichever calls fail.
THEOREM ServerAnswersRestOnRecords == Spec => []AnswersRestOnRecords
<1> DEFINE Inv == SearchInv(search) /\ JudgeInv(judge) /\ EventInv /\ ToriInv
<1>1. Init => Inv
  BY SearchInvInit, JudgeInvInit, EventInvInit, ToriInvInit DEF Init
<1>2. Inv /\ [Next]_serviceVars => Inv'
  BY StepOfAPart, SearchInvNext, JudgeInvNext, EventInvNext, ToriInvNext
<1>3. EventInv => EventAnswerIsHonest
  BY Zenon DEF EventInv
<1>4. Inv => AnswersRestOnRecords
  BY <1>3, SearchInvEvidence, JudgeInvTrace, ToriInvReply DEF AnswersRestOnRecords
<1> QED
  BY <1>1, <1>2, <1>4, PTL DEF Spec

\* PcmVad, WhisperStt, the drafts of actions, the model gateway, the stream of a
\* reply and the history of a conversation, in the server as a whole: for any
\* audio, any texts, any tool calls and any failures.
THEOREM ServerChecksOutput == Spec => []OutputIsChecked
<1> DEFINE Inv == SavedInv /\ HearInv /\ WritingInv(writing) /\ LlmInv(llm)
                  /\ ReplyInv /\ ConversationInv
<1>1. Init => Inv
  BY SavedInvInit, HearInvInit, WritingInvInit, LlmInvInit, ReplyInvHolds, ConversationInvHolds DEF Init
<1>2. Inv /\ [Next]_serviceVars => Inv'
  BY StepOfAPart, SavedInvNext, HearInvNext, WritingInvNext, LlmInvNext, ReplyInvKept, ConversationInvKept
<1>3. Inv => OutputIsChecked
  BY SavedInvAssembles, HearInvSilence, WritingInvSays, LlmInvWhole, ReplyInvShows,
     ConversationInvShows DEF OutputIsChecked
<1> QED
  BY <1>1, <1>2, <1>3, PTL DEF Spec

=============================================================================
