-------------------------------- MODULE Club --------------------------------
(***************************************************************************)
(* Accounts, login sessions, clubs, members and invitations.               *)
(*                                                                         *)
(*   services/auth_service.py, routers/auth.py    accounts and sessions    *)
(*   services/club_service.py, routers/clubs.py   clubs and invitations    *)
(*   core/deps.py                                 who may call what        *)
(*                                                                         *)
(* An account is named by its e-mail address, and every person has one     *)
(* address; anybody can sign up with any address, only its owner can log   *)
(* in with Kakao under it.                                                 *)
(***************************************************************************)
EXTENDS Naturals, Sequences, FiniteSets

CONSTANTS People, Clubs, Invitations, NoOne,
          MaxSessions,   \* bound on the login sessions
          MaxClock       \* bound on the clock

ASSUME NoOneIsNobody == NoOne \notin People
ASSUME ClubBounds == MaxSessions \in Nat /\ MaxClock \in Nat

VARIABLES clock,
          account,     \* Account rows, by e-mail address
          auth,        \* Auth rows
          club,        \* Club rows
          member,      \* Member rows
          invitation,  \* Invitation rows
          refreshing   \* the session a person's refresh request has read

clubVars == <<clock, account, auth, club, member, invitation, refreshing>>
clubTables == <<club, member, invitation>>

----------------------------------------------------------------------------
(* Types *)

\* How many ticks of the clock something outlives; only the refresh token
\* outlives one.
ACCESS_TOKEN_TTL == 0
REFRESH_TOKEN_TTL == 1
EMAIL_VERIFICATION_TTL == 0
INVITATION_TTL == 0

SERVICE_ROLES == {"OWNER", "MANAGER"}
MemberRole == SERVICE_ROLES \cup {"MEMBER"}

\* `by` is history: the person who set the password or came from Kakao.
Account == [by: People \cup {NoOne}, password: BOOLEAN, kakao: BOOLEAN,
            verified: BOOLEAN, token: BOOLEAN, token_until: Nat]
NoAccount == [by |-> NoOne, password |-> FALSE, kakao |-> FALSE,
              verified |-> FALSE, token |-> FALSE, token_until |-> 0]

\* `by` is history: the person who holds the tokens.
Auth == [account: People, by: People, access_until: Nat, until: Nat,
         revoked: BOOLEAN]

Member == [club: Clubs, account: People, role: MemberRole]

\* No operation leaves the status PENDING; `accepted` is the first acceptance.
Invitation == [club: Clubs, role: MemberRole, until: Nat,
               accepted: People \cup {NoOne}]
NoInvitation == NoOne

ClubTypeOK ==
    /\ clock \in 0 .. MaxClock
    /\ account \in [People -> Account]
    /\ auth \in Seq(Auth) /\ Len(auth) <= MaxSessions
    /\ club \in [Clubs -> 0 .. 2]
    /\ member \subseteq Member
    /\ invitation \in [Invitations -> Invitation \cup {NoInvitation}]
    /\ refreshing \in [People -> 0 .. MaxSessions]

ClubInit ==
    /\ clock = 0
    /\ account = [e \in People |-> NoAccount]
    /\ auth = <<>>
    /\ club = [c \in Clubs |-> 0]     \* 0: not founded; then the name it has
    /\ member = {}
    /\ invitation = [i \in Invitations |-> NoInvitation]
    /\ refreshing = [p \in People |-> 0]

----------------------------------------------------------------------------
(* Accounts and sessions *)

signup(p, e) ==
    /\ account[e].by = NoOne
    /\ account' = [account EXCEPT ![e] =
           [NoAccount EXCEPT !.by = p, !.password = TRUE, !.token = TRUE,
                             !.token_until = clock + EMAIL_VERIFICATION_TTL]]
    /\ UNCHANGED <<clock, auth, clubTables, refreshing>>

\* The token in the mail is good once.
verify_email(e) ==
    /\ account[e].token /\ clock <= account[e].token_until
    /\ account' = [account EXCEPT ![e].verified = TRUE, ![e].token = FALSE,
                                  ![e].token_until = 0]
    /\ UNCHANGED <<clock, auth, clubTables, refreshing>>

issue_session(sessions, e, p) ==
    Append(sessions, [account |-> e, by |-> p,
                      access_until |-> clock + ACCESS_TOKEN_TTL,
                      until |-> clock + REFRESH_TOKEN_TTL,
                      revoked |-> FALSE])

login(p, e) ==
    /\ account[e].password /\ account[e].by = p
    /\ Len(auth) < MaxSessions
    /\ auth' = issue_session(auth, e, p)
    /\ UNCHANGED <<clock, account, clubTables, refreshing>>

\* The account with this Kakao id, or a new one; an address that has an
\* account already proves nothing about its owner.
kakao_account(p) == account[p].kakao \/ account[p].by = NoOne

\* The code is exchanged for a Kakao id and a verified address (external).
login_with_kakao(p) ==
    /\ kakao_account(p)
    /\ Len(auth) < MaxSessions
    /\ account' = IF account[p].by # NoOne THEN account
                  ELSE [account EXCEPT ![p] = [NoAccount EXCEPT
                            !.by = p, !.kakao = TRUE, !.verified = TRUE]]
    /\ auth' = issue_session(auth, p, p)
    /\ UNCHANGED <<clock, clubTables, refreshing>>

\* refresh reads the session without a lock ...
read_refresh(p, n) ==
    /\ refreshing[p] = 0
    /\ auth[n].by = p /\ ~auth[n].revoked /\ clock <= auth[n].until
    /\ refreshing' = [refreshing EXCEPT ![p] = n]
    /\ UNCHANGED <<clock, account, auth, clubTables>>

\* ... revokes it and issues another.
refresh(p) ==
    LET n == refreshing[p] IN
    /\ n # 0 /\ Len(auth) < MaxSessions
    /\ auth' = issue_session([auth EXCEPT ![n].revoked = TRUE],
                             auth[n].account, p)
    /\ refreshing' = [refreshing EXCEPT ![p] = 0]
    /\ UNCHANGED <<clock, account, clubTables>>

resolve_account_by_token(n) ==
    ~auth[n].revoked /\ clock <= auth[n].access_until

\* The account a person calls with.
get_current_account(p, e) ==
    \E n \in 1 .. Len(auth) :
        /\ auth[n].by = p /\ auth[n].account = e
        /\ resolve_account_by_token(n)

logout(p, n) ==
    /\ auth[n].by = p /\ ~auth[n].revoked
    /\ \E e \in People : get_current_account(p, e)
    /\ auth' = [auth EXCEPT ![n].revoked = TRUE]
    /\ UNCHANGED <<clock, account, clubTables, refreshing>>

----------------------------------------------------------------------------
(* Clubs *)

\* require_club_role.
ensure_member(c, e, roles) ==
    \E row \in member : row.club = c /\ row.account = e /\ row.role \in roles

create_club(e, c) ==
    /\ club[c] = 0
    /\ club' = [club EXCEPT ![c] = 1]
    /\ member' = member \cup {[club |-> c, account |-> e, role |-> "OWNER"]}
    /\ UNCHANGED <<clock, account, auth, invitation, refreshing>>

update_club(e, c) ==
    /\ ensure_member(c, e, {"OWNER"})
    /\ club' = [club EXCEPT ![c] = 3 - @]
    /\ UNCHANGED <<clock, account, auth, member, invitation, refreshing>>

create_invitation(e, c, i, role) ==
    /\ invitation[i] = NoInvitation
    /\ ensure_member(c, e, SERVICE_ROLES) /\ role \in SERVICE_ROLES
    /\ invitation' = [invitation EXCEPT ![i] =
           [club |-> c, role |-> role, until |-> clock + INVITATION_TTL,
            accepted |-> NoOne]]
    /\ UNCHANGED <<clock, account, auth, club, member, refreshing>>

\* accept_invitation's own checks.
acceptable_invitation(i) ==
    /\ invitation[i] # NoInvitation
    /\ clock <= invitation[i].until
    /\ invitation[i].role \in SERVICE_ROLES

\* Fault: every acceptance adds a member.
JoinAgain(e, i) == TRUE

\* The unique constraint on club and account.
may_join(e, i) ==
    \A row \in member : ~(row.club = invitation[i].club /\ row.account = e)

\* The link can be used by several accounts until it ends; the first one is
\* recorded.
accept_invitation(e, i) ==
    /\ acceptable_invitation(i) /\ may_join(e, i)
    /\ member' = member \cup {[club |-> invitation[i].club, account |-> e,
                               role |-> invitation[i].role]}
    /\ invitation' = [invitation EXCEPT ![i].accepted =
                          IF @ = NoOne THEN e ELSE @]
    /\ UNCHANGED <<clock, account, auth, club, refreshing>>

\* What the screen lists: the members, and invitations nobody has used yet.
list_members(c) ==
    [joined  |-> {row \in member : row.club = c},
     invited |-> {i \in Invitations : /\ invitation[i] # NoInvitation
                                      /\ invitation[i].club = c
                                      /\ invitation[i].accepted = NoOne
                                      /\ clock <= invitation[i].until}]

Wait ==
    /\ clock < MaxClock
    /\ clock' = clock + 1
    /\ UNCHANGED <<account, auth, clubTables, refreshing>>

AccountStep(p) ==
    \/ \E e \in People : signup(p, e) \/ login(p, e)
    \/ verify_email(p)
    \/ login_with_kakao(p)
    \/ \E n \in 1 .. Len(auth) : read_refresh(p, n) \/ logout(p, n)
    \/ refresh(p)

ClubStep(p, e) ==
    /\ get_current_account(p, e)
    /\ \/ \E c \in Clubs : create_club(e, c) \/ update_club(e, c)
       \/ \E c \in Clubs, i \in Invitations, role \in MemberRole :
              create_invitation(e, c, i, role)
       \/ \E i \in Invitations : accept_invitation(e, i)

ClubNext ==
    \/ \E p \in People : AccountStep(p)
    \/ \E p, e \in People : ClubStep(p, e)
    \/ Wait

----------------------------------------------------------------------------
(* Properties *)

\* Nobody holds a session of an account somebody else set up ("이메일만으로
\* 기존 계정의 소유권을 증명할 수 없다", login_with_kakao).
SessionsAreOnesOwn ==
    \A n \in 1 .. Len(auth) : auth[n].by = account[auth[n].account].by

\* A role in a club can be told: there is one row per account, though several
\* invitations, used in any order, may name it.
RolesAreClear ==
    \A row, other \in member :
        row.club = other.club /\ row.account = other.account => row = other

\* The first use of an invitation is kept, and that account is a member.
AcceptanceIsTrue ==
    \A i \in Invitations :
        invitation[i] # NoInvitation /\ invitation[i].accepted # NoOne =>
            [club |-> invitation[i].club, account |-> invitation[i].accepted,
             role |-> invitation[i].role] \in member

\* An invitation on the members' screen can still be used.
ListedCanJoin ==
    \A c \in Clubs, i \in Invitations :
        i \in list_members(c).invited => acceptable_invitation(i)

\* Over sign-ups with foreign addresses, both ways to log in, links used by
\* several people and expiry: accounts, roles and invitations are what
\* club_service and auth_service say of them.
ClubsAreInOrder ==
    /\ ClubTypeOK
    /\ SessionsAreOnesOwn /\ RolesAreClear /\ AcceptanceIsTrue /\ ListedCanJoin
=============================================================================
