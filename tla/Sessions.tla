------------------------------ MODULE Sessions ------------------------------
(***************************************************************************)
(* Users, the links they are mailed and their sessions (apps/users).       *)
(*                                                                         *)
(* A session is a refresh token with the access tokens made beside it.     *)
(* Every token carries a digest of the password hash it was made with and  *)
(* is good as long as that is the user's (CHECK_REVOKE_TOKEN); a refresh   *)
(* token is exchanged for another and put on the blacklist.  Logging in    *)
(* and refreshing read the user without a lock and make the tokens later,  *)
(* from what they read; a password may be set in between.  So may a link   *)
(* be opened, asked for again or revoked between the request's first look  *)
(* at it and the transaction's locks.                                      *)
(*                                                                         *)
(* A password hash is the number of times the user's password was set: a   *)
(* hash has its own salt and never comes back.                             *)
(***************************************************************************)
EXTENDS Naturals, Sequences, SequencesExt, FiniteSets

CONSTANTS
    Users, Requests,
    LinkLife, LinkCooldown, SessionLife,
    LastHour, MaxPasswords, MaxLinks, MaxSessions    \* bounds of the exploration

VARIABLES
    hour,
    account,   \* User, by email
    links,     \* UserActionToken, in the order of created_at
    sessions,  \* refresh tokens, in the order they are made
    serving,   \* what a request has read and not finished yet
    opened     \* the links that have done what they were for, in that order

sessionsVars == <<hour, account, links, sessions, serving, opened>>

Purposes == {"VERIFY_EMAIL", "RESET_PASSWORD"}
Hours == 0..LastHour
Passwords == 0..MaxPasswords
Accounts == [password : Passwords, verified : BOOLEAN, active : BOOLEAN]
Unregistered == [password |-> 0, verified |-> FALSE, active |-> FALSE]
Links == [user : Users, purpose : Purposes, made : Hours, until : Nat,
          consumed : BOOLEAN, revoked : BOOLEAN]
Tokens == [user : Users, claim : Passwords, proved : Passwords, until : Nat, blacklisted : BOOLEAN]
Idle == [does |-> "nothing"]
Signings == [does : {"sign"}, user : Users, read : Passwords, proved : Passwords,
             from : 0..MaxSessions]
Mailings == [does : {"mail"}, user : Users, purpose : Purposes]
Resets == [does : {"reset"}, link : 1..MaxLinks]

ASSUME SessionsAssumption ==
    /\ LinkLife \in Nat /\ LinkCooldown \in Nat /\ SessionLife \in Nat /\ LastHour \in Nat
    /\ MaxPasswords \in Nat \ {0} /\ MaxLinks \in Nat /\ MaxSessions \in Nat

SessionsTypeOK ==
    /\ hour \in Hours
    /\ account \in [Users -> Accounts]
    /\ links \in Seq(Links) /\ Len(links) <= MaxLinks
    /\ sessions \in Seq(Tokens) /\ Len(sessions) <= MaxSessions
    /\ serving \in [Requests -> {Idle} \cup Signings \cup Mailings \cup Resets]
    /\ opened \in Seq(1..MaxLinks)

SessionsInit ==
    /\ hour = 0
    /\ account = [u \in Users |-> Unregistered]
    /\ links = <<>> /\ sessions = <<>> /\ opened = <<>>
    /\ serving = [r \in Requests |-> Idle]

Registered(u) == account[u].password # 0
MayStart(u) == Registered(u) /\ account[u].active /\ account[u].verified
Take(r, work) == serving[r] = Idle /\ serving' = [serving EXCEPT ![r] = work]
Finish(r) == serving' = [serving EXCEPT ![r] = Idle]

----------------------------------------------------------------------------
(* Links *)

Open(l) == ~links[l].consumed /\ ~links[l].revoked
Valid(l) == Open(l) /\ links[l].until > hour
OpenOf(u, purpose) == {l \in DOMAIN links : links[l].user = u /\ links[l].purpose = purpose /\ Open(l)}
Revoked(some) == [l \in DOMAIN links |-> [links[l] EXCEPT !.revoked = @ \/ l \in some]]

\* create_user_action_token: what is open is revoked.  An insertion that finds another
\* request's new link in between is refused by the unique index, and nothing happens.
MailLink(u, purpose) ==
    /\ Len(links) < MaxLinks
    /\ links' = Append(Revoked(OpenOf(u, purpose)),
                       [user |-> u, purpose |-> purpose, made |-> hour, until |-> hour + LinkLife,
                        consumed |-> FALSE, revoked |-> FALSE])

Register(u) ==
    /\ ~Registered(u)
    /\ account' = [account EXCEPT ![u] = [password |-> 1, verified |-> FALSE, active |-> TRUE]]
    /\ MailLink(u, "VERIFY_EMAIL")
    /\ UNCHANGED <<hour, sessions, serving, opened>>

\* resend_email_verification and request_password_reset answer the same whatever they do;
\* the last link must not be too recent.
Ask(r, u, purpose) ==
    /\ Registered(u)
    /\ IF purpose = "VERIFY_EMAIL" THEN ~account[u].verified ELSE account[u].active
    /\ \A l \in DOMAIN links :
            links[l].user = u /\ links[l].purpose = purpose => links[l].made + LinkCooldown <= hour
    /\ Take(r, [does |-> "mail", user |-> u, purpose |-> purpose])
    /\ UNCHANGED <<hour, account, links, sessions, opened>>

Mail(r) ==
    /\ serving[r].does = "mail"
    /\ MailLink(serving[r].user, serving[r].purpose)
    /\ Finish(r)
    /\ UNCHANGED <<hour, account, sessions, opened>>

\* The mistake of relying on the first look at the link.
Consumable_AsFound(l) == l \in DOMAIN links

\* consume_user_action_token, the link's row being locked.
Consumable(l) == Valid(l)

VerifyEmail(l) ==
    /\ links[l].purpose = "VERIFY_EMAIL" /\ Consumable(l)
    /\ links' = [links EXCEPT ![l].consumed = TRUE]
    /\ account' = [account EXCEPT ![links[l].user].verified = TRUE]
    /\ opened' = Append(opened, l)
    /\ UNCHANGED <<hour, sessions, serving>>

\* confirm_password_reset looks at the link, then locks the user, consumes the link and
\* revokes what else is open.
OpenReset(r, l) ==
    /\ links[l].purpose = "RESET_PASSWORD" /\ Valid(l)
    /\ Take(r, [does |-> "reset", link |-> l])
    /\ UNCHANGED <<hour, account, links, sessions, opened>>

SetPassword(u) ==
    /\ account[u].password < MaxPasswords
    /\ account' = [account EXCEPT ![u].password = @ + 1]

ConfirmReset(r) ==
    LET l == serving[r].link
        u == links[l].user
    IN  /\ serving[r].does = "reset" /\ Consumable(l)
        /\ links' = [Revoked(OpenOf(u, "RESET_PASSWORD") \ {l}) EXCEPT ![l].consumed = TRUE]
        /\ SetPassword(u)
        /\ opened' = Append(opened, l)
        /\ Finish(r)
        /\ UNCHANGED <<hour, sessions>>

\* An invitation (Organizations) makes a user or sets the password of one.
EnterByInvitation(u, password) ==
    /\ password \in {account[u].password, account[u].password + 1} \cap (1..MaxPasswords)
    /\ account' = [account EXCEPT ![u] = [password |-> password, verified |-> TRUE, active |-> TRUE]]
    /\ UNCHANGED <<hour, links, sessions, serving, opened>>

\* An administrator closes an account.
Deactivate(u) ==
    /\ account[u].active
    /\ account' = [account EXCEPT ![u].active = FALSE]
    /\ UNCHANGED <<hour, links, sessions, serving, opened>>

----------------------------------------------------------------------------
(* Sessions *)

\* authenticate: the client has shown the password of the moment.
BeginLogin(r, u) ==
    /\ MayStart(u)
    /\ Take(r, [does |-> "sign", user |-> u, read |-> account[u].password,
                proved |-> account[u].password, from |-> 0])
    /\ UNCHANGED <<hour, account, links, sessions, opened>>

\* get_user_from_refresh_token
Good(s) ==
    LET token == sessions[s]
    IN  /\ ~token.blacklisted /\ token.until > hour
        /\ token.claim = account[token.user].password

BeginRefresh(r, s) ==
    LET u == sessions[s].user
    IN  /\ Good(s) /\ MayStart(u)
        /\ Take(r, [does |-> "sign", user |-> u, read |-> account[u].password,
                    proved |-> sessions[s].proved, from |-> s])
        /\ UNCHANGED <<hour, account, links, sessions, opened>>

\* The mistake of reading the user again when the tokens are made.
ClaimFor_Fresh(work) == account[work.user].password

\* RefreshToken.for_user is given the user as it was read.
ClaimFor(work) == work.read

Blacklisted(s) == [n \in DOMAIN sessions |-> [sessions[n] EXCEPT !.blacklisted = @ \/ n = s]]

\* The old token is put on the blacklist, where it may be already, and the new one made.
Sign(r) ==
    LET work == serving[r]
    IN  /\ work.does = "sign"
        /\ Len(sessions) < MaxSessions
        /\ sessions' = Append(Blacklisted(work.from),
                              [user |-> work.user, claim |-> ClaimFor(work), proved |-> work.proved,
                               until |-> hour + SessionLife, blacklisted |-> FALSE])
        /\ Finish(r)
        /\ UNCHANGED <<hour, account, links, opened>>

Logout(s) ==
    /\ ~sessions[s].blacklisted /\ sessions[s].until > hour
    /\ sessions' = Blacklisted(s)
    /\ UNCHANGED <<hour, account, links, serving, opened>>

----------------------------------------------------------------------------

\* A request fails, or its process dies, and leaves nothing.
Abandon(r) ==
    /\ serving[r] # Idle
    /\ Finish(r)
    /\ UNCHANGED <<hour, account, links, sessions, opened>>

HourPasses ==
    /\ hour < LastHour
    /\ hour' = hour + 1
    /\ UNCHANGED <<account, links, sessions, serving, opened>>

SessionsNext ==
    \/ HourPasses
    \/ \E u \in Users : Register(u) \/ Deactivate(u)
    \/ \E u \in Users, password \in Passwords : EnterByInvitation(u, password)
    \/ \E l \in DOMAIN links : VerifyEmail(l)
    \/ \E s \in DOMAIN sessions : Logout(s)
    \/ \E r \in Requests :
        \/ Mail(r) \/ ConfirmReset(r) \/ Sign(r) \/ Abandon(r)
        \/ \E u \in Users : BeginLogin(r, u) \/ \E purpose \in Purposes : Ask(r, u, purpose)
        \/ \E l \in DOMAIN links : OpenReset(r, l)
        \/ \E s \in DOMAIN sessions : BeginRefresh(r, s)

SessionsSpec == SessionsInit /\ [][SessionsNext]_sessionsVars

----------------------------------------------------------------------------
(* Properties *)

\* Setting a password ends every session: what the server still takes for good goes back,
\* through whatever chain of refreshes, to a login with the password of today, also if the
\* login or the refresh was under way when the password was set (get_user_from_refresh_token,
\* build_refresh_and_access_tokens).
PasswordEndsSessions ==
    \A s \in DOMAIN sessions :
        sessions[s].claim = account[sessions[s].user].password => sessions[s].proved = sessions[s].claim

\* A mailed link does its work once, never after a newer one was made in its place, and
\* there is one that may still (create_user_action_token, consume_user_action_token).
ActionLinkOpensOnce ==
    /\ IsInjective(opened)
    /\ \A n \in DOMAIN opened : links[opened[n]].consumed /\ ~links[opened[n]].revoked
    /\ \A u \in Users, purpose \in Purposes : \A k, l \in OpenOf(u, purpose) : k = l
=============================================================================
