---------------------------- MODULE AccountsProofs ----------------------------
(***************************************************************************)
(* What is proved of users and their sessions, of companies and their      *)
(* people, and of the two together, in this order.                         *)
(***************************************************************************)
EXTENDS Accounts, SequenceTheorems, FiniteSetTheorems, TLAPS

----------------------------------------------------------------------------
(***************************************************************************)
(* For any users, requests and lifetimes, every session the server takes   *)
(* for good goes back to a login with the password of the moment, and a    *)
(* mailed link does its work once.  The first follows from what a session  *)
(* carries: the digest in it is always that of the password it was proved  *)
(* with (ClaimIsProof), since a refresh reads the user while its token is  *)
(* good.  The second, from what has become of the links opened so far.     *)
(***************************************************************************)

\* A session, and a request that is to make one, has the digest of the password shown.
ClaimIsProof ==
    /\ \A s \in DOMAIN sessions : sessions[s].claim = sessions[s].proved
    /\ \A r \in Requests : serving[r].does = "sign" => serving[r].read = serving[r].proved

\* The links that are named exist.
LinksExist ==
    /\ \A r \in Requests : serving[r].does = "reset" => serving[r].link \in DOMAIN links
    /\ \A n \in DOMAIN opened : opened[n] \in DOMAIN links

SessionsIInv == SessionsTypeOK /\ ClaimIsProof /\ LinksExist /\ ActionLinkOpensOnce

----------------------------------------------------------------------------
(* Lemmas *)

\* What a request does tells what is known of it.
LEMMA WorkOf ==
    ASSUME SessionsTypeOK, NEW r \in Requests
    PROVE  /\ serving[r].does = "sign" => serving[r] \in Signings
           /\ serving[r].does = "mail" => serving[r] \in Mailings
           /\ serving[r].does = "reset" => serving[r] \in Resets
<1>1. serving[r] \in {Idle} \cup Signings \cup Mailings \cup Resets
  BY DEF SessionsTypeOK
<1>2. /\ Idle.does = "nothing"
      /\ \A w \in Signings : w.does = "sign"
      /\ \A w \in Mailings : w.does = "mail"
      /\ \A w \in Resets : w.does = "reset"
  BY DEF Idle, Signings, Mailings, Resets
<1>3. QED
  BY <1>1, <1>2

\* To revoke links is to mark them, where they are.
LEMMA RevokedLinks ==
    ASSUME SessionsTypeOK, NEW S
    PROVE  /\ Revoked(S) \in Seq(Links)
           /\ Len(Revoked(S)) = Len(links)
           /\ DOMAIN Revoked(S) = DOMAIN links
           /\ \A l \in DOMAIN links :
                /\ Revoked(S)[l].user = links[l].user
                /\ Revoked(S)[l].purpose = links[l].purpose
                /\ Revoked(S)[l].consumed = links[l].consumed
                /\ l \notin S => Revoked(S)[l].revoked = links[l].revoked
                /\ l \in S => Revoked(S)[l].revoked
<1>1. /\ links \in Seq(Links) /\ DOMAIN links = 1..Len(links) /\ Len(links) \in Nat
      /\ \A l \in DOMAIN links : links[l] \in Links
  BY LenProperties, ElementOfSeq DEF SessionsTypeOK
<1>2. \A l \in DOMAIN links : Revoked(S)[l] = [links[l] EXCEPT !.revoked = @ \/ l \in S]
  BY DEF Revoked
<1>3. ASSUME NEW l \in DOMAIN links
      PROVE  /\ Revoked(S)[l] \in Links
             /\ Revoked(S)[l].user = links[l].user
             /\ Revoked(S)[l].purpose = links[l].purpose
             /\ Revoked(S)[l].consumed = links[l].consumed
             /\ l \notin S => Revoked(S)[l].revoked = links[l].revoked
             /\ l \in S => Revoked(S)[l].revoked
  BY <1>1, <1>2 DEF Links
<1>4. DOMAIN Revoked(S) = 1..Len(links)
  BY <1>1 DEF Revoked
<1>5. Revoked(S) \in [1..Len(links) -> Links]
  BY <1>1, <1>3, <1>4 DEF Revoked
<1>6. Revoked(S) \in Seq(Links) /\ Len(Revoked(S)) = Len(links)
  BY <1>1, <1>5, SeqDef
<1>7. QED
  BY <1>1, <1>3, <1>4, <1>6

\* A session put on the blacklist is otherwise the same.
LEMMA BlacklistedSessions ==
    ASSUME SessionsTypeOK, NEW s
    PROVE  /\ Blacklisted(s) \in Seq(Tokens)
           /\ Len(Blacklisted(s)) = Len(sessions)
           /\ \A n \in DOMAIN sessions :
                /\ Blacklisted(s)[n].user = sessions[n].user
                /\ Blacklisted(s)[n].claim = sessions[n].claim
                /\ Blacklisted(s)[n].proved = sessions[n].proved
<1>1. /\ sessions \in Seq(Tokens) /\ DOMAIN sessions = 1..Len(sessions) /\ Len(sessions) \in Nat
      /\ \A n \in DOMAIN sessions : sessions[n] \in Tokens
  BY LenProperties, ElementOfSeq DEF SessionsTypeOK
<1>2. ASSUME NEW n \in DOMAIN sessions
      PROVE  /\ Blacklisted(s)[n] \in Tokens
             /\ Blacklisted(s)[n].user = sessions[n].user
             /\ Blacklisted(s)[n].claim = sessions[n].claim
             /\ Blacklisted(s)[n].proved = sessions[n].proved
  BY <1>1 DEF Blacklisted, Tokens
<1>3. Blacklisted(s) \in [1..Len(sessions) -> Tokens]
  BY <1>1, <1>2 DEF Blacklisted
<1>4. Blacklisted(s) \in Seq(Tokens) /\ Len(Blacklisted(s)) = Len(sessions)
  BY <1>1, <1>3, SeqDef
<1>5. QED
  BY <1>2, <1>4

----------------------------------------------------------------------------
(* Initially *)

LEMMA SessionsInitInvariant == SessionsInit => SessionsIInv
<1> SUFFICES ASSUME SessionsInit PROVE SessionsIInv
  OBVIOUS
<1>1. \A S : <<>> \in Seq(S) /\ Len(<<>>) = 0 /\ DOMAIN <<>> = {}
  BY EmptySeq
<1>2. SessionsTypeOK
  BY <1>1, SessionsAssumption DEF SessionsInit, SessionsTypeOK, Hours, Accounts, Unregistered, Passwords
<1>3. ClaimIsProof /\ LinksExist
  BY <1>1 DEF SessionsInit, ClaimIsProof, LinksExist, Idle
<1>4. ActionLinkOpensOnce
  BY <1>1 DEF SessionsInit, ActionLinkOpensOnce, IsInjective, OpenOf
<1>5. QED
  BY <1>2, <1>3, <1>4 DEF SessionsIInv

----------------------------------------------------------------------------
(* What steps do to the links *)

\* A link that is made is the only one open of its user and purpose.
LEMMA MailedLink ==
    ASSUME SessionsIInv, NEW u \in Users, NEW purpose \in Purposes, MailLink(u, purpose), UNCHANGED opened
    PROVE  /\ links' \in Seq(Links) /\ Len(links') <= MaxLinks
           /\ DOMAIN links \subseteq DOMAIN links'
           /\ ActionLinkOpensOnce'
           /\ \A n \in DOMAIN opened : opened[n] \in DOMAIN links'
<1> DEFINE new == [user |-> u, purpose |-> purpose, made |-> hour, until |-> hour + LinkLife,
                   consumed |-> FALSE, revoked |-> FALSE]
           old == Revoked(OpenOf(u, purpose))
<1>1. new \in Links
  BY SessionsAssumption DEF SessionsIInv, SessionsTypeOK, Links, Hours
<1>2. /\ old \in Seq(Links) /\ Len(old) = Len(links) /\ DOMAIN old = DOMAIN links
      /\ \A l \in DOMAIN links :
            /\ old[l].user = links[l].user
            /\ old[l].purpose = links[l].purpose
            /\ old[l].consumed = links[l].consumed
            /\ l \notin OpenOf(u, purpose) => old[l].revoked = links[l].revoked
            /\ l \in OpenOf(u, purpose) => old[l].revoked
  BY RevokedLinks DEF SessionsIInv
<1>3. Len(links) \in Nat /\ DOMAIN links = 1..Len(links)
  BY LenProperties DEF SessionsIInv, SessionsTypeOK
<1>4. links' = Append(old, new) /\ Len(links) < MaxLinks
  BY DEF MailLink
<1>5. /\ links' \in Seq(Links) /\ Len(links') = Len(links) + 1
      /\ DOMAIN links' = 1..Len(links) + 1
      /\ \A l \in DOMAIN links : links'[l] = old[l]
      /\ links'[Len(links) + 1] = new
  BY <1>1, <1>2, <1>3, <1>4, AppendProperties
<1>6. DOMAIN links' = DOMAIN links \cup {Len(links) + 1} /\ Len(links) + 1 \notin DOMAIN links
  BY <1>3, <1>5
<1>7. \A n \in DOMAIN opened : opened[n] \in DOMAIN links
  BY DEF SessionsIInv, LinksExist
<1>8. \A n \in DOMAIN opened : links'[opened[n]].consumed /\ ~links'[opened[n]].revoked
  BY <1>2, <1>5, <1>7 DEF SessionsIInv, ActionLinkOpensOnce, OpenOf, Open
<1>9. ASSUME NEW v \in Users, NEW p \in Purposes, NEW k \in OpenOf(v, p)', NEW l \in OpenOf(v, p)'
      PROVE  k = l
  <2>1. \A x \in OpenOf(v, p)' : x \in DOMAIN links => x \in OpenOf(v, p) /\ <<v, p>> # <<u, purpose>>
    BY <1>2, <1>5, <1>6 DEF OpenOf, Open
  <2>2. \A x \in OpenOf(v, p)' : x \notin DOMAIN links => x = Len(links) + 1 /\ <<v, p>> = <<u, purpose>>
    BY <1>5, <1>6 DEF OpenOf, Open
  <2>3. QED
    BY <2>1, <2>2 DEF SessionsIInv, ActionLinkOpensOnce
<1>10. ActionLinkOpensOnce'
  BY <1>8, <1>9 DEF ActionLinkOpensOnce, SessionsIInv
<1>11. QED
  BY SessionsAssumption, <1>3, <1>4, <1>5, <1>6, <1>7, <1>10

\* To use a link that is open, and revoke others perhaps, opens it for the first time.
LEMMA UsedLink ==
    ASSUME SessionsIInv, NEW l \in DOMAIN links, Open(l), NEW S, S \subseteq DOMAIN links,
           \A k \in S : Open(k), l \notin S,
           links' = [Revoked(S) EXCEPT ![l].consumed = TRUE], opened' = Append(opened, l)
    PROVE  /\ links' \in Seq(Links) /\ Len(links') <= MaxLinks
           /\ DOMAIN links' = DOMAIN links
           /\ opened' \in Seq(1..MaxLinks)
           /\ ActionLinkOpensOnce'
           /\ \A n \in DOMAIN opened' : opened'[n] \in DOMAIN links'
<1>1. /\ Revoked(S) \in Seq(Links) /\ Len(Revoked(S)) = Len(links) /\ DOMAIN Revoked(S) = DOMAIN links
      /\ \A k \in DOMAIN links :
            /\ Revoked(S)[k].user = links[k].user
            /\ Revoked(S)[k].purpose = links[k].purpose
            /\ Revoked(S)[k].consumed = links[k].consumed
            /\ k \notin S => Revoked(S)[k].revoked = links[k].revoked
            /\ k \in S => Revoked(S)[k].revoked
  BY RevokedLinks DEF SessionsIInv
<1>2. Len(links) \in Nat /\ DOMAIN links = 1..Len(links) /\ Len(links) <= MaxLinks
  BY LenProperties DEF SessionsIInv, SessionsTypeOK
<1>3. /\ Revoked(S)[l] \in Links
      /\ [Revoked(S)[l] EXCEPT !.consumed = TRUE] \in Links
      /\ [Revoked(S)[l] EXCEPT !.consumed = TRUE].consumed = TRUE
      /\ [Revoked(S)[l] EXCEPT !.consumed = TRUE].revoked = Revoked(S)[l].revoked
      /\ [Revoked(S)[l] EXCEPT !.consumed = TRUE].user = Revoked(S)[l].user
      /\ [Revoked(S)[l] EXCEPT !.consumed = TRUE].purpose = Revoked(S)[l].purpose
  <2>1. Revoked(S)[l] \in Links
    BY <1>1, <1>2, ElementOfSeq
  <2>2. QED
    BY <2>1 DEF Links
<1>4. links' = [Revoked(S) EXCEPT ![l] = [Revoked(S)[l] EXCEPT !.consumed = TRUE]]
  OBVIOUS
<1>5. /\ links' \in Seq(Links) /\ Len(links') = Len(links) /\ DOMAIN links' = DOMAIN links
      /\ links'[l] = [Revoked(S)[l] EXCEPT !.consumed = TRUE]
      /\ \A k \in DOMAIN links : k # l => links'[k] = Revoked(S)[k]
  BY <1>1, <1>2, <1>3, <1>4, ExceptSeq, LenProperties
<1>6. /\ opened \in Seq(1..MaxLinks) /\ Len(opened) \in Nat /\ DOMAIN opened = 1..Len(opened)
  BY LenProperties DEF SessionsIInv, SessionsTypeOK
<1>7. l \in 1..MaxLinks
  BY <1>2, SessionsAssumption
<1>8. /\ opened' \in Seq(1..MaxLinks) /\ DOMAIN opened' = 1..Len(opened) + 1
      /\ \A n \in DOMAIN opened : opened'[n] = opened[n]
      /\ opened'[Len(opened) + 1] = l
  BY <1>6, <1>7, AppendProperties, LenProperties
<1>9. DOMAIN opened' = DOMAIN opened \cup {Len(opened) + 1}
  BY <1>6, <1>8
<1>10. \A n \in DOMAIN opened : /\ opened[n] \in DOMAIN links /\ opened[n] # l /\ opened[n] \notin S
                                /\ links[opened[n]].consumed /\ ~links[opened[n]].revoked
  BY DEF SessionsIInv, LinksExist, ActionLinkOpensOnce, Open
<1>11. IsInjective(opened')
  BY <1>8, <1>9, <1>10 DEF SessionsIInv, ActionLinkOpensOnce, IsInjective
<1>12. \A n \in DOMAIN opened : links'[opened[n]].consumed /\ ~links'[opened[n]].revoked
  BY <1>1, <1>5, <1>10
<1>13. links'[l].consumed /\ ~links'[l].revoked
  BY <1>1, <1>3, <1>5 DEF Open
<1>14. \A v \in Users, p \in Purposes : OpenOf(v, p)' \subseteq OpenOf(v, p)
  <2> SUFFICES ASSUME NEW v \in Users, NEW p \in Purposes, NEW k \in OpenOf(v, p)'
               PROVE  k \in OpenOf(v, p)
    OBVIOUS
  <2>1. k \in DOMAIN links /\ k # l
    BY <1>3, <1>5 DEF OpenOf, Open
  <2>2. links'[k] = Revoked(S)[k]
    BY <1>5, <2>1
  <2>3. QED
    BY <1>1, <2>1, <2>2 DEF OpenOf, Open
<1>15. ActionLinkOpensOnce'
  BY <1>8, <1>9, <1>11, <1>12, <1>13, <1>14 DEF SessionsIInv, ActionLinkOpensOnce
<1>16. QED
  BY <1>2, <1>5, <1>8, <1>9, <1>10, <1>15

----------------------------------------------------------------------------
(* One lemma for each kind of step *)

\* A request takes up work, on nothing but what it has read.
LEMMA TakesUp ==
    ASSUME SessionsIInv, NEW r \in Requests, NEW work \in Signings \cup Mailings \cup Resets,
           work.does = "sign" => work.read = work.proved,
           work.does = "reset" => work.link \in DOMAIN links,
           serving' = [serving EXCEPT ![r] = work],
           UNCHANGED <<hour, account, links, sessions, opened>>
    PROVE  SessionsIInv'
<1>1. /\ serving' \in [Requests -> {Idle} \cup Signings \cup Mailings \cup Resets]
      /\ serving'[r] = work
      /\ \A q \in Requests : q # r => serving'[q] = serving[q]
  BY DEF SessionsIInv, SessionsTypeOK
<1>2. SessionsTypeOK'
  BY <1>1 DEF SessionsIInv, SessionsTypeOK
<1>3. ClaimIsProof' /\ LinksExist'
  BY <1>1 DEF SessionsIInv, ClaimIsProof, LinksExist
<1>4. ActionLinkOpensOnce'
  BY DEF SessionsIInv, ActionLinkOpensOnce, OpenOf, Open
<1>5. QED
  BY <1>2, <1>3, <1>4 DEF SessionsIInv

\* A request is done with, whatever else its step does to accounts that keep their type.
LEMMA Finished ==
    ASSUME SessionsIInv, NEW r \in Requests, Finish(r)
    PROVE  /\ serving' \in [Requests -> {Idle} \cup Signings \cup Mailings \cup Resets]
           /\ \A q \in Requests : serving'[q] = serving[q] \/ serving'[q].does = "nothing"
BY DEF SessionsIInv, SessionsTypeOK, Finish, Idle

LEMMA AsksOrBegins ==
    ASSUME SessionsIInv, NEW r \in Requests,
           \/ \E u \in Users : BeginLogin(r, u) \/ \E purpose \in Purposes : Ask(r, u, purpose)
           \/ \E l \in DOMAIN links : OpenReset(r, l)
           \/ \E s \in DOMAIN sessions : BeginRefresh(r, s)
    PROVE  SessionsIInv'
<1>1. /\ account \in [Users -> Accounts]
      /\ DOMAIN sessions = 1..Len(sessions) /\ Len(sessions) \in Nat /\ Len(sessions) <= MaxSessions
      /\ \A s \in DOMAIN sessions : sessions[s] \in Tokens
      /\ DOMAIN links = 1..Len(links) /\ Len(links) \in Nat /\ Len(links) <= MaxLinks
  BY LenProperties, ElementOfSeq DEF SessionsIInv, SessionsTypeOK
<1>2. ASSUME NEW u \in Users, BeginLogin(r, u) PROVE SessionsIInv'
  <2> DEFINE work == [does |-> "sign", user |-> u, read |-> account[u].password,
                      proved |-> account[u].password, from |-> 0]
  <2>1. work \in Signings
    BY <1>1, SessionsAssumption DEF Signings, Accounts
  <2>2. QED
    BY <1>2, <2>1, TakesUp DEF BeginLogin, Take
<1>3. ASSUME NEW u \in Users, NEW purpose \in Purposes, Ask(r, u, purpose) PROVE SessionsIInv'
  <2> DEFINE work == [does |-> "mail", user |-> u, purpose |-> purpose]
  <2>1. work \in Mailings
    BY DEF Mailings
  <2>2. QED
    BY <1>3, <2>1, TakesUp DEF Ask, Take
<1>4. ASSUME NEW l \in DOMAIN links, OpenReset(r, l) PROVE SessionsIInv'
  <2> DEFINE work == [does |-> "reset", link |-> l]
  <2>1. work \in Resets
    BY <1>1, SessionsAssumption DEF Resets
  <2>2. QED
    BY <1>4, <2>1, TakesUp DEF OpenReset, Take
<1>5. ASSUME NEW s \in DOMAIN sessions, BeginRefresh(r, s) PROVE SessionsIInv'
  <2> DEFINE u == sessions[s].user
             work == [does |-> "sign", user |-> u, read |-> account[u].password,
                      proved |-> sessions[s].proved, from |-> s]
  <2>1. sessions[s].user \in Users /\ sessions[s].proved \in Passwords
    BY <1>1 DEF Tokens
  <2>2. work \in Signings
    BY <1>1, <2>1, SessionsAssumption DEF Signings, Accounts
  <2>3. account[u].password = sessions[s].proved
    BY <1>5 DEF BeginRefresh, Good, SessionsIInv, ClaimIsProof
  <2>4. serving' = [serving EXCEPT ![r] = work]
    BY <1>5 DEF BeginRefresh, Take
  <2>5. UNCHANGED <<hour, account, links, sessions, opened>>
    BY <1>5 DEF BeginRefresh
  <2>6. QED
    BY <2>2, <2>3, <2>4, <2>5, TakesUp
<1>6. QED
  BY <1>2, <1>3, <1>4, <1>5

LEMMA MailsOrRegisters ==
    ASSUME SessionsIInv, (\E r \in Requests : Mail(r)) \/ (\E u \in Users : Register(u))
    PROVE  SessionsIInv'
<1>1. ASSUME NEW r \in Requests, Mail(r) PROVE SessionsIInv'
  <2>1. serving[r].user \in Users /\ serving[r].purpose \in Purposes
    BY <1>1, WorkOf DEF Mail, Mailings, SessionsIInv
  <2>2. MailLink(serving[r].user, serving[r].purpose) /\ Finish(r) /\ UNCHANGED <<hour, account, sessions, opened>>
    BY <1>1 DEF Mail
  <2>3. /\ links' \in Seq(Links) /\ Len(links') <= MaxLinks
        /\ DOMAIN links \subseteq DOMAIN links'
        /\ ActionLinkOpensOnce'
        /\ \A n \in DOMAIN opened : opened[n] \in DOMAIN links'
    BY <2>1, <2>2, MailedLink
  <2>4. /\ serving' \in [Requests -> {Idle} \cup Signings \cup Mailings \cup Resets]
        /\ \A q \in Requests : serving'[q] = serving[q] \/ serving'[q].does = "nothing"
    BY <2>2, Finished
  <2>5. SessionsTypeOK'
    BY <2>2, <2>3, <2>4 DEF SessionsIInv, SessionsTypeOK
  <2>6. ClaimIsProof' /\ LinksExist'
    BY <2>2, <2>3, <2>4 DEF SessionsIInv, ClaimIsProof, LinksExist
  <2>7. QED
    BY <2>3, <2>5, <2>6 DEF SessionsIInv
<1>2. ASSUME NEW u \in Users, Register(u) PROVE SessionsIInv'
  <2>1. /\ MailLink(u, "VERIFY_EMAIL") /\ UNCHANGED <<hour, sessions, serving, opened>>
        /\ account' = [account EXCEPT ![u] = [password |-> 1, verified |-> FALSE, active |-> TRUE]]
    BY <1>2 DEF Register
  <2>2. "VERIFY_EMAIL" \in Purposes
    BY DEF Purposes
  <2>3. /\ links' \in Seq(Links) /\ Len(links') <= MaxLinks
        /\ DOMAIN links \subseteq DOMAIN links'
        /\ ActionLinkOpensOnce'
        /\ \A n \in DOMAIN opened : opened[n] \in DOMAIN links'
    BY <2>1, <2>2, MailedLink
  <2>4. [password |-> 1, verified |-> FALSE, active |-> TRUE] \in Accounts
    BY SessionsAssumption DEF Accounts, Passwords
  <2>5. SessionsTypeOK'
    BY <2>1, <2>3, <2>4 DEF SessionsIInv, SessionsTypeOK
  <2>6. ClaimIsProof' /\ LinksExist'
    BY <2>1, <2>3 DEF SessionsIInv, ClaimIsProof, LinksExist
  <2>7. QED
    BY <2>3, <2>5, <2>6 DEF SessionsIInv
<1>3. QED
  BY <1>1, <1>2

LEMMA VerifiesOrResets ==
    ASSUME SessionsIInv, (\E l \in DOMAIN links : VerifyEmail(l)) \/ (\E r \in Requests : ConfirmReset(r))
    PROVE  SessionsIInv'
<1>1. /\ links \in Seq(Links) /\ DOMAIN links = 1..Len(links)
      /\ \A l \in DOMAIN links : links[l] \in Links
      /\ account \in [Users -> Accounts]
  BY LenProperties, ElementOfSeq DEF SessionsIInv, SessionsTypeOK
<1>2. ASSUME NEW l \in DOMAIN links, VerifyEmail(l) PROVE SessionsIInv'
  <2> DEFINE none == {k \in DOMAIN links : FALSE}
  <2>1. links = Revoked(none)
    <3>1. \A k \in DOMAIN links : [links[k] EXCEPT !.revoked = @ \/ k \in none] = links[k]
      BY <1>1 DEF Links
    <3>2. links = [k \in DOMAIN links |-> links[k]]
      BY <1>1
    <3>3. QED
      BY <3>1, <3>2 DEF Revoked
  <2>2. Open(l) /\ links' = [Revoked(none) EXCEPT ![l].consumed = TRUE] /\ opened' = Append(opened, l)
    BY <1>2, <2>1 DEF VerifyEmail, Consumable, Valid
  <2>3. /\ links' \in Seq(Links) /\ Len(links') <= MaxLinks
        /\ DOMAIN links' = DOMAIN links
        /\ opened' \in Seq(1..MaxLinks)
        /\ ActionLinkOpensOnce'
        /\ \A n \in DOMAIN opened' : opened'[n] \in DOMAIN links'
    <3>1. none \subseteq DOMAIN links /\ l \notin none /\ \A k \in none : Open(k)
      OBVIOUS
    <3> HIDE DEF none
    <3>2. QED
      BY <2>2, <3>1, UsedLink
  <2>4. /\ UNCHANGED <<hour, sessions, serving>>
        /\ account' = [account EXCEPT ![links[l].user].verified = TRUE]
    BY <1>2 DEF VerifyEmail
  <2>5. account' \in [Users -> Accounts]
    BY <1>1, <2>4 DEF Accounts
  <2>6. SessionsTypeOK' /\ ClaimIsProof' /\ LinksExist'
    BY <2>3, <2>4, <2>5 DEF SessionsIInv, SessionsTypeOK, ClaimIsProof, LinksExist
  <2>7. QED
    BY <2>3, <2>6 DEF SessionsIInv
<1>3. ASSUME NEW r \in Requests, ConfirmReset(r) PROVE SessionsIInv'
  <2> DEFINE l == serving[r].link
             u == links[l].user
             S == OpenOf(u, "RESET_PASSWORD") \ {l}
  <2>1. /\ serving[r].does = "reset" /\ Consumable(l) /\ SetPassword(u)
        /\ links' = [Revoked(S) EXCEPT ![l].consumed = TRUE]
        /\ opened' = Append(opened, l) /\ Finish(r) /\ UNCHANGED <<hour, sessions>>
    BY <1>3 DEF ConfirmReset
  <2>2. l \in DOMAIN links /\ Open(l)
    BY <2>1 DEF SessionsIInv, LinksExist, Consumable, Valid
  <2>3. S \subseteq DOMAIN links /\ l \notin S /\ \A k \in S : Open(k)
    BY DEF OpenOf
  <2> HIDE DEF S, l
  <2>4. /\ links' \in Seq(Links) /\ Len(links') <= MaxLinks
        /\ DOMAIN links' = DOMAIN links
        /\ opened' \in Seq(1..MaxLinks)
        /\ ActionLinkOpensOnce'
        /\ \A n \in DOMAIN opened' : opened'[n] \in DOMAIN links'
    BY <2>1, <2>2, <2>3, UsedLink
  <2>5. account' \in [Users -> Accounts]
    <3>1. u \in Users
      BY <1>1, <2>2 DEF Links
    <3>2. account[u].password + 1 \in Passwords
      BY <1>1, <2>1, <3>1, SessionsAssumption DEF SetPassword, Accounts, Passwords
    <3>3. account' = [account EXCEPT ![u].password = @ + 1]
      BY <2>1 DEF SetPassword
    <3>4. QED
      BY <1>1, <3>1, <3>2, <3>3 DEF Accounts
  <2>6. /\ serving' \in [Requests -> {Idle} \cup Signings \cup Mailings \cup Resets]
        /\ \A q \in Requests : serving'[q] = serving[q] \/ serving'[q].does = "nothing"
    BY <2>1, Finished
  <2>7. SessionsTypeOK' /\ ClaimIsProof' /\ LinksExist'
    BY <2>1, <2>4, <2>5, <2>6 DEF SessionsIInv, SessionsTypeOK, ClaimIsProof, LinksExist
  <2>8. QED
    BY <2>4, <2>7 DEF SessionsIInv
<1>4. QED
  BY <1>2, <1>3

LEMMA SignsOrLeaves ==
    ASSUME SessionsIInv, (\E r \in Requests : Sign(r)) \/ (\E s \in DOMAIN sessions : Logout(s))
    PROVE  SessionsIInv'
<1>1. Len(sessions) \in Nat /\ DOMAIN sessions = 1..Len(sessions)
  BY LenProperties DEF SessionsIInv, SessionsTypeOK
<1>2. ASSUME UNCHANGED <<hour, account, links, opened>>
      PROVE  ActionLinkOpensOnce'
  BY <1>2 DEF SessionsIInv, ActionLinkOpensOnce, OpenOf, Open
<1>3. ASSUME NEW r \in Requests, Sign(r) PROVE SessionsIInv'
  <2> DEFINE work == serving[r]
             old == Blacklisted(work.from)
             token == [user |-> work.user, claim |-> ClaimFor(work), proved |-> work.proved,
                       until |-> hour + SessionLife, blacklisted |-> FALSE]
  <2>1. /\ work.does = "sign" /\ Len(sessions) < MaxSessions /\ sessions' = Append(old, token)
        /\ Finish(r) /\ UNCHANGED <<hour, account, links, opened>>
    BY <1>3 DEF Sign
  <2>2. work \in Signings
    BY <2>1, WorkOf DEF SessionsIInv
  <2>3. token \in Tokens /\ token.claim = token.proved
    <3>1. work.user \in Users /\ work.read \in Passwords /\ work.proved \in Passwords
      BY <2>2 DEF Signings
    <3>2. work.read = work.proved
      BY <2>1 DEF SessionsIInv, ClaimIsProof
    <3>3. hour + SessionLife \in Nat
      BY SessionsAssumption DEF SessionsIInv, SessionsTypeOK, Hours
    <3>4. QED
      BY <3>1, <3>2, <3>3 DEF Tokens, ClaimFor
  <2>4. /\ old \in Seq(Tokens) /\ Len(old) = Len(sessions)
        /\ \A n \in DOMAIN sessions : old[n].claim = sessions[n].claim /\ old[n].proved = sessions[n].proved
    BY BlacklistedSessions DEF SessionsIInv
  <2> HIDE DEF old, token
  <2>5. /\ sessions' \in Seq(Tokens) /\ Len(sessions') = Len(sessions) + 1
        /\ DOMAIN sessions' = 1..Len(sessions) + 1
        /\ \A n \in DOMAIN sessions : sessions'[n] = old[n]
        /\ sessions'[Len(sessions) + 1] = token
    BY <1>1, <2>1, <2>3, <2>4, AppendProperties
  <2>6. DOMAIN sessions' = DOMAIN sessions \cup {Len(sessions) + 1}
    BY <1>1, <2>5
  <2>7. \A n \in DOMAIN sessions' : sessions'[n].claim = sessions'[n].proved
    BY <2>3, <2>4, <2>5, <2>6 DEF SessionsIInv, ClaimIsProof
  <2>8. /\ serving' \in [Requests -> {Idle} \cup Signings \cup Mailings \cup Resets]
        /\ \A q \in Requests : serving'[q] = serving[q] \/ serving'[q].does = "nothing"
    BY <2>1, Finished
  <2>9. SessionsTypeOK'
    BY <1>1, <2>1, <2>5, <2>8, SessionsAssumption DEF SessionsIInv, SessionsTypeOK
  <2>10. ClaimIsProof' /\ LinksExist'
    BY <2>1, <2>7, <2>8 DEF SessionsIInv, ClaimIsProof, LinksExist
  <2>11. QED
    BY <1>2, <2>1, <2>9, <2>10 DEF SessionsIInv
<1>4. ASSUME NEW s \in DOMAIN sessions, Logout(s) PROVE SessionsIInv'
  <2>1. sessions' = Blacklisted(s) /\ UNCHANGED <<hour, account, links, serving, opened>>
    BY <1>4 DEF Logout
  <2>2. /\ sessions' \in Seq(Tokens) /\ Len(sessions') = Len(sessions)
        /\ DOMAIN sessions' = DOMAIN sessions
        /\ \A n \in DOMAIN sessions :
              sessions'[n].claim = sessions[n].claim /\ sessions'[n].proved = sessions[n].proved
    <3>1. DOMAIN Blacklisted(s) = DOMAIN sessions
      BY DEF Blacklisted
    <3>2. QED
      BY <2>1, <3>1, BlacklistedSessions DEF SessionsIInv
  <2>3. SessionsTypeOK' /\ ClaimIsProof' /\ LinksExist'
    BY <2>1, <2>2 DEF SessionsIInv, SessionsTypeOK, ClaimIsProof, LinksExist
  <2>4. QED
    BY <1>2, <2>1, <2>3 DEF SessionsIInv
<1>5. QED
  BY <1>3, <1>4

\* What concerns neither links nor sessions.
LEMMA Others ==
    ASSUME SessionsIInv,
           \/ HourPasses \/ UNCHANGED sessionsVars
           \/ \E u \in Users : Deactivate(u) \/ \E password \in Passwords : EnterByInvitation(u, password)
           \/ \E r \in Requests : Abandon(r)
    PROVE  SessionsIInv'
<1>1. ASSUME UNCHANGED <<links, sessions, opened>>, hour' \in Hours, account' \in [Users -> Accounts],
             serving' \in [Requests -> {Idle} \cup Signings \cup Mailings \cup Resets],
             \A q \in Requests : serving'[q] = serving[q] \/ serving'[q].does = "nothing"
      PROVE  SessionsIInv'
  <2>1. SessionsTypeOK' /\ ClaimIsProof' /\ LinksExist'
    BY <1>1 DEF SessionsIInv, SessionsTypeOK, ClaimIsProof, LinksExist
  <2>2. ActionLinkOpensOnce'
    BY <1>1 DEF SessionsIInv, ActionLinkOpensOnce, OpenOf, Open
  <2>3. QED
    BY <2>1, <2>2 DEF SessionsIInv
<1>2. CASE HourPasses
  BY <1>1, <1>2, SessionsAssumption DEF HourPasses, SessionsIInv, SessionsTypeOK, Hours
<1>3. CASE UNCHANGED sessionsVars
  BY <1>1, <1>3 DEF sessionsVars, SessionsIInv, SessionsTypeOK
<1>4. ASSUME NEW u \in Users, Deactivate(u) PROVE SessionsIInv'
  <2>1. account' \in [Users -> Accounts]
    BY <1>4 DEF Deactivate, SessionsIInv, SessionsTypeOK, Accounts
  <2>2. QED
    BY <1>1, <1>4, <2>1 DEF Deactivate, SessionsIInv, SessionsTypeOK
<1>5. ASSUME NEW u \in Users, NEW password \in Passwords, EnterByInvitation(u, password) PROVE SessionsIInv'
  <2>1. account' \in [Users -> Accounts]
    BY <1>5 DEF EnterByInvitation, SessionsIInv, SessionsTypeOK, Accounts
  <2>2. QED
    BY <1>1, <1>5, <2>1 DEF EnterByInvitation, SessionsIInv, SessionsTypeOK
<1>6. ASSUME NEW r \in Requests, Abandon(r) PROVE SessionsIInv'
  BY <1>1, <1>6, Finished DEF Abandon, SessionsIInv, SessionsTypeOK
<1>7. QED
  BY <1>2, <1>3, <1>4, <1>5, <1>6

LEMMA SessionsNextInvariant == SessionsIInv /\ [SessionsNext]_sessionsVars => SessionsIInv'
<1> SUFFICES ASSUME SessionsIInv, [SessionsNext]_sessionsVars PROVE SessionsIInv'
  OBVIOUS
<1>1. CASE \/ HourPasses \/ UNCHANGED sessionsVars
           \/ \E u \in Users : Deactivate(u) \/ \E password \in Passwords : EnterByInvitation(u, password)
           \/ \E r \in Requests : Abandon(r)
  BY <1>1, Others
<1>2. CASE (\E r \in Requests : Mail(r)) \/ (\E u \in Users : Register(u))
  BY <1>2, MailsOrRegisters
<1>3. CASE (\E l \in DOMAIN links : VerifyEmail(l)) \/ (\E r \in Requests : ConfirmReset(r))
  BY <1>3, VerifiesOrResets
<1>4. CASE (\E r \in Requests : Sign(r)) \/ (\E s \in DOMAIN sessions : Logout(s))
  BY <1>4, SignsOrLeaves
<1>5. CASE \E r \in Requests :
              \/ \E u \in Users : BeginLogin(r, u) \/ \E purpose \in Purposes : Ask(r, u, purpose)
              \/ \E l \in DOMAIN links : OpenReset(r, l)
              \/ \E s \in DOMAIN sessions : BeginRefresh(r, s)
  BY <1>5, AsksOrBegins
<1>6. QED
  BY <1>1, <1>2, <1>3, <1>4, <1>5 DEF SessionsNext

----------------------------------------------------------------------------
(* The theorems *)

\* Sessions carry the digest of the password they were proved with, and links open once.
THEOREM SessionsInvariant == SessionsSpec => []SessionsIInv
<1>1. QED
  BY SessionsInitInvariant, SessionsNextInvariant, PTL DEF SessionsSpec

\* Every variable keeps its type (apps/users/models.py).
THEOREM SessionsTypeCorrect == SessionsSpec => []SessionsTypeOK
<1>1. SessionsIInv => SessionsTypeOK
  BY DEF SessionsIInv
<1>2. QED
  BY <1>1, SessionsInvariant, PTL

\* Setting a password ends every session that goes back to an earlier one, those too that a
\* login or a refresh was about to make (get_user_from_refresh_token).
THEOREM PasswordEnds == SessionsSpec => []PasswordEndsSessions
<1>1. SessionsIInv => PasswordEndsSessions
  BY DEF SessionsIInv, ClaimIsProof, PasswordEndsSessions
<1>2. QED
  BY <1>1, SessionsInvariant, PTL

\* A mailed link does its work once, never after a newer one took its place, and one alone
\* may still do it (consume_user_action_token, create_user_action_token).
THEOREM LinksOnce == SessionsSpec => []ActionLinkOpensOnce
<1>1. SessionsIInv => ActionLinkOpensOnce
  BY DEF SessionsIInv
<1>2. QED
  BY <1>1, SessionsInvariant, PTL

----------------------------------------------------------------------------
(***************************************************************************)
(* For any companies with their sites, zones, people, roles and plans:     *)
(* members are shown the places they have the permission for, the limits   *)
(* of the plan hold but for the places a late save has brought back, and   *)
(* an invitation makes one member.                                         *)
(*                                                                         *)
(* The first is a matter of the grants alone, whatever they are.  The      *)
(* second needs to know what requests the views let through: of an update, *)
(* that it has read an active place (RequestsMeant); and that a creation   *)
(* still has the room it counted, and is its company's only one            *)
(* (CreationsFit).  The third follows from what has become of an           *)
(* invitation (InvitationFate).                                            *)
(***************************************************************************)

PlaceWork == {"create", "insert", "update", "archive", "bring back"}
MemberWork == {"suspend", "reactivate", "role", "regrant"}

\* What requests are about, and what is still so of it.
RequestsMeant ==
    \A r \in requests :
        /\ r.does \in {"cancel", "resend"} => r.about \in DOMAIN invitations
        /\ r.does \in MemberWork => r.about \in People /\ member[r.about] # NotMember
        /\ r.does \in PlaceWork => r.about \in Places /\ r.company = CompanyOfScope(r.about)
        /\ r.does = "update" => r.read = "ACTIVE" /\ place[r.about] # "NONE"

\* An invitation that was accepted was opened by the link it has, and stays as it is.
InvitationFate ==
    \A i \in DOMAIN invitations :
        IF invitations[i].accepted
        THEN invitations[i].opened = <<invitations[i].link>> /\ ~invitations[i].cancelled
        ELSE invitations[i].opened = <<>>

\* There is room for x in the plan of c, the places left out that a late save has reopened.
RoomLeft(c, x) ==
    /\ x \in Sites => Cardinality((Live(c, Sites) \ undone) \ {x}) < SiteLimit
    /\ x \in Zones => Cardinality((Live(c, Zones) \ undone) \ {x}) < ZoneLimit

\* What a creation has counted is still so when it inserts; no other has counted meanwhile.
CreationsFit ==
    \A r \in requests : r.does = "insert" =>
        /\ RoomLeft(r.company, r.about)
        /\ \A q \in requests : q.does = "insert" /\ q.company = r.company => q = r

OrganizationsIInv ==
    /\ OrganizationsTypeOK
    /\ RequestsMeant
    /\ CreationsFit
    /\ InvitationFate
    /\ PlacesWithinPlan

----------------------------------------------------------------------------
(* Permissions *)

\* What a scope covers: itself, a site's zones, everything of a company.
LEMMA Coverage ==
    ASSUME NEW x
    PROVE  /\ \A c \in Companies : Covers(x, c) => x = c
           /\ \A c \in Companies : \A y \in Places : Covers(c, y) <=> CompanyOfScope(y) = c
           /\ \A s \in Sites : Covers(x, s) => x = s \/ (x \in Companies /\ x = CompanyOfScope(s))
           /\ \A z \in Zones : Covers(x, z) =>
                x = z \/ x = SiteOf[z] \/ (x \in Companies /\ x = CompanyOfScope(z))
           /\ \A z \in Zones : /\ SiteOf[z] \in Sites /\ Covers(SiteOf[z], z)
                               /\ CompanyOfScope(z) = CompanyOfScope(SiteOf[z])
           /\ Covers(x, x)
  BY OrganizationsAssumption DEF Covers, CompanyOfScope, Places

\* A permission on a scope is a grant that covers it and carries the permission.
LEMMA PermissionIsGrant ==
    ASSUME NEW p, NEW x, NEW permission
    PROVE  permission \in Effective(p, x)
              <=> \E g \in Current(p) : Covers(g.scope, x) /\ permission \in MayOf(g.role)
  BY DEF Effective

LEMMA ScopesOfPermission ==
    ASSUME NEW p, NEW x, NEW permission
    PROVE  /\ x \in GrantedScopes(p, permission) => permission \in Effective(p, x)
           /\ \A g \in Current(p) : permission \in MayOf(g.role) => g.scope \in GrantedScopes(p, permission)
<1>1. \A g \in Current(p) : permission \in MayOf(g.role) => permission \in Effective(p, g.scope)
  BY PermissionIsGrant, Coverage
<1>2. QED
  BY <1>1 DEF GrantedScopes

\* The lists of sites and zones are what the grants give, whatever the grants.
LEMMA ListsAgree ==
    ASSUME NEW p, NEW permission, NEW c \in Companies, member[p].company = c
    PROVE  /\ ZonesFor(p, permission) = {z \in Zones \cap OfCompany(c) : permission \in Effective(p, z)}
           /\ SitesFor(p, permission) =
                {s \in Sites \cap OfCompany(c) :
                    \/ permission \in Effective(p, s)
                    \/ \E z \in Zones : SiteOf[z] = s /\ permission \in Effective(p, z)}
<1> DEFINE scopes == GrantedScopes(p, permission)
<1>1. \A x \in OfCompany(c) : x \in Places /\ CompanyOfScope(x) = c
  BY DEF OfCompany
<1>2. ASSUME permission \in Effective(p, c), NEW x \in OfCompany(c) PROVE permission \in Effective(p, x)
  <2>1. PICK g \in Current(p) : Covers(g.scope, c) /\ permission \in MayOf(g.role)
    BY <1>2, PermissionIsGrant
  <2>2. g.scope = c
    BY <2>1, Coverage
  <2>3. Covers(g.scope, x)
    BY <1>1, <2>2, Coverage
  <2>4. QED
    BY <2>1, <2>3, PermissionIsGrant
<1>3. ASSUME permission \notin Effective(p, c), NEW z \in Zones, CompanyOfScope(z) = c
      PROVE  permission \in Effective(p, z) <=> z \in scopes \/ SiteOf[z] \in scopes
  <2>1. ASSUME permission \in Effective(p, z) PROVE z \in scopes \/ SiteOf[z] \in scopes
    <3>1. PICK g \in Current(p) : Covers(g.scope, z) /\ permission \in MayOf(g.role)
      BY <2>1, PermissionIsGrant
    <3>2. g.scope # c
      BY <1>3, <3>1, PermissionIsGrant, Coverage
    <3>3. g.scope = z \/ g.scope = SiteOf[z]
      <4>1. g.scope = z \/ g.scope = SiteOf[z] \/ g.scope = CompanyOfScope(z)
        BY <3>1, Coverage
      <4>2. QED
        BY <1>3, <3>2, <4>1
    <3>4. g.scope \in scopes
      BY <3>1, ScopesOfPermission
    <3>5. QED
      BY <3>3, <3>4
  <2>2. ASSUME SiteOf[z] \in scopes PROVE permission \in Effective(p, z)
    <3>1. PICK g \in Current(p) : Covers(g.scope, SiteOf[z]) /\ permission \in MayOf(g.role)
      BY <2>2, PermissionIsGrant, ScopesOfPermission
    <3>2. g.scope = SiteOf[z] \/ g.scope = c
      BY <1>3, <3>1, Coverage
    <3>3. Covers(g.scope, z)
      BY <1>3, <3>2, Coverage DEF Places
    <3>4. QED
      BY <3>1, <3>3, PermissionIsGrant
  <2>3. QED
    BY <2>1, <2>2, ScopesOfPermission
<1>4. ASSUME permission \notin Effective(p, c), NEW s \in Sites, CompanyOfScope(s) = c
      PROVE  permission \in Effective(p, s) <=> s \in scopes
  <2>1. ASSUME permission \in Effective(p, s) PROVE s \in scopes
    <3>1. PICK g \in Current(p) : Covers(g.scope, s) /\ permission \in MayOf(g.role)
      BY <2>1, PermissionIsGrant
    <3>2. g.scope # c
      BY <1>4, <3>1, PermissionIsGrant, Coverage
    <3>3. QED
      BY <1>4, <3>1, <3>2, Coverage, ScopesOfPermission
  <2>2. QED
    BY <2>1, ScopesOfPermission
<1>5. ZonesFor(p, permission) = {z \in Zones \cap OfCompany(c) : permission \in Effective(p, z)}
  <2>1. CASE permission \in Effective(p, c)
    BY <1>2, <2>1 DEF ZonesFor
  <2>2. CASE permission \notin Effective(p, c)
    BY <1>1, <1>3, <2>2 DEF ZonesFor
  <2>3. QED
    BY <2>1, <2>2
<1>6. SitesFor(p, permission) =
        {s \in Sites \cap OfCompany(c) :
            \/ permission \in Effective(p, s)
            \/ \E z \in Zones : SiteOf[z] = s /\ permission \in Effective(p, z)}
  <2>1. CASE permission \in Effective(p, c)
    BY <1>2, <2>1 DEF SitesFor
  <2>2. CASE permission \notin Effective(p, c)
    <3>1. ASSUME NEW s \in Sites \cap OfCompany(c)
          PROVE  s \in scopes \cup {SiteOf[z] : z \in scopes \cap Zones}
                   <=> \/ permission \in Effective(p, s)
                       \/ \E z \in Zones : SiteOf[z] = s /\ permission \in Effective(p, z)
      <4>1. \A z \in Zones : SiteOf[z] = s => CompanyOfScope(z) = c
        BY <1>1, Coverage
      <4>2. CompanyOfScope(s) = c
        BY <1>1
      <4>3. QED
        BY <1>3, <1>4, <2>2, <4>1, <4>2
    <3>2. SitesFor(p, permission) =
            Sites \cap OfCompany(c) \cap (scopes \cup {SiteOf[z] : z \in scopes \cap Zones})
      BY <2>2 DEF SitesFor
    <3> HIDE DEF scopes
    <3>3. QED
      BY <3>1, <3>2
  <2>3. QED
    BY <2>1, <2>2
<1>7. QED
  BY <1>5, <1>6

LEMMA MembersSee == OrganizationsTypeOK => SeesWhatItMay
<1> SUFFICES ASSUME OrganizationsTypeOK, NEW p \in People, member[p] # NotMember, NEW permission
             PROVE  LET May(x) == permission \in Effective(p, x)
                        mine == OfCompany(member[p].company)
                    IN  /\ ZonesFor(p, permission) = {z \in Zones \cap mine : May(z)}
                        /\ SitesFor(p, permission) =
                             {s \in Sites \cap mine : May(s) \/ \E z \in Zones : SiteOf[z] = s /\ May(z)}
  BY DEF SeesWhatItMay
<1>1. member[p].company \in Companies
  BY DEF OrganizationsTypeOK
<1>2. QED
  BY <1>1, ListsAgree

----------------------------------------------------------------------------
(* The limits of the plan *)

\* Nothing more is live, or one that there was room for.
LEMMA RoomIsEnough ==
    ASSUME NEW before, IsFiniteSet(before), NEW after, NEW x, NEW limit \in Nat,
           \/ after \subseteq before /\ Cardinality(before) <= limit
           \/ after \subseteq before \cup {x} /\ Cardinality(before \ {x}) < limit
    PROVE  Cardinality(after) <= limit
<1>1. CASE after \subseteq before /\ Cardinality(before) <= limit
  <2>1. Cardinality(before) \in Nat
    BY FS_CardinalityType
  <2>2. IsFiniteSet(after) /\ Cardinality(after) <= Cardinality(before)
    BY <1>1, FS_Subset
  <2>3. Cardinality(after) \in Nat
    BY <2>2, FS_CardinalityType
  <2>4. QED
    BY <1>1, <2>1, <2>2, <2>3
<1>2. CASE after \subseteq before \cup {x} /\ Cardinality(before \ {x}) < limit
  <2> DEFINE rest == before \ {x}
  <2>1. rest \in SUBSET before
    OBVIOUS
  <2>2. IsFiniteSet(rest)
    BY <2>1, FS_Subset
  <2>3. Cardinality(rest) \in Nat
    BY <2>2, FS_CardinalityType
  <2>4. IsFiniteSet(rest \cup {x}) /\ Cardinality(rest \cup {x}) = Cardinality(rest) + 1
    BY <2>2, FS_AddElement
  <2>5. after \in SUBSET (rest \cup {x})
    BY <1>2
  <2>6. IsFiniteSet(after) /\ Cardinality(after) <= Cardinality(rest \cup {x})
    BY <2>4, <2>5, FS_Subset
  <2>7. Cardinality(after) \in Nat
    BY <2>6, FS_CardinalityType
  <2>8. QED
    BY <1>2, <2>3, <2>4, <2>6, <2>7
<1>3. QED
  BY <1>1, <1>2

\* Where no more is live there is no less room.
LEMMA StillRoom ==
    ASSUME NEW before, IsFiniteSet(before), NEW after, after \subseteq before, NEW x, NEW limit \in Nat,
           Cardinality(before \ {x}) < limit
    PROVE  Cardinality(after \ {x}) < limit
<1>1. before \ {x} \in SUBSET before /\ after \ {x} \in SUBSET (before \ {x})
  OBVIOUS
<1>2. IsFiniteSet(before \ {x})
  BY <1>1, FS_Subset
<1>3. IsFiniteSet(after \ {x}) /\ Cardinality(after \ {x}) <= Cardinality(before \ {x})
  BY <1>1, <1>2, FS_Subset
<1>4. Cardinality(after \ {x}) \in Nat /\ Cardinality(before \ {x}) \in Nat
  BY <1>2, <1>3, FS_CardinalityType
<1>5. QED
  BY <1>3, <1>4

LEMMA LiveIsFinite ==
    ASSUME NEW c, NEW kind \in {Sites, Zones}
    PROVE  IsFiniteSet(Live(c, kind)) /\ IsFiniteSet(Live(c, kind) \ undone)
<1>1. Live(c, kind) \in SUBSET kind /\ Live(c, kind) \ undone \in SUBSET kind /\ IsFiniteSet(kind)
  BY OrganizationsAssumption DEF Live
<1>2. QED
  BY <1>1, FS_Subset

\* The room counted is left, if what a late save has reopened is not counted.
LEMMA CountedRoom == ASSUME NEW c, NEW x, RoomFor(c, x) PROVE RoomLeft(c, x)
<1>1. /\ x \in Sites => Cardinality(Live(c, Sites) \ {x}) < SiteLimit
      /\ x \in Zones => Cardinality(Live(c, Zones) \ {x}) < ZoneLimit
  BY OrganizationsAssumption DEF RoomFor, Fits
<1>2. SiteLimit \in Nat /\ ZoneLimit \in Nat
  BY OrganizationsAssumption
<1>3. /\ Live(c, Sites) \ undone \subseteq Live(c, Sites)
      /\ Live(c, Zones) \ undone \subseteq Live(c, Zones)
  OBVIOUS
<1>4. QED
  BY <1>1, <1>2, <1>3, LiveIsFinite, StillRoom DEF RoomLeft

\* No place but x is live, and not undone, that was not; x only if there is room for it.
NoneReopened(x, room) ==
    /\ x \in Places /\ room \in BOOLEAN
    /\ \A y \in Places : (y # x \/ ~room) /\ place'[y] = "ACTIVE" /\ y \notin undone' =>
            place[y] = "ACTIVE" /\ y \notin undone

\* So of each company no more is live, but x.
LEMMA LiveAfter ==
    ASSUME NEW x, NEW room, NoneReopened(x, room), NEW c, NEW kind \in {Sites, Zones}
    PROVE  \/ Live(c, kind)' \ undone' \subseteq Live(c, kind) \ undone
           \/ /\ Live(c, kind)' \ undone' \subseteq (Live(c, kind) \ undone) \cup {x}
              /\ room /\ x \in kind /\ CompanyOfScope(x) = c
<1>1. \A y \in Live(c, kind)' : y \in kind /\ y \in OfCompany(c) /\ place'[y] = "ACTIVE"
  BY DEF Live, OfCompany
<1>2. \A y \in OfCompany(c) : y \in Places /\ CompanyOfScope(y) = c
  BY DEF OfCompany
<1>3. QED
  BY <1>1, <1>2 DEF Live, NoneReopened

LEMMA PlanKept ==
    ASSUME PlacesWithinPlan, NEW x, NEW room, NoneReopened(x, room),
           room => RoomLeft(CompanyOfScope(x), x)
    PROVE  PlacesWithinPlan'
<1> SUFFICES ASSUME NEW c \in Companies
             PROVE  /\ Cardinality(Live(c, Sites)' \ undone') <= SiteLimit
                    /\ Cardinality(Live(c, Zones)' \ undone') <= ZoneLimit
  BY DEF PlacesWithinPlan
<1>1. SiteLimit \in Nat /\ ZoneLimit \in Nat
  BY OrganizationsAssumption
<1>2. /\ Cardinality(Live(c, Sites) \ undone) <= SiteLimit
      /\ Cardinality(Live(c, Zones) \ undone) <= ZoneLimit
  BY DEF PlacesWithinPlan
<1>3. Cardinality(Live(c, Sites)' \ undone') <= SiteLimit
  <2>1. room /\ x \in Sites /\ CompanyOfScope(x) = c => Cardinality((Live(c, Sites) \ undone) \ {x}) < SiteLimit
    BY DEF RoomLeft
  <2>2. \/ Live(c, Sites)' \ undone' \subseteq Live(c, Sites) \ undone
        \/ /\ Live(c, Sites)' \ undone' \subseteq (Live(c, Sites) \ undone) \cup {x}
           /\ Cardinality((Live(c, Sites) \ undone) \ {x}) < SiteLimit
    BY <2>1, LiveAfter
  <2>3. QED
    BY <1>1, <1>2, <2>2, LiveIsFinite, RoomIsEnough
<1>4. Cardinality(Live(c, Zones)' \ undone') <= ZoneLimit
  <2>1. room /\ x \in Zones /\ CompanyOfScope(x) = c => Cardinality((Live(c, Zones) \ undone) \ {x}) < ZoneLimit
    BY DEF RoomLeft
  <2>2. \/ Live(c, Zones)' \ undone' \subseteq Live(c, Zones) \ undone
        \/ /\ Live(c, Zones)' \ undone' \subseteq (Live(c, Zones) \ undone) \cup {x}
           /\ Cardinality((Live(c, Zones) \ undone) \ {x}) < ZoneLimit
    BY <2>1, LiveAfter
  <2>3. QED
    BY <1>1, <1>2, <2>2, LiveIsFinite, RoomIsEnough
<1>5. QED
  BY <1>3, <1>4

\* A creation of another company, or of any if none is reopened, keeps its room.
LEMMA RoomKept ==
    ASSUME NEW x, NEW room, NoneReopened(x, room), NEW c, NEW y, RoomLeft(c, y),
           room => c # CompanyOfScope(x)
    PROVE  RoomLeft(c, y)'
<1>1. \A kind \in {Sites, Zones} : Live(c, kind)' \ undone' \subseteq Live(c, kind) \ undone
  BY LiveAfter
<1>2. SiteLimit \in Nat /\ ZoneLimit \in Nat
  BY OrganizationsAssumption
<1>3. y \in Sites => Cardinality((Live(c, Sites)' \ undone') \ {y}) < SiteLimit
  BY <1>1, <1>2, LiveIsFinite, StillRoom DEF RoomLeft
<1>4. y \in Zones => Cardinality((Live(c, Zones)' \ undone') \ {y}) < ZoneLimit
  BY <1>1, <1>2, LiveIsFinite, StillRoom DEF RoomLeft
<1>5. QED
  BY <1>3, <1>4 DEF RoomLeft

----------------------------------------------------------------------------
(* Initially *)

LEMMA OrganizationsInitInvariant == OrganizationsInit => OrganizationsIInv
<1> SUFFICES ASSUME OrganizationsInit PROVE OrganizationsIInv
  OBVIOUS
<1>1. DOMAIN invitations = {} /\ \A S : invitations \in Seq(S)
  BY EmptySeq DEF OrganizationsInit
<1>2. OrganizationsTypeOK
  BY <1>1, OrganizationsAssumption DEF OrganizationsInit, OrganizationsTypeOK, Days, Statuses
<1>3. RequestsMeant /\ CreationsFit /\ InvitationFate
  BY <1>1 DEF OrganizationsInit, RequestsMeant, CreationsFit, InvitationFate
<1>4. PlacesWithinPlan
  <2>1. \A c \in Companies : Live(c, Sites) \ undone = {} /\ Live(c, Zones) \ undone = {}
    BY DEF OrganizationsInit, Live, OfCompany, Places
  <2>2. QED
    <3>1. Cardinality({}) = 0 /\ 0 <= SiteLimit /\ 0 <= ZoneLimit
      BY FS_EmptySet, OrganizationsAssumption
    <3>2. QED
      BY <2>1, <3>1 DEF PlacesWithinPlan
<1>5. QED
  BY <1>2, <1>3, <1>4 DEF OrganizationsIInv

----------------------------------------------------------------------------
(* Requests and invitations *)

Requested(some) ==
    [does : Operations, company : Companies,
     about : People \cup Places \cup DOMAIN some \cup {Nothing},
     read : Statuses, old : SUBSET Grants]

Letters == [company : Companies, email : People, role : Roles, targets : Named,
            link : Nat, sent : Days, accepted : BOOLEAN, cancelled : BOOLEAN, opened : Seq(Nat)]

Memberships == [company : Companies, status : MemberStatuses] \cup {NotMember}

\* OrganizationsTypeOK in parts.
LEMMA TypeParts ==
    /\ OrganizationsTypeOK <=>
        /\ day \in Days /\ trialEnd \in [Companies -> Nat]
        /\ place \in [Places -> Statuses] /\ undone \subseteq Places
        /\ member \in [People -> Memberships] /\ grants \subseteq Grants
        /\ invitations \in Seq(Letters)
        /\ incidents \subseteq [person : People, from : Companies, to : Companies]
        /\ requests \subseteq Requested(invitations)
    /\ OrganizationsTypeOK' <=>
        /\ day' \in Days /\ trialEnd' \in [Companies -> Nat]
        /\ place' \in [Places -> Statuses] /\ undone' \subseteq Places
        /\ member' \in [People -> Memberships] /\ grants' \subseteq Grants
        /\ invitations' \in Seq(Letters)
        /\ incidents' \subseteq [person : People, from : Companies, to : Companies]
        /\ requests' \subseteq Requested(invitations')
BY DEF OrganizationsTypeOK, Memberships, Letters, Requested

\* What a request is about does not go away.
Lasting ==
    /\ DOMAIN invitations \subseteq DOMAIN invitations'
    /\ \A p \in People : member[p] # NotMember => member'[p] # NotMember
    /\ \A x \in Places : place[x] # "NONE" => place'[x] # "NONE"

\* Requests that were there are still meant.
LEMMA RequestsKept ==
    ASSUME OrganizationsTypeOK, RequestsMeant, Lasting, requests' \subseteq requests
    PROVE  RequestsMeant' /\ requests' \subseteq Requested(invitations')
<1>1. requests \subseteq Requested(invitations)
  BY TypeParts
<1>2. Requested(invitations) \subseteq Requested(invitations')
  BY DEF Requested, Lasting
<1>3. ASSUME NEW r \in requests'
      PROVE  /\ r.does \in {"cancel", "resend"} => r.about \in DOMAIN invitations'
             /\ r.does \in MemberWork => r.about \in People /\ member'[r.about] # NotMember
             /\ r.does \in PlaceWork => r.about \in Places /\ r.company = CompanyOfScope(r.about)
             /\ r.does = "update" => r.read = "ACTIVE" /\ place'[r.about] # "NONE"
  <2>1. r \in requests /\ (r.does = "update" => r.does \in PlaceWork)
    BY DEF PlaceWork
  <2>2. /\ r.does \in {"cancel", "resend"} => r.about \in DOMAIN invitations
        /\ r.does \in MemberWork => r.about \in People /\ member[r.about] # NotMember
        /\ r.does \in PlaceWork => r.about \in Places /\ r.company = CompanyOfScope(r.about)
        /\ r.does = "update" => r.read = "ACTIVE" /\ place[r.about] # "NONE"
    BY <2>1 DEF RequestsMeant
  <2>3. QED
    BY <2>1, <2>2 DEF Lasting
<1>4. QED
  BY <1>1, <1>2, <1>3 DEF RequestsMeant

\* While the places stay, creations keep their room; what becomes of other requests is all one.
LEMMA SameRoom ==
    ASSUME CreationsFit, UNCHANGED <<place, undone>>,
           \A r \in requests' : r.does = "insert" => r \in requests
    PROVE  CreationsFit'
<1>1. \A c, x : RoomLeft(c, x)' <=> RoomLeft(c, x)
  BY DEF RoomLeft, Live, OfCompany
<1>2. QED
  BY <1>1 DEF CreationsFit

\* A view lets a request through.
LEMMA RequestLet ==
    ASSUME OrganizationsIInv, NEW c \in Companies, NEW operation \in Operations,
           NEW subject \in People \cup Places \cup DOMAIN invitations \cup {Nothing},
           NEW status \in Statuses, Let(c, operation, subject, status),
           operation \notin {"insert", "regrant"},
           operation \in {"cancel", "resend"} => subject \in DOMAIN invitations,
           operation \in MemberWork => subject \in People /\ member[subject] # NotMember,
           operation \in PlaceWork => subject \in Places /\ c = CompanyOfScope(subject),
           operation = "update" => status = "ACTIVE" /\ place[subject] # "NONE"
    PROVE  OrganizationsIInv'
<1> DEFINE new == [does |-> operation, company |-> c, about |-> subject, read |-> status, old |-> {}]
<1>1. /\ requests' = requests \cup {new}
      /\ UNCHANGED <<day, trialEnd, place, undone, member, grants, invitations, incidents>>
  BY DEF Let
<1>2. new \in Requested(invitations)
  BY DEF Requested
<1>3. RequestsMeant'
  BY <1>1 DEF OrganizationsIInv, RequestsMeant
<1>4. OrganizationsTypeOK'
  BY <1>1, <1>2, TypeParts DEF OrganizationsIInv
<1>5. InvitationFate' /\ PlacesWithinPlan'
  BY <1>1 DEF OrganizationsIInv, InvitationFate, PlacesWithinPlan, Live, OfCompany
<1>6. CreationsFit'
  BY <1>1, SameRoom DEF OrganizationsIInv
<1>7. QED
  BY <1>3, <1>4, <1>5, <1>6 DEF OrganizationsIInv

LEMMA AdmittedIsMember ==
    ASSUME OrganizationsTypeOK, NEW p \in People, NEW permission, Admitted(p, permission)
    PROVE  member[p].company \in Companies
BY DEF OrganizationsTypeOK, Admitted, NotMember

LEMMA Views ==
    ASSUME OrganizationsIInv, NEW p \in People,
           \/ ViewInvite(p)
           \/ \E i \in DOMAIN invitations : ViewInvitation(p, i)
           \/ \E other \in People : ViewMember(p, other)
           \/ \E x \in Places : ViewNewPlace(p, x) \/ ViewPlace(p, x)
    PROVE  OrganizationsIInv'
<1> DEFINE c == member[p].company
<1> USE DEF PlaceWork, MemberWork, Operations, Statuses
<1>1. CASE ViewInvite(p)
  BY <1>1, AdmittedIsMember, RequestLet DEF ViewInvite, OrganizationsIInv
<1>2. ASSUME NEW i \in DOMAIN invitations, ViewInvitation(p, i) PROVE OrganizationsIInv'
  BY <1>2, AdmittedIsMember, RequestLet DEF ViewInvitation, OrganizationsIInv
<1>3. ASSUME NEW other \in People, ViewMember(p, other) PROVE OrganizationsIInv'
  <2>1. member[other] # NotMember
    BY <1>3 DEF ViewMember, NotMember
  <2>2. PICK operation \in {"suspend", "reactivate", "role"} :
            Admitted(p, <<"users", operation>>) /\ Let(c, operation, other, "NONE")
    BY <1>3 DEF ViewMember
  <2>3. c \in Companies
    BY <2>2, AdmittedIsMember DEF OrganizationsIInv
  <2>4. QED
    BY <2>1, <2>2, <2>3, RequestLet
<1>4. ASSUME NEW x \in Places, ViewNewPlace(p, x) PROVE OrganizationsIInv'
  <2>1. c \in Companies /\ Let(c, "create", x, "NONE") /\ CompanyOfScope(x) = c
    BY <1>4, AdmittedIsMember DEF ViewNewPlace, OrganizationsIInv, OfCompany
  <2>2. QED
    BY <2>1, RequestLet
<1>5. ASSUME NEW x \in Places, ViewPlace(p, x) PROVE OrganizationsIInv'
  <2> DEFINE all == On(x, "update")
             some == On(x, "update_operational")
             away == On(x, "archive")
  <2>1. PICK permission \in {all, some, away} :
            Admitted(p, permission) /\ x \in PlacesFor(p, permission)
    BY <1>5 DEF ViewPlace
  <2>2. c \in Companies /\ CompanyOfScope(x) = c
    BY <2>1, AdmittedIsMember DEF OrganizationsIInv, PlacesFor, SitesFor, ZonesFor, OfCompany
  <2>3. place[x] \in Statuses /\ (x \in Zones => place[SiteOf[x]] \in Statuses)
    BY OrganizationsAssumption DEF OrganizationsIInv, OrganizationsTypeOK, Places
  <2>4. \/ place[x] \notin {"NONE", "ARCHIVED"} /\ Let(c, "update", x, place[x])
        \/ Let(c, "archive", x, place[x])
        \/ Let(c, "bring back", x, IF x \in Zones THEN place[SiteOf[x]] ELSE place[x])
    BY <1>5 DEF ViewPlace
  <2> HIDE DEF c
  <2>5. CASE place[x] \notin {"NONE", "ARCHIVED"} /\ Let(c, "update", x, place[x])
    BY <2>2, <2>3, <2>5, RequestLet
  <2>6. CASE Let(c, "archive", x, place[x])
    BY <2>2, <2>3, <2>6, RequestLet
  <2>7. CASE Let(c, "bring back", x, IF x \in Zones THEN place[SiteOf[x]] ELSE place[x])
    BY <2>2, <2>3, <2>7, RequestLet
  <2>8. QED
    BY <2>4, <2>5, <2>6, <2>7
<1>6. QED
  BY <1>1, <1>2, <1>3, <1>4, <1>5

----------------------------------------------------------------------------
(* What stays when nothing touches it *)

LEMMA SamePlan == PlacesWithinPlan /\ UNCHANGED <<place, undone>> => PlacesWithinPlan'
BY DEF PlacesWithinPlan, Live, OfCompany

LEMMA SameFate == InvitationFate /\ UNCHANGED invitations => InvitationFate'
BY DEF InvitationFate

LEMMA RowsOfRequests ==
    ASSUME OrganizationsTypeOK, NEW r \in requests
    PROVE  /\ r \in Requested(invitations) /\ r.company \in Companies /\ r.read \in Statuses
           /\ r.old \subseteq Grants
BY TypeParts DEF Requested

----------------------------------------------------------------------------
(* Places *)

LEMMA PlaceSteps ==
    ASSUME OrganizationsIInv, NEW r \in requests,
           BeginCreation(r) \/ CreatePlace(r) \/ UpdatePlace(r) \/ ArchivePlace(r) \/ ReactivatePlace(r)
    PROVE  OrganizationsIInv'
<1> DEFINE x == r.about
<1>1. OrganizationsTypeOK /\ RequestsMeant /\ CreationsFit /\ InvitationFate /\ PlacesWithinPlan
  BY DEF OrganizationsIInv
<1>2. place \in [Places -> Statuses] /\ undone \subseteq Places
  BY <1>1 DEF OrganizationsTypeOK
<1>3. CASE BeginCreation(r)
  <2> DEFINE new == [r EXCEPT !.does = "insert"]
  <2>1. /\ r.does = "create" /\ requests' = (requests \ {r}) \cup {new}
        /\ UNCHANGED <<day, trialEnd, place, undone, member, grants, invitations, incidents>>
    BY <1>3 DEF BeginCreation
  <2>2. /\ new \in Requested(invitations) /\ new.does = "insert"
        /\ new.about = r.about /\ new.company = r.company
    BY <1>1, RowsOfRequests DEF Requested, Operations
  <2>3. r.about \in Places /\ r.company = CompanyOfScope(r.about)
    BY <1>1, <2>1 DEF RequestsMeant, PlaceWork
  <2> HIDE DEF new
  <2>4. RequestsMeant'
    BY <1>1, <2>1, <2>2, <2>3 DEF RequestsMeant, MemberWork
  <2>5. OrganizationsTypeOK'
    BY <1>1, <2>1, <2>2, TypeParts
  <2>6. CreationsFit'
    <3>1. RoomLeft(new.company, new.about)
      BY <1>3, <2>2, CountedRoom DEF BeginCreation
    <3>2. \A c, y : RoomLeft(c, y)' <=> RoomLeft(c, y)
      BY <2>1 DEF RoomLeft, Live, OfCompany
    <3>3. \A q \in requests : q.does = "insert" => q.company # new.company
      BY <1>3, <2>2 DEF BeginCreation, CompanyFree
    <3>4. QED
      BY <1>1, <2>1, <2>2, <3>1, <3>2, <3>3 DEF CreationsFit
  <2>7. QED
    BY <1>1, <2>1, <2>4, <2>5, <2>6, SamePlan, SameFate DEF OrganizationsIInv
<1>4. ASSUME r.does \in PlaceWork, Served(r), place' \in [Places -> Statuses], undone' \subseteq Places,
             UNCHANGED <<day, trialEnd, member, grants, invitations, incidents>>,
             \A y \in Places : place[y] # "NONE" => place'[y] # "NONE",
             NEW room \in BOOLEAN, room => RoomLeft(r.company, x),
             room => \A q \in requests' : q.does = "insert" => q.company # r.company,
             \A y \in Places : (y # x \/ ~room) /\ place'[y] = "ACTIVE" /\ y \notin undone' =>
                place[y] = "ACTIVE" /\ y \notin undone
      PROVE  OrganizationsIInv'
  <2>1. x \in Places /\ r.company = CompanyOfScope(x) /\ NoneReopened(x, room)
    BY <1>1, <1>4 DEF RequestsMeant, NoneReopened
  <2>2. PlacesWithinPlan'
    BY <1>1, <1>4, <2>1, PlanKept
  <2>7. CreationsFit'
    <3>1. ASSUME NEW q \in requests', q.does = "insert"
          PROVE  RoomLeft(q.company, q.about)'
      <4>1. RoomLeft(q.company, q.about) /\ (room => q.company # CompanyOfScope(x))
        BY <1>1, <1>4, <2>1, <3>1 DEF CreationsFit, Served
      <4>2. QED
        BY <2>1, <4>1, RoomKept
    <3>2. QED
      BY <1>1, <1>4, <3>1 DEF CreationsFit, Served
  <2>3. Lasting /\ requests' \subseteq requests
    BY <1>4 DEF Lasting, Served
  <2>4. RequestsMeant' /\ requests' \subseteq Requested(invitations')
    BY <1>1, <2>3, RequestsKept
  <2>5. OrganizationsTypeOK'
    BY <1>1, <1>4, <2>4, TypeParts
  <2>6. QED
    BY <1>1, <1>4, <2>2, <2>4, <2>5, <2>7, SameFate DEF OrganizationsIInv
<1>5. r.does \in PlaceWork => x \in Places /\ r.company = CompanyOfScope(x)
  BY <1>1 DEF RequestsMeant
<1>6. CASE CreatePlace(r)
  <2>1. /\ r.does \in PlaceWork /\ RoomLeft(r.company, x)
        /\ place' = [place EXCEPT ![x] = "ACTIVE"] /\ undone' = undone
        /\ \A q \in requests' : q.does = "insert" => q.company # r.company
    BY <1>1, <1>6 DEF CreatePlace, PlaceWork, CreationsFit, Served
  <2>2. place' \in [Places -> Statuses] /\ \A y \in Places : place'[y] = IF y = x THEN "ACTIVE" ELSE place[y]
    BY <1>2, <1>5, <2>1 DEF Statuses
  <2>3. QED
    BY <1>2, <1>4, <1>5, <1>6, <2>1, <2>2 DEF CreatePlace
<1>7. CASE UpdatePlace(r)
  <2>1. /\ r.does \in PlaceWork /\ r.read = "ACTIVE" /\ place[x] # "NONE"
        /\ place' = [place EXCEPT ![x] = r.read]
        /\ undone' = IF place[x] = "ARCHIVED" THEN undone \cup {x} ELSE undone
    BY <1>1, <1>7 DEF UpdatePlace, PlaceWork, RequestsMeant
  <2>2. place' \in [Places -> Statuses] /\ \A y \in Places : place'[y] = IF y = x THEN "ACTIVE" ELSE place[y]
    BY <1>2, <1>5, <2>1 DEF Statuses
  <2>3. undone' \subseteq Places
    BY <1>2, <1>5, <2>1
  <2>4. \A y \in Places : place'[y] = "ACTIVE" /\ y \notin undone' => place[y] = "ACTIVE" /\ y \notin undone
    BY <1>2, <2>1, <2>2 DEF Statuses
  <2>5. QED
    BY <1>4, <1>7, <2>1, <2>2, <2>3, <2>4 DEF UpdatePlace
<1>8. CASE ArchivePlace(r)
  <2> DEFINE gone == {y \in Places : y = x \/ (y \in Zones /\ SiteOf[y] = x /\ place[y] # "NONE")}
  <2>1. /\ r.does \in PlaceWork /\ undone' = undone \ gone
        /\ place' = [y \in Places |-> IF y \in gone THEN "ARCHIVED" ELSE place[y]]
    BY <1>8 DEF ArchivePlace, PlaceWork
  <2>2. /\ place' \in [Places -> Statuses] /\ undone' \subseteq Places
        /\ \A y \in Places : place'[y] = IF y \in gone THEN "ARCHIVED" ELSE place[y]
    BY <1>2, <2>1 DEF Statuses
  <2> HIDE DEF gone
  <2>3. QED
    BY <1>4, <1>8, <2>1, <2>2 DEF ArchivePlace
<1>9. CASE ReactivatePlace(r)
  <2>1. /\ r.does \in PlaceWork /\ RoomLeft(r.company, x)
        /\ place' = [place EXCEPT ![x] = "ACTIVE"] /\ undone' = undone \ {x}
        /\ \A q \in requests' : q.does = "insert" => q.company # r.company
    BY <1>9, CountedRoom DEF ReactivatePlace, PlaceWork, CompanyFree, Served
  <2>2. place' \in [Places -> Statuses] /\ \A y \in Places : place'[y] = IF y = x THEN "ACTIVE" ELSE place[y]
    BY <1>2, <1>5, <2>1 DEF Statuses
  <2>3. QED
    BY <1>2, <1>4, <1>5, <1>9, <2>1, <2>2 DEF ReactivatePlace
<1>10. QED
  BY <1>3, <1>6, <1>7, <1>8, <1>9

----------------------------------------------------------------------------
(* Invitations *)

\* A step that leaves the places, and in which invitations stay where they are.
LEMMA PeopleStep ==
    ASSUME OrganizationsIInv, UNCHANGED <<place, undone>>, requests' \subseteq requests,
           day' \in Days, trialEnd' \in [Companies -> Nat],
           member' \in [People -> Memberships], grants' \subseteq Grants,
           incidents' \subseteq [person : People, from : Companies, to : Companies],
           invitations' \in Seq(Letters), DOMAIN invitations \subseteq DOMAIN invitations', InvitationFate',
           \A p \in People : member[p] # NotMember => member'[p] # NotMember
    PROVE  OrganizationsIInv'
<1>1. Lasting
  BY DEF Lasting
<1>2. RequestsMeant' /\ requests' \subseteq Requested(invitations')
  BY <1>1, RequestsKept DEF OrganizationsIInv
<1>3. OrganizationsTypeOK'
  BY <1>2, TypeParts DEF OrganizationsIInv
<1>4. CreationsFit'
  BY SameRoom DEF OrganizationsIInv
<1>5. QED
  BY <1>2, <1>3, <1>4, SamePlan DEF OrganizationsIInv

LEMMA LetterChanged ==
    ASSUME invitations \in Seq(Letters), NEW i \in DOMAIN invitations, NEW new \in Letters,
           invitations' = [invitations EXCEPT ![i] = new]
    PROVE  /\ invitations' \in Seq(Letters) /\ DOMAIN invitations' = DOMAIN invitations
           /\ \A j \in DOMAIN invitations : invitations'[j] = IF j = i THEN new ELSE invitations[j]
<1>1. DOMAIN invitations = 1..Len(invitations)
  BY LenProperties
<1>2. /\ invitations' \in Seq(Letters) /\ Len(invitations') = Len(invitations)
      /\ \A j \in 1..Len(invitations) : invitations'[j] = IF j = i THEN new ELSE invitations[j]
  BY <1>1, ExceptSeq
<1>3. QED
  BY <1>1, <1>2, LenProperties

LEMMA InvitationSteps ==
    ASSUME OrganizationsIInv, NEW r \in requests, CancelInvitation(r) \/ ResendInvitation(r)
    PROVE  OrganizationsIInv'
<1> DEFINE i == r.about
           old == invitations[i]
<1>1. /\ i \in DOMAIN invitations /\ Pending(i, day)
      /\ UNCHANGED <<day, trialEnd, place, undone, member, grants, incidents>> /\ requests' \subseteq requests
  BY DEF OrganizationsIInv, RequestsMeant, CancelInvitation, ResendInvitation, Served
<1>2. invitations \in Seq(Letters) /\ old \in Letters /\ day \in Days
  BY <1>1, TypeParts, ElementOfSeq, LenProperties DEF OrganizationsIInv
<1>3. \E new \in Letters : /\ invitations' = [invitations EXCEPT ![i] = new]
                           /\ ~new.accepted /\ new.opened = old.opened
  <2>1. CASE CancelInvitation(r)
    <3> DEFINE new == [old EXCEPT !.cancelled = TRUE]
    <3>1. new \in Letters /\ ~new.accepted /\ new.opened = old.opened
      BY <1>1, <1>2 DEF Letters, Pending
    <3>2. invitations' = [invitations EXCEPT ![i] = new]
      BY <2>1 DEF CancelInvitation
    <3>3. QED
      BY <3>1, <3>2
  <2>2. CASE ResendInvitation(r)
    <3> DEFINE new == [old EXCEPT !.link = @ + 1, !.sent = day]
    <3>1. new \in Letters /\ new.accepted = old.accepted /\ new.opened = old.opened
      <4> HIDE DEF old
      <4>1. old.link + 1 \in Nat
        BY <1>2 DEF Letters
      <4>2. QED
        BY <1>2, <4>1 DEF Letters
    <3>2. ~old.accepted
      BY <1>1 DEF Pending
    <3>3. invitations' = [invitations EXCEPT ![i].link = @ + 1, ![i].sent = day]
      BY <2>2 DEF ResendInvitation
    <3>4. invitations' = [invitations EXCEPT ![i] = new]
      BY <1>1, <1>2, <3>3 DEF Letters
    <3>5. QED
      BY <3>1, <3>2, <3>4
  <2>3. QED
    BY <2>1, <2>2
<1>4. PICK new \in Letters : /\ invitations' = [invitations EXCEPT ![i] = new]
                             /\ ~new.accepted /\ new.opened = old.opened
  BY <1>3
<1>5. /\ invitations' \in Seq(Letters) /\ DOMAIN invitations' = DOMAIN invitations
      /\ \A j \in DOMAIN invitations : invitations'[j] = IF j = i THEN new ELSE invitations[j]
  BY <1>1, <1>2, <1>4, LetterChanged
<1>6. InvitationFate'
  BY <1>1, <1>4, <1>5 DEF OrganizationsIInv, InvitationFate, Pending
<1>7. QED
  <2>1. /\ day \in Days /\ trialEnd \in [Companies -> Nat] /\ member \in [People -> Memberships]
        /\ grants \subseteq Grants /\ incidents \subseteq [person : People, from : Companies, to : Companies]
    BY TypeParts DEF OrganizationsIInv
  <2>2. QED
    BY <1>1, <1>5, <1>6, <2>1, PeopleStep

\* The types, one by one.
LEMMA Rows ==
    ASSUME OrganizationsIInv
    PROVE  /\ day \in Days /\ trialEnd \in [Companies -> Nat] /\ member \in [People -> Memberships]
           /\ grants \subseteq Grants /\ incidents \subseteq [person : People, from : Companies, to : Companies]
           /\ invitations \in Seq(Letters) /\ requests \subseteq Requested(invitations)
           /\ \A i \in DOMAIN invitations : invitations[i] \in Letters
BY TypeParts, LenProperties, ElementOfSeq DEF OrganizationsIInv

LEMMA Invites ==
    ASSUME OrganizationsIInv, NEW r \in requests, NEW p \in People, NEW role \in GivenRoles, NEW targets \in Named,
           Invite(r, p, role, targets)
    PROVE  OrganizationsIInv'
<1> DEFINE Over(i) == /\ invitations[i].company = r.company /\ invitations[i].email = p
                      /\ ~invitations[i].accepted /\ Until(i) <= day
           old == [i \in DOMAIN invitations |-> [invitations[i] EXCEPT !.cancelled = @ \/ Over(i)]]
           new == [company |-> r.company, email |-> p, role |-> role, targets |-> targets, link |-> 1,
                   sent |-> day, accepted |-> FALSE, cancelled |-> FALSE, opened |-> <<>>]
<1>1. /\ invitations' = Append(old, new)
      /\ UNCHANGED <<day, trialEnd, place, undone, member, grants, incidents>> /\ requests' \subseteq requests
  BY DEF Invite, Served
<1>2. /\ DOMAIN invitations = 1..Len(invitations) /\ Len(invitations) \in Nat
      /\ \A i \in DOMAIN invitations : invitations[i] \in Letters
  BY Rows, LenProperties
<1>3. new \in Letters /\ new.opened = <<>> /\ ~new.accepted
  <2>1. r.company \in Companies /\ day \in Days /\ <<>> \in Seq(Nat) /\ role \in Roles
    BY Rows, RowsOfRequests, EmptySeq, OrganizationsAssumption DEF OrganizationsIInv
  <2>2. QED
    BY <2>1 DEF Letters
<1>4. ASSUME NEW i \in DOMAIN invitations
      PROVE  /\ old[i] \in Letters
             /\ old[i].accepted = invitations[i].accepted
             /\ old[i].opened = invitations[i].opened /\ old[i].link = invitations[i].link
             /\ invitations[i].accepted => old[i].cancelled = invitations[i].cancelled
  BY <1>2 DEF Letters
<1>5. old \in Seq(Letters) /\ Len(old) = Len(invitations)
  <2>1. old \in [1..Len(invitations) -> Letters]
    BY <1>2, <1>4
  <2> HIDE DEF old
  <2>2. old \in Seq(Letters) /\ DOMAIN old = 1..Len(invitations)
    BY <1>2, <2>1, SeqDef
  <2>3. QED
    BY <1>2, <2>2, LenProperties
<1> HIDE DEF old, new
<1>6. /\ invitations' \in Seq(Letters) /\ DOMAIN invitations' = 1..Len(invitations) + 1
      /\ \A i \in DOMAIN invitations : invitations'[i] = old[i]
      /\ invitations'[Len(invitations) + 1] = new
  BY <1>1, <1>2, <1>3, <1>5, AppendProperties, LenProperties
<1>7. DOMAIN invitations' = DOMAIN invitations \cup {Len(invitations) + 1}
  BY <1>2, <1>6
<1>8. InvitationFate'
  <2>1. ASSUME NEW i \in DOMAIN invitations
        PROVE  IF invitations'[i].accepted
               THEN invitations'[i].opened = <<invitations'[i].link>> /\ ~invitations'[i].cancelled
               ELSE invitations'[i].opened = <<>>
    BY <1>4, <1>6 DEF OrganizationsIInv, InvitationFate
  <2>2. QED
    BY <1>3, <1>6, <1>7, <2>1 DEF InvitationFate
<1>9. QED
  BY <1>1, <1>6, <1>7, <1>8, Rows, PeopleStep

LEMMA GrantsMade ==
    ASSUME NEW c \in Companies, NEW p \in People, NEW role \in Roles, NEW targets \in Named
    PROVE  GrantsFor(p, role, Granted(c, role, targets)) \subseteq Grants
<1>1. Granted(c, role, targets) \subseteq Companies \cup Places
  BY OrganizationsAssumption DEF Granted
<1>2. QED
  BY <1>1 DEF GrantsFor, Grants

LEMMA Accepts ==
    ASSUME OrganizationsIInv, NEW i \in DOMAIN invitations, NEW link \in Nat, NEW at,
           AcceptInvitation(i, link, at)
    PROVE  OrganizationsIInv'
<1> DEFINE old == invitations[i]
           new == [old EXCEPT !.accepted = TRUE, !.opened = Append(@, link)]
           c == old.company
           p == old.email
<1>1. old \in Letters
  BY Rows
<1>2. /\ link = old.link /\ ~old.accepted /\ ~old.cancelled /\ member[p] = NotMember
      /\ member' = [member EXCEPT ![p] = [company |-> c, status |-> "ACTIVE"]]
      /\ grants' = grants \cup GrantsFor(p, old.role, Granted(c, old.role, old.targets))
      /\ UNCHANGED <<day, trialEnd, place, undone, incidents, requests>>
  BY DEF AcceptInvitation, Fitting, Pending
<1>3. invitations' = [invitations EXCEPT ![i] = new]
  <2>1. invitations' = [invitations EXCEPT ![i].accepted = TRUE, ![i].opened = Append(@, link)]
    BY DEF AcceptInvitation
  <2>2. QED
    BY <1>1, <2>1, Rows DEF Letters
<1>4. c \in Companies /\ p \in People /\ old.role \in Roles /\ old.targets \in Named
  BY <1>1 DEF Letters
<1>5. old.opened = <<>>
  BY <1>2 DEF OrganizationsIInv, InvitationFate
<1>6. /\ new \in Letters /\ new.opened = <<new.link>> /\ new.accepted /\ ~new.cancelled
  <2>1. Append(<<>>, link) = <<link>> /\ <<link>> \in Seq(Nat)
    OBVIOUS
  <2>2. QED
    BY <1>1, <1>2, <1>5, <2>1 DEF Letters
<1> HIDE DEF new
<1>7. /\ invitations' \in Seq(Letters) /\ DOMAIN invitations' = DOMAIN invitations
      /\ \A j \in DOMAIN invitations : invitations'[j] = IF j = i THEN new ELSE invitations[j]
  BY <1>3, <1>6, Rows, LetterChanged
<1>8. InvitationFate'
  BY <1>6, <1>7 DEF OrganizationsIInv, InvitationFate
<1>9. [company |-> c, status |-> "ACTIVE"] \in Memberships /\ [company |-> c, status |-> "ACTIVE"] # NotMember
  BY <1>4 DEF Memberships, MemberStatuses, NotMember
<1>10. /\ member' \in [People -> Memberships]
      /\ \A q \in People : member[q] # NotMember => member'[q] # NotMember
  BY <1>2, <1>4, <1>9, Rows
<1>11. grants' \subseteq Grants
  BY <1>2, <1>4, GrantsMade, Rows
<1>12. QED
  BY <1>2, <1>7, <1>8, <1>10, <1>11, Rows, PeopleStep

----------------------------------------------------------------------------
(* Members *)

LEMMA MemberSteps ==
    ASSUME OrganizationsIInv,
           \/ \E p \in People, c \in Companies : Onboard(p, c) \/ \E owner \in People : RequestTransfer(owner, p, c)
           \/ \E incident \in incidents : Transfer(incident)
           \/ \E r \in requests : SetStatus(r) \/ Fail(r)
           \/ DayPasses
    PROVE  OrganizationsIInv'
<1>1. ASSUME UNCHANGED <<place, undone, invitations>>, requests' \subseteq requests,
             day' \in Days, trialEnd' \in [Companies -> Nat], grants' \subseteq Grants,
             member' \in [People -> Memberships],
             incidents' \subseteq [person : People, from : Companies, to : Companies],
             \A p \in People : member[p] # NotMember => member'[p] # NotMember
      PROVE  OrganizationsIInv'
  BY <1>1, Rows, SameFate, PeopleStep DEF OrganizationsIInv
<1>2. ASSUME NEW p \in People, NEW c \in Companies, Onboard(p, c) PROVE OrganizationsIInv'
  <2>1. [company |-> c, status |-> "ACTIVE"] \in Memberships /\ [company |-> c, status |-> "ACTIVE"] # NotMember
    BY DEF Memberships, MemberStatuses, NotMember
  <2>2. GrantsFor(p, "OWNER", {c}) \subseteq Grants
    BY DEF GrantsFor, Grants, Roles
  <2>3. day + TrialDays \in Nat
    BY Rows, OrganizationsAssumption DEF Days
  <2>4. /\ trialEnd' \in [Companies -> Nat] /\ grants' \subseteq Grants
        /\ member' \in [People -> Memberships]
        /\ \A q \in People : member[q] # NotMember => member'[q] # NotMember
    BY <1>2, <2>1, <2>2, <2>3, Rows DEF Onboard
  <2>5. UNCHANGED <<day, place, undone, invitations, incidents, requests>>
    BY <1>2 DEF Onboard
  <2>6. QED
    BY <1>1, <2>4, <2>5, Rows
<1>3. ASSUME NEW p \in People, NEW c \in Companies, NEW owner \in People, RequestTransfer(owner, p, c)
      PROVE  OrganizationsIInv'
  <2>1. member[owner].company \in Companies
    BY <1>3, Rows DEF RequestTransfer, Memberships, NotMember
  <2>2. [person |-> p, from |-> member[p].company, to |-> c] \in [person : People, from : Companies, to : Companies]
    BY <1>3, <2>1 DEF RequestTransfer
  <2>3. QED
    BY <1>1, <1>3, <2>2, Rows DEF RequestTransfer
<1>4. ASSUME NEW incident \in incidents, Transfer(incident) PROVE OrganizationsIInv'
  <2> DEFINE there == [company |-> incident.to, status |-> "INVITED"]
  <2>1. incident.person \in People /\ incident.to \in Companies
    BY Rows
  <2>2. there \in Memberships /\ there # NotMember
    BY <2>1 DEF Memberships, MemberStatuses, NotMember
  <2>3. member' = [member EXCEPT ![incident.person] = there]
    BY <1>4 DEF Transfer
  <2> HIDE DEF there
  <2>4. /\ member' \in [People -> Memberships]
        /\ \A q \in People : member[q] # NotMember => member'[q] # NotMember
    BY <2>1, <2>2, <2>3, Rows
  <2>5. QED
    BY <1>1, <1>4, <2>4, Rows DEF Transfer
<1>5. ASSUME NEW r \in requests, SetStatus(r) PROVE OrganizationsIInv'
  <2>1. r.about \in People /\ member[r.about] # NotMember
    BY <1>5 DEF SetStatus, OrganizationsIInv, RequestsMeant, MemberWork
  <2>2. PICK s \in {"SUSPENDED", "ACTIVE"} : member' = [member EXCEPT ![r.about].status = s]
    BY <1>5 DEF SetStatus
  <2>3. [member[r.about] EXCEPT !.status = s] \in Memberships /\ [member[r.about] EXCEPT !.status = s] # NotMember
    BY <2>1, Rows DEF Memberships, MemberStatuses, NotMember
  <2>4. /\ member' \in [People -> Memberships]
        /\ \A q \in People : member[q] # NotMember => member'[q] # NotMember
    BY <2>1, <2>2, <2>3, Rows
  <2>5. QED
    BY <1>1, <1>5, <2>4, Rows DEF SetStatus, Served
<1>6. ASSUME NEW r \in requests, Fail(r) PROVE OrganizationsIInv'
  BY <1>1, <1>6, Rows DEF Fail, Served
<1>7. CASE DayPasses
  BY <1>1, <1>7, Rows, OrganizationsAssumption DEF DayPasses, Days
<1>8. QED
  BY <1>2, <1>3, <1>4, <1>5, <1>6, <1>7

\* A change of role ends the grants it has seen, and makes others.
LEMMA RoleSteps ==
    ASSUME OrganizationsIInv, NEW r \in requests,
           EndGrants(r) \/ \E role \in GivenRoles, targets \in Named : Regrant(r, role, targets)
    PROVE  OrganizationsIInv'
<1>1. r \in Requested(invitations) /\ requests \subseteq Requested(invitations)
  BY Rows
<1>2. r.does \in MemberWork => r.about \in People /\ member[r.about] # NotMember
  BY DEF OrganizationsIInv, RequestsMeant
<1>3. CASE EndGrants(r)
  <2> DEFINE new == [r EXCEPT !.does = "regrant", !.old = Current(r.about)]
  <2>1. /\ r.does = "role" /\ requests' = (requests \ {r}) \cup {new}
        /\ UNCHANGED <<day, trialEnd, place, undone, member, grants, invitations, incidents>>
    BY <1>3 DEF EndGrants
  <2>2. Current(r.about) \subseteq Grants
    BY Rows DEF Current
  <2>3. /\ new \in Requested(invitations) /\ new.does = "regrant" /\ new.about = r.about
    BY <1>1, <2>2 DEF Requested, Operations
  <2> HIDE DEF new
  <2>4. RequestsMeant'
    BY <1>2, <2>1, <2>3 DEF OrganizationsIInv, RequestsMeant, MemberWork, PlaceWork
  <2>5. OrganizationsTypeOK'
    BY <1>1, <2>1, <2>3, TypeParts DEF OrganizationsIInv
  <2>6. CreationsFit'
    BY <2>1, <2>3, SameRoom DEF OrganizationsIInv
  <2>7. QED
    BY <2>1, <2>4, <2>5, <2>6, SamePlan, SameFate DEF OrganizationsIInv
<1>4. ASSUME NEW role \in GivenRoles, NEW targets \in Named, Regrant(r, role, targets) PROVE OrganizationsIInv'
  <2> DEFINE new == GrantsFor(r.about, role, Granted(r.company, role, targets))
             seen == r.old \cup new
  <2>1. /\ r.does = "regrant" /\ grants' = (grants \ r.old) \cup new
        /\ requests' = {[q EXCEPT !.old = @ \ seen] : q \in requests \ {r}}
        /\ UNCHANGED <<day, trialEnd, place, undone, member, invitations, incidents>>
    BY <1>4 DEF Regrant
  <2>2. new \subseteq Grants
    <3>1. r.about \in People /\ r.company \in Companies /\ role \in Roles
      BY <1>1, <1>2, <2>1, OrganizationsAssumption DEF MemberWork, Requested
    <3>2. QED
      BY <3>1, GrantsMade
  <2> HIDE DEF new, seen
  <2>3. ASSUME NEW q \in requests
        PROVE  LET other == [q EXCEPT !.old = @ \ seen]
               IN  /\ other \in Requested(invitations) /\ other.does = q.does /\ other.about = q.about
                   /\ other.company = q.company /\ other.read = q.read
    BY <1>1 DEF Requested
  <2>4. ASSUME NEW other \in requests'
        PROVE  \E q \in requests : /\ other \in Requested(invitations)
                                   /\ other.does = q.does /\ other.about = q.about
                                   /\ other.company = q.company /\ other.read = q.read
    BY <2>1, <2>3
  <2>5. RequestsMeant'
    <3> SUFFICES ASSUME NEW other \in requests'
                 PROVE  /\ other.does \in {"cancel", "resend"} => other.about \in DOMAIN invitations'
                        /\ other.does \in MemberWork => other.about \in People /\ member'[other.about] # NotMember
                        /\ other.does \in PlaceWork => other.about \in Places /\ other.company = CompanyOfScope(other.about)
                        /\ other.does = "update" => other.read = "ACTIVE" /\ place'[other.about] # "NONE"
      BY DEF RequestsMeant
    <3>1. PICK q \in requests : other.does = q.does /\ other.about = q.about
                                /\ other.company = q.company /\ other.read = q.read
      BY <2>4
    <3>2. QED
      BY <2>1, <3>1 DEF OrganizationsIInv, RequestsMeant
  <2>6. OrganizationsTypeOK'
    <3>1. requests' \subseteq Requested(invitations') /\ grants' \subseteq Grants
      BY <2>1, <2>2, <2>4, Rows
    <3>2. QED
      BY <2>1, <3>1, TypeParts DEF OrganizationsIInv
  <2>7. CreationsFit'
    <3>1. \A c, x : RoomLeft(c, x)' <=> RoomLeft(c, x)
      BY <2>1 DEF RoomLeft, Live, OfCompany
    <3>2. ASSUME NEW o1 \in requests', NEW o2 \in requests', o1.does = "insert", o2.does = "insert"
          PROVE  RoomLeft(o1.company, o1.about) /\ (o1.company = o2.company => o1 = o2)
      <4>1. PICK q1 \in requests : o1 = [q1 EXCEPT !.old = @ \ seen]
        BY <2>1
      <4>2. PICK q2 \in requests : o2 = [q2 EXCEPT !.old = @ \ seen]
        BY <2>1
      <4>3. /\ o1.does = q1.does /\ o1.about = q1.about /\ o1.company = q1.company
            /\ o2.does = q2.does /\ o2.company = q2.company
        BY <2>3, <4>1, <4>2
      <4>4. QED
        BY <3>2, <4>1, <4>2, <4>3 DEF OrganizationsIInv, CreationsFit
    <3>3. QED
      BY <3>1, <3>2 DEF CreationsFit
  <2>8. QED
    BY <2>1, <2>5, <2>6, <2>7, SamePlan, SameFate DEF OrganizationsIInv
<1>5. QED
  BY <1>3, <1>4

----------------------------------------------------------------------------
(* The invariant and the theorems *)

LEMMA OrganizationsNextInvariant == OrganizationsIInv /\ [OrganizationsNext]_orgVars => OrganizationsIInv'
<1> SUFFICES ASSUME OrganizationsIInv, [OrganizationsNext]_orgVars PROVE OrganizationsIInv'
  OBVIOUS
<1>1. CASE \/ \E p \in People, x \in Places : ViewNewPlace(p, x) \/ ViewPlace(p, x)
           \/ \E p \in People : ViewInvite(p)
           \/ \E p \in People, i \in DOMAIN invitations : ViewInvitation(p, i)
           \/ \E p, other \in People : ViewMember(p, other)
  BY <1>1, Views
<1>2. CASE \E r \in requests :
              BeginCreation(r) \/ CreatePlace(r) \/ UpdatePlace(r) \/ ArchivePlace(r) \/ ReactivatePlace(r)
  BY <1>2, PlaceSteps
<1>3. CASE \E r \in requests : CancelInvitation(r) \/ ResendInvitation(r)
  BY <1>3, InvitationSteps
<1>4. CASE \E r \in requests, role \in GivenRoles, targets \in Named : \E p \in People : Invite(r, p, role, targets)
  BY <1>4, Invites
<1>5. CASE \E i \in DOMAIN invitations : \E link \in 1..invitations[i].link, at \in {day, day - 1} \cap Days :
              AcceptInvitation(i, link, at)
  <2>1. PICK i \in DOMAIN invitations : \E link \in 1..invitations[i].link, at \in {day, day - 1} \cap Days :
              AcceptInvitation(i, link, at)
    BY <1>5
  <2>2. PICK link \in 1..invitations[i].link, at \in {day, day - 1} \cap Days : AcceptInvitation(i, link, at)
    BY <2>1
  <2>3. link \in Nat
    BY Rows DEF Letters
  <2>4. QED
    BY <2>2, <2>3, Accepts
<1>6. CASE \E r \in requests :
              \/ EndGrants(r)
              \/ \E role \in GivenRoles, targets \in Named : Regrant(r, role, targets)
  BY <1>6, RoleSteps
<1>7. CASE \/ \E p \in People, c \in Companies : Onboard(p, c) \/ \E owner \in People : RequestTransfer(owner, p, c)
           \/ \E incident \in incidents : Transfer(incident)
           \/ \E r \in requests : SetStatus(r) \/ Fail(r)
           \/ DayPasses
  BY <1>7, MemberSteps
<1>8. CASE UNCHANGED orgVars
  BY <1>8, PeopleStep, Rows, SameFate DEF orgVars, OrganizationsIInv
<1>9. QED
  BY <1>1, <1>2, <1>3, <1>4, <1>5, <1>6, <1>7, <1>8 DEF OrganizationsNext, PeopleNext, PlacesNext

\* Requests are for what is there, invitations are as their acceptance left them.
THEOREM OrganizationsInvariant == OrganizationsSpec => []OrganizationsIInv
BY OrganizationsInitInvariant, OrganizationsNextInvariant, PTL DEF OrganizationsSpec

\* Rows have the types of their columns (apps/organizations/models.py).
THEOREM OrganizationsTypeCorrect == OrganizationsSpec => []OrganizationsTypeOK
<1>1. OrganizationsIInv => OrganizationsTypeOK
  BY DEF OrganizationsIInv
<1>2. QED
  BY <1>1, OrganizationsInvariant, PTL

\* Members are shown exactly the sites and zones they have the permission for, whatever
\* roles were given on whatever scopes (zone_ids_accessible_by_membership).
THEOREM ListsAndPermissionsAgree == OrganizationsSpec => []SeesWhatItMay
<1>1. OrganizationsIInv => SeesWhatItMay
  BY MembersSee DEF OrganizationsIInv
<1>2. QED
  BY <1>1, OrganizationsInvariant, PTL

\* No number of creations and reactivations at once exceeds the plan; a place can only be
\* too many if a late save of its row undid its archiving (_check_plan_limit, update_site).
THEOREM PlanHolds == OrganizationsSpec => []PlacesWithinPlan
<1>1. OrganizationsIInv => PlacesWithinPlan
  BY DEF OrganizationsIInv
<1>2. QED
  BY <1>1, OrganizationsInvariant, PTL

\* An invitation makes one member, by the last link sent (accept_company_invitation).
THEOREM InvitationsOnce == OrganizationsSpec => []InvitationOpensOnce
<1>1. OrganizationsIInv => InvitationOpensOnce
  BY DEF OrganizationsIInv, InvitationFate, InvitationOpensOnce
<1>2. QED
  BY <1>1, OrganizationsInvariant, PTL

----------------------------------------------------------------------------
(* Together *)

\* AccountsTypesOK: users and companies side by side keep their types.
THEOREM AccountsTypeCorrect == SessionsSpec /\ OrganizationsSpec => []AccountsTypesOK
BY SessionsTypeCorrect, OrganizationsTypeCorrect, PTL DEF AccountsTypesOK

\* LinksOpenOnce: whatever is sent by mail, a link to verify an address or to change a
\* password (users/services.py consume) or an invitation, opens once, and only the last
\* one that was sent.
THEOREM EveryLinkOnce == SessionsSpec /\ OrganizationsSpec => []LinksOpenOnce
BY LinksOnce, InvitationsOnce, PTL DEF LinksOpenOnce
===============================================================================
