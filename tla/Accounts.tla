------------------------------ MODULE Accounts -------------------------------
(***************************************************************************)
(* The accounts: users with their sessions and links, and companies with   *)
(* their people, sites, zones and invitations.  No row is of both, and     *)
(* their composition is the conjunction of their specifications.           *)
(***************************************************************************)
EXTENDS Sessions, Organizations

\* The rows of both modules hold what the columns can hold.
AccountsTypesOK == SessionsTypeOK /\ OrganizationsTypeOK

\* What is sent by mail, a link of a user or an invitation, opens once, and only the last
\* that was sent.
LinksOpenOnce == ActionLinkOpensOnce /\ InvitationOpensOnce
=============================================================================
