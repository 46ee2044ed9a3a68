--------------------------- MODULE Organizations ---------------------------
(***************************************************************************)
(* Companies, their people and their places (apps/organizations, with the  *)
(* parts of onboarding, authorization, billing and support it works with). *)
(*                                                                         *)
(* A request of the panel is served in two parts.  The view finds out      *)
(* whether the user may do this and reads the row it is about; nothing is  *)
(* locked.  The service then opens a transaction of its own.  What counts  *)
(* against a limit of the plan is created and brought back under the lock  *)
(* of the company's row, invitations are changed under the lock of their   *)
(* own, but sites, zones and memberships are written over as the view read *)
(* them.  "requests" holds what views have let through.                    *)
(*                                                                         *)
(* A scope is the company, site or zone itself.  Permission overrides are  *)
(* made by administrators only and are left out, as are names, codes and   *)
(* the rest of the profiles.                                               *)
(***************************************************************************)
EXTENDS Naturals, Sequences, SequencesExt, FiniteSets

CONSTANTS
    Companies, People, Staff,
    Sites, Zones, CompanyOf, SiteOf,    \* of a site, of a zone
    GivenRoles, Named,                  \* the roles given and the places named with them, to choose from
    SiteLimit, ZoneLimit, Seats,        \* of the plan
    TrialDays, InvitationLife, ResendCooldown,
    LastDay, MaxInvitations, MaxRequests,    \* bounds of the exploration
    Nothing

VARIABLES
    day,
    trialEnd,     \* Subscription, by company; 0 as long as there is no company
    place,        \* status of Site and Zone
    undone,       \* the places whose archiving a late save has undone
    member,       \* CompanyMembership, by user
    grants,       \* the active rows of MembershipGrant
    invitations,  \* CompanyInvitation
    incidents,    \* open transfer requests
    requests      \* what the views have let through

orgVars == <<day, trialEnd, place, undone, member, grants, invitations, incidents, requests>>

Places == Sites \cup Zones
Statuses == {"NONE", "ACTIVE", "ARCHIVED"}
CompanyRoles == {"MANAGER", "EDITOR_PLAYLISTS"}
Roles == CompanyRoles \cup {"OWNER", "OPERADOR_SEDES", "VIEWER"}
Days == 0..LastDay
Grants == [person : People, role : Roles, scope : Companies \cup Places]
NotMember == [company |-> Nothing, status |-> "NONE"]
MemberStatuses == {"INVITED", "ACTIVE", "SUSPENDED"}
Operations == {"invite", "cancel", "resend", "suspend", "reactivate", "role", "regrant",
               "create", "insert", "update", "archive", "bring back"}

ASSUME OrganizationsAssumption ==
    /\ Staff \subseteq People
    /\ Companies \cap Places = {} /\ Sites \cap Zones = {}
    /\ IsFiniteSet(Sites) /\ IsFiniteSet(Zones)
    /\ CompanyOf \in [Sites -> Companies] /\ SiteOf \in [Zones -> Sites]
    /\ GivenRoles \subseteq Roles \ {"OWNER"} /\ Named \subseteq SUBSET Places
    /\ SiteLimit \in Nat /\ ZoneLimit \in Nat /\ Seats \in Nat
    /\ TrialDays \in Nat /\ InvitationLife \in Nat /\ ResendCooldown \in Nat
    /\ LastDay \in Nat /\ MaxInvitations \in Nat /\ MaxRequests \in Nat
    /\ Nothing \notin Companies \cup People \cup Places

OrganizationsTypeOK ==
    /\ day \in Days /\ trialEnd \in [Companies -> Nat]
    /\ place \in [Places -> Statuses] /\ undone \subseteq Places
    /\ member \in [People -> [company : Companies, status : MemberStatuses] \cup {NotMember}]
    /\ grants \subseteq Grants
    /\ invitations \in Seq([company : Companies, email : People, role : Roles, targets : Named,
                            link : Nat, sent : Days, accepted : BOOLEAN, cancelled : BOOLEAN,
                            opened : Seq(Nat)])
    /\ incidents \subseteq [person : People, from : Companies, to : Companies]
    /\ requests \subseteq [does : Operations, company : Companies,
                           about : People \cup Places \cup DOMAIN invitations \cup {Nothing},
                           read : Statuses, old : SUBSET Grants]

OrganizationsInit ==
    /\ day = 0 /\ trialEnd = [c \in Companies |-> 0]
    /\ place = [x \in Places |-> "NONE"] /\ undone = {}
    /\ member = [p \in People |-> NotMember]
    /\ grants = {} /\ invitations = <<>>
    /\ incidents = {} /\ requests = {}

----------------------------------------------------------------------------
(* Permissions *)

\* The catalogue of roles, as far as this module asks for it.
MayOf(role) ==
    CASE role \in {"OWNER", "MANAGER"} ->
            ({"sites", "zones"} \X {"view", "create", "update", "archive"})
            \cup ({"users"} \X {"view", "invite", "role", "suspend", "reactivate"})
            \cup ({"invitations"} \X {"cancel", "resend"})
      [] role = "OPERADOR_SEDES" -> {"sites", "zones"} \X {"view", "update_operational"}
      [] OTHER -> {"sites", "zones", "users"} \X {"view"}

CompanyOfScope(x) ==
    CASE x \in Companies -> x
      [] x \in Sites -> CompanyOf[x]
      [] x \in Zones -> CompanyOf[SiteOf[x]]

\* _scope_matches
Covers(granted, x) ==
    \/ granted = x
    \/ granted \in Companies /\ CompanyOfScope(x) = granted
    \/ granted \in Sites /\ x \in Zones /\ SiteOf[x] = granted

Current(p) == {g \in grants : g.person = p}

\* resolve_effective_permissions
Effective(p, x) == UNION {MayOf(g.role) : g \in {g \in Current(p) : Covers(g.scope, x)}}

\* membership_has_permission_on_any_scope: which is enough when no place is named.
Anywhere(p) == UNION {MayOf(g.role) : g \in Current(p)}

\* The scopes of the member's grants that carry the permission.
GrantedScopes(p, permission) ==
    {g.scope : g \in {g \in Current(p) : permission \in Effective(p, g.scope)}}

OfCompany(c) == {x \in Places : CompanyOfScope(x) = c}

\* site_ids_accessible_by_membership: who has one of its zones gets the site too.
SitesFor(p, permission) ==
    LET c == member[p].company
        scopes == GrantedScopes(p, permission)
    IN  Sites \cap OfCompany(c) \cap
            (IF permission \in Effective(p, c) THEN Sites
             ELSE scopes \cup {SiteOf[z] : z \in scopes \cap Zones})

\* The mistake of taking the grants on zones alone.
ZonesFor_NotOfSites(p, permission) ==
    LET c == member[p].company
    IN  Zones \cap OfCompany(c) \cap
            (IF permission \in Effective(p, c) THEN Zones ELSE GrantedScopes(p, permission))

\* zone_ids_accessible_by_membership
ZonesFor(p, permission) ==
    LET c == member[p].company
        scopes == GrantedScopes(p, permission)
    IN  Zones \cap OfCompany(c) \cap
            (IF permission \in Effective(p, c) THEN Zones
             ELSE scopes \cup {z \in Zones : SiteOf[z] \in scopes})

\* require_company_permission
Functional(c) == day < trialEnd[c]
Admitted(p, permission) ==
    /\ member[p].status = "ACTIVE" /\ p \notin Staff
    /\ Functional(member[p].company)
    /\ permission \in Anywhere(p)

----------------------------------------------------------------------------
(* The views *)

Let(c, operation, subject, status) ==
    /\ Cardinality(requests) < MaxRequests
    /\ requests' = requests \cup
            {[does |-> operation, company |-> c, about |-> subject, read |-> status, old |-> {}]}
    /\ UNCHANGED <<day, trialEnd, place, undone, member, grants, invitations, incidents>>

Served(r) == requests' = requests \ {r}

ViewInvite(p) == Admitted(p, <<"users", "invite">>) /\ Let(member[p].company, "invite", Nothing, "NONE")

ViewInvitation(p, i) ==
    /\ invitations[i].company = member[p].company
    /\ \E operation \in {"cancel", "resend"} :
            Admitted(p, <<"invitations", operation>>) /\ Let(member[p].company, operation, i, "NONE")

\* Another member of the company; those who were moved here are not found.
ViewMember(p, other) ==
    /\ member[other].company = member[p].company /\ member[other].status \in {"ACTIVE", "SUSPENDED"}
    /\ \E operation \in {"suspend", "reactivate", "role"} :
        /\ Admitted(p, <<"users", operation>>)
        /\ Let(member[p].company, operation, other, "NONE")

On(x, operation) == <<IF x \in Sites THEN "sites" ELSE "zones", operation>>
PlacesFor(p, permission) == SitesFor(p, permission) \cup ZonesFor(p, permission)

ViewNewPlace(p, x) ==
    /\ place[x] = "NONE" /\ x \in OfCompany(member[p].company)
    /\ Admitted(p, On(x, "create"))
    /\ Let(member[p].company, "create", x, "NONE")

InArchivedSite(x) == x \in Zones /\ place[SiteOf[x]] = "ARCHIVED"

\* Who may not update all of it may still update how it is run.
ViewPlace(p, x) ==
    LET c == member[p].company
        Found(permission) == Admitted(p, permission) /\ x \in PlacesFor(p, permission)
        all == On(x, "update")
    IN  /\ place[x] # "NONE"
        /\ \/ /\ Found(all) \/ (~Admitted(p, all) /\ Found(On(x, "update_operational")))
              /\ place[x] # "ARCHIVED" /\ ~InArchivedSite(x)
              /\ Let(c, "update", x, place[x])
           \/ Found(On(x, "archive")) /\ Let(c, "archive", x, place[x])
           \/ Found(all) /\ Let(c, "bring back", x, IF x \in Zones THEN place[SiteOf[x]] ELSE place[x])

----------------------------------------------------------------------------
(* Sites and zones *)

Live(c, kind) == {x \in kind \cap OfCompany(c) : place[x] = "ACTIVE"}
Fits(some, limit) == Cardinality(some) < limit
RoomFor(c, x) ==
    IF x \in Sites THEN Fits(Live(c, Sites) \ {x}, SiteLimit) ELSE Fits(Live(c, Zones) \ {x}, ZoneLimit)

\* The mistake of counting without the lock of the company's row.
CompanyFree_Never(c) == TRUE

\* A creation under way has locked the company's row.
CompanyFree(c) == \A r \in requests : r.does = "insert" => r.company # c

\* create_site and create_zone lock the company's row, and count; create_zone reads the
\* zone's site too, which is not locked.
BeginCreation(r) ==
    /\ r.does = "create" /\ CompanyFree(r.company)
    /\ RoomFor(r.company, r.about)
    /\ r.about \in Zones => place[SiteOf[r.about]] = "ACTIVE"
    /\ requests' = (requests \ {r}) \cup {[r EXCEPT !.does = "insert"]}
    /\ UNCHANGED <<day, trialEnd, place, undone, member, grants, invitations, incidents>>

\* They insert what they found room for.
CreatePlace(r) ==
    /\ r.does = "insert" /\ place[r.about] = "NONE"
    /\ place' = [place EXCEPT ![r.about] = "ACTIVE"]
    /\ Served(r)
    /\ UNCHANGED <<day, trialEnd, undone, member, grants, invitations, incidents>>

\* update_site and update_zone save the whole row as it was read.
UpdatePlace(r) ==
    /\ r.does = "update"
    /\ place' = [place EXCEPT ![r.about] = r.read]
    /\ undone' = IF place[r.about] = "ARCHIVED" THEN undone \cup {r.about} ELSE undone
    /\ Served(r)
    /\ UNCHANGED <<day, trialEnd, member, grants, invitations, incidents>>

\* archive_site takes its zones along.
ArchivePlace(r) ==
    LET gone == {x \in Places : x = r.about \/ (x \in Zones /\ SiteOf[x] = r.about /\ place[x] # "NONE")}
    IN  /\ r.does = "archive"
        /\ place' = [x \in Places |-> IF x \in gone THEN "ARCHIVED" ELSE place[x]]
        /\ undone' = undone \ gone
        /\ Served(r)
        /\ UNCHANGED <<day, trialEnd, member, grants, invitations, incidents>>

ReactivatePlace(r) ==
    /\ r.does = "bring back" /\ CompanyFree(r.company)
    /\ r.about \in Zones => r.read # "ARCHIVED"
    /\ RoomFor(r.company, r.about)
    /\ place' = [place EXCEPT ![r.about] = "ACTIVE"]
    /\ undone' = undone \ {r.about}
    /\ Served(r)
    /\ UNCHANGED <<day, trialEnd, member, grants, invitations, incidents>>

----------------------------------------------------------------------------
(* People *)

Until(i) == invitations[i].sent + InvitationLife
Pending(i, at) == ~invitations[i].accepted /\ ~invitations[i].cancelled /\ Until(i) > at
MembersOf(c) == {p \in People : member[p].company = c}
PendingOf(c) == {i \in DOMAIN invitations : invitations[i].company = c /\ Pending(i, day)}

\* _resolve_scope_targets: what a role is given on, if it can be given.
Grantable(c, role, targets) ==
    role \in CompanyRoles
    \/ /\ targets = {} => role = "VIEWER"
       /\ \A x \in targets : x \in Live(c, Places) /\ ~InArchivedSite(x)

\* The mistake of a grant on no scope when no place is named.
Granted_AsNamed(c, role, targets) == IF targets = {} THEN {Nothing} ELSE targets

Granted(c, role, targets) == IF role \in CompanyRoles \/ targets = {} THEN {c} ELSE targets

GrantsFor(p, role, scopes) == {[person |-> p, role |-> role, scope |-> x] : x \in scopes}
IsOwner(p) == \E g \in Current(p) : g.role = "OWNER"

\* complete_client_onboarding: the company of this tax id, its owner and its trial.
Onboard(p, c) ==
    /\ member[p] = NotMember /\ p \notin Staff /\ trialEnd[c] = 0
    /\ trialEnd' = [trialEnd EXCEPT ![c] = day + TrialDays]
    /\ member' = [member EXCEPT ![p] = [company |-> c, status |-> "ACTIVE"]]
    /\ grants' = grants \cup GrantsFor(p, "OWNER", {c})
    /\ UNCHANGED <<day, place, undone, invitations, incidents, requests>>

\* invite_company_member: an invitation of the same address that is over is cancelled.
Invite(r, p, role, targets) ==
    LET c == r.company
        Over(i) == /\ invitations[i].company = c /\ invitations[i].email = p
                   /\ ~invitations[i].accepted /\ Until(i) <= day
    IN  /\ r.does = "invite" /\ CompanyFree(c) /\ Len(invitations) < MaxInvitations
        /\ Fits(MembersOf(c) \cup PendingOf(c), Seats)
        /\ p \notin Staff /\ member[p] = NotMember
        /\ \A i \in PendingOf(c) : invitations[i].email # p
        /\ Grantable(c, role, targets)
        /\ invitations' = Append(
                [i \in DOMAIN invitations |-> [invitations[i] EXCEPT !.cancelled = @ \/ Over(i)]],
                [company |-> c, email |-> p, role |-> role, targets |-> targets, link |-> 1,
                 sent |-> day, accepted |-> FALSE, cancelled |-> FALSE, opened |-> <<>>])
        /\ Served(r)
        /\ UNCHANGED <<day, trialEnd, place, undone, member, grants, incidents>>

CancelInvitation(r) ==
    /\ r.does = "cancel" /\ Pending(r.about, day)
    /\ invitations' = [invitations EXCEPT ![r.about].cancelled = TRUE]
    /\ Served(r)
    /\ UNCHANGED <<day, trialEnd, place, undone, member, grants, incidents>>

\* A new link replaces the old one, unless that has only just been sent.
ResendInvitation(r) ==
    /\ r.does = "resend" /\ Pending(r.about, day)
    /\ invitations[r.about].sent + ResendCooldown <= day
    /\ invitations' = [invitations EXCEPT ![r.about].link = @ + 1, ![r.about].sent = day]
    /\ Served(r)
    /\ UNCHANGED <<day, trialEnd, place, undone, member, grants, incidents>>

\* The mistake of looking an invitation up by what its link was.
Fitting_Any(i, link) == link \in 1..invitations[i].link

\* _validate_invitation_for_token: the row is found by its link and found again, with what
\* it has become, once its lock is free.
Fitting(i, link) == link = invitations[i].link

\* accept_company_invitation.  The time was read before the lock was waited for.
AcceptInvitation(i, link, at) ==
    LET c == invitations[i].company
        p == invitations[i].email
        role == invitations[i].role
    IN  /\ Fitting(i, link) /\ Pending(i, at) /\ CompanyFree(c)
        /\ p \notin Staff /\ member[p] = NotMember
        /\ Grantable(c, role, invitations[i].targets)
        /\ member' = [member EXCEPT ![p] = [company |-> c, status |-> "ACTIVE"]]
        /\ grants' = grants \cup GrantsFor(p, role, Granted(c, role, invitations[i].targets))
        /\ invitations' = [invitations EXCEPT ![i].accepted = TRUE, ![i].opened = Append(@, link)]
        /\ UNCHANGED <<day, trialEnd, place, undone, incidents, requests>>

\* suspend_member, reactivate_member
SetStatus(r) ==
    /\ r.does \in {"suspend", "reactivate"} /\ ~IsOwner(r.about)
    /\ member' = [member EXCEPT ![r.about].status =
                        IF r.does = "suspend" THEN "SUSPENDED" ELSE "ACTIVE"]
    /\ Served(r)
    /\ UNCHANGED <<day, trialEnd, place, undone, grants, invitations, incidents>>

\* update_member_role_and_scopes ends the grants its UPDATE sees and makes others, in the
\* company the view found the member in.
EndGrants(r) ==
    /\ r.does = "role" /\ ~IsOwner(r.about)
    /\ requests' = (requests \ {r}) \cup {[r EXCEPT !.does = "regrant", !.old = Current(r.about)]}
    /\ UNCHANGED <<day, trialEnd, place, undone, member, grants, invitations, incidents>>

\* A row that is ended or made is none of those another's UPDATE has seen.
Regrant(r, role, targets) ==
    LET new == GrantsFor(r.about, role, Granted(r.company, role, targets))
    IN  /\ r.does = "regrant"
        /\ Grantable(r.company, role, targets)
        /\ grants' = (grants \ r.old) \cup new
        /\ requests' = {[q EXCEPT !.old = @ \ (r.old \cup new)] : q \in requests \ {r}}
        /\ UNCHANGED <<day, trialEnd, place, undone, member, invitations, incidents>>

\* create_membership_transfer_request
RequestTransfer(owner, p, c) ==
    /\ member[owner].status = "ACTIVE" /\ IsOwner(owner)
    /\ member[p].company = member[owner].company /\ c # member[p].company /\ trialEnd[c] # 0
    /\ incidents' = incidents \cup {[person |-> p, from |-> member[p].company, to |-> c]}
    /\ UNCHANGED <<day, trialEnd, place, undone, member, grants, invitations, requests>>

\* transfer_membership_by_support_ticket, by the staff.
Transfer(incident) ==
    LET p == incident.person
    IN  /\ member[p].company = incident.from
        /\ member' = [member EXCEPT ![p] = [company |-> incident.to, status |-> "INVITED"]]
        /\ grants' = grants \ Current(p)
        /\ incidents' = incidents \ {incident}
        /\ UNCHANGED <<day, trialEnd, place, undone, invitations, requests>>

----------------------------------------------------------------------------

DayPasses ==
    /\ day < LastDay
    /\ day' = day + 1
    /\ UNCHANGED <<trialEnd, place, undone, member, grants, invitations, incidents, requests>>

\* The transaction is rolled back, or the process dies.
Fail(r) ==
    /\ Served(r)
    /\ UNCHANGED <<day, trialEnd, place, undone, member, grants, invitations, incidents>>

PeopleNext ==
    \/ \E p \in People, c \in Companies : Onboard(p, c) \/ \E owner \in People : RequestTransfer(owner, p, c)
    \/ \E p \in People : ViewInvite(p)
    \/ \E p \in People, i \in DOMAIN invitations : ViewInvitation(p, i)
    \/ \E p, other \in People : ViewMember(p, other)
    \/ \E r \in requests, role \in GivenRoles, targets \in Named :
            Regrant(r, role, targets) \/ \E p \in People : Invite(r, p, role, targets)
    \/ \E r \in requests : CancelInvitation(r) \/ ResendInvitation(r) \/ SetStatus(r) \/ EndGrants(r)
    \/ \E i \in DOMAIN invitations : \E link \in 1..invitations[i].link, at \in {day, day - 1} \cap Days :
            AcceptInvitation(i, link, at)
    \/ \E incident \in incidents : Transfer(incident)

PlacesNext ==
    \/ \E p \in People, x \in Places : ViewNewPlace(p, x) \/ ViewPlace(p, x)
    \/ \E r \in requests :
            \/ BeginCreation(r) \/ CreatePlace(r)
            \/ UpdatePlace(r) \/ ArchivePlace(r) \/ ReactivatePlace(r)

OrganizationsNext ==
    \/ PeopleNext \/ PlacesNext \/ DayPasses
    \/ \E r \in requests : Fail(r)

OrganizationsSpec == OrganizationsInit /\ [][OrganizationsNext]_orgVars

----------------------------------------------------------------------------
(* Properties *)

\* An invitation makes one member, by the last link sent, and none after it was cancelled,
\* whoever accepts, resends and cancels at the same time (accept_company_invitation,
\* resend_invitation, cancel_invitation).
InvitationOpensOnce ==
    \A i \in DOMAIN invitations : invitations[i].opened # <<>> =>
        /\ invitations[i].opened = <<invitations[i].link>>
        /\ invitations[i].accepted /\ ~invitations[i].cancelled

\* The plan's limits of sites and zones hold, whatever creations and reactivations run at
\* once, each counting before it writes, but for the places whose archiving an update that
\* had read them before has undone (_check_plan_limit under the company's lock,
\* update_site and update_zone without).
PlacesWithinPlan ==
    \A c \in Companies :
        /\ Cardinality(Live(c, Sites) \ undone) <= SiteLimit
        /\ Cardinality(Live(c, Zones) \ undone) <= ZoneLimit

\* What a member is shown for a permission is what he has it for: a zone, exactly if his
\* grants give the permission on that zone; a site, if they do on it or on a zone of it.  The
\* list is computed from the grants, the permission from the place
\* (zone_ids_accessible_by_membership, resolve_effective_permissions).
SeesWhatItMay ==
    \A p \in People : member[p] # NotMember =>
        \A permission \in {<<"zones", "view">>, <<"zones", "update">>, <<"zones", "update_operational">>} :
            LET May(x) == permission \in Effective(p, x)
                mine == OfCompany(member[p].company)
            IN  /\ ZonesFor(p, permission) = {z \in Zones \cap mine : May(z)}
                /\ SitesFor(p, permission) =
                        {s \in Sites \cap mine : May(s) \/ \E z \in Zones : SiteOf[z] = s /\ May(z)}
=============================================================================
