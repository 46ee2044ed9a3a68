----------------------------- MODULE MCAccounts -----------------------------
(* Users and their sessions, the people of the companies and their places: three subjects
   explored one at a time.  The companies of "people" and "places" start as they may be
   after a while: an owner and a site operator, sites and zones, one of them archived. *)
EXTENDS Accounts

CONSTANTS p1, p2, p3, c1, c2, s1, s2, z1, z2, z3

VARIABLE part

accountsVars == <<part, sessionsVars, orgVars>>

MCCompanyOf == [s \in Sites |-> c1]
MCChoices == {{}, {s1}, {z1}}
MCSiteOf == [z \in Zones |-> IF z = z3 THEN s2 ELSE s1]

Given(p, role, x) == [person |-> p, role |-> role, scope |-> x]
InCompany(c) == [company |-> c, status |-> "ACTIVE"]

FoundedInit ==
    /\ day = 0 /\ undone = {} /\ invitations = <<>>
    /\ incidents = {} /\ requests = {}
    /\ trialEnd = [c \in Companies |-> IF c = c1 THEN TrialDays ELSE 0]
    /\ place = [x \in Places |-> CASE x = z2 -> "ARCHIVED" [] x \in {s2, z3} -> "NONE" [] OTHER -> "ACTIVE"]
    /\ \/ /\ part = "people"
          /\ member = [p \in People |-> IF p = p1 THEN InCompany(c1) ELSE NotMember]
          /\ grants = {Given(p1, "OWNER", c1)}
       \/ /\ part \in {"members", "places"}
          /\ member = [p \in People |-> IF p = p3 THEN NotMember ELSE InCompany(c1)]
          /\ grants = {Given(p1, "OWNER", c1), Given(p2, "OPERADOR_SEDES", z1)}

AccountsInit ==
    \/ part = "sessions" /\ SessionsInit /\ OrganizationsInit
    \/ part \in {"people", "members", "places"} /\ SessionsInit /\ FoundedInit

Asked(operations) == \A r \in requests' : r.does \in operations

OrganizationsStep ==
    \/ /\ part = "people" /\ (PeopleNext \/ DayPasses)
       /\ Asked({"invite", "cancel", "resend"}) /\ incidents' = {} /\ trialEnd' = trialEnd
    \/ /\ part = "members" /\ PeopleNext
       /\ Asked({"suspend", "reactivate", "role", "regrant"}) /\ \A r \in requests' : r.about = p2
    \/ part = "places" /\ PlacesNext
    \/ part # "sessions" /\ \E r \in requests : Fail(r)

AccountsNext ==
    /\ UNCHANGED part
    /\ \/ part = "sessions" /\ SessionsNext /\ UNCHANGED orgVars
       \/ part # "sessions" /\ OrganizationsStep /\ UNCHANGED sessionsVars

AccountsSpec == AccountsInit /\ [][AccountsNext]_accountsVars
=============================================================================
