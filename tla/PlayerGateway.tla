--------------------------- MODULE PlayerGateway ---------------------------
(***************************************************************************)
(* The Go gateway between the players and Django: the authentication       *)
(* middleware with its cache of introspected tokens                        *)
(* (internal/platform/middleware/device_auth.go) and the manifest handler  *)
(* with its cache of runtimes (internal/player/service.go).  The requests  *)
(* of a device's players run concurrently; the caches are locked only      *)
(* while they are read or written, never across a call to Django.          *)
(*                                                                         *)
(* A call to Django is taken apart into sending, Django's decision and the *)
(* arrival of the answer; any call may fail instead.  Time is a counter.   *)
(* Of Django only two things matter here: whether it accepts a token and   *)
(* which runtime it answers with.  Telemetry, polls and command answers    *)
(* take the same middleware and are decided by Django again, so they are   *)
(* not repeated; the queue inside a manifest is another module's subject.  *)
(***************************************************************************)
EXTENDS Naturals, FiniteSets

CONSTANTS
    Requests,    \* requests that can be under way together
    Tokens,      \* access tokens of one device
    TokenExpiry, \* the exp claim of each token
    TTL,         \* lifetime of an introspection in the cache
    CacheLimit,  \* 2048 in the source
    Validity,    \* lifetime of a published manifest
    MaxTime,     \* bound of the exploration on the clock
    MaxVersion,  \* bound of the exploration on published versions
    Nothing      \* no runtime, no token

ASSUME GatewayAssumption ==
    /\ TokenExpiry \in [Tokens -> Nat]
    /\ TTL \in Nat \ {0}
    /\ CacheLimit \in Nat
    /\ Validity \in Nat \ {0}
    /\ MaxTime \in Nat
    /\ MaxVersion \in Nat
    /\ Nothing \notin Tokens
    /\ IsFiniteSet(Tokens)

Never == MaxTime + 1

VARIABLES
    now,        \* the clock
    revokedAt,  \* when Django stopped accepting each token, Never while it accepts
    published,  \* what Django answers a runtime request with, Nothing without manifest
    version,    \* of the last publication
    overtakenAt, \* when Django stopped answering with each version, Never while it may
    cached,     \* DeviceAuthenticator.cache: when each entry expires, 0 without entry
    runtime,    \* Service.cache of the device
    request     \* the requests' goroutines

djangoVars == <<revokedAt, published, version, overtakenAt>>
vars == <<now, djangoVars, cached, runtime, request>>

Versions == 1..MaxVersion
Runtimes == [version : Versions, until : Nat]
Stages == {"idle", "introspecting", "introspected", "authorised", "calling", "called",
           "manifest"}

Verdicts == {"none", "accepted", "rejected", "failed"}

\* stage; the token; the time the middleware and the handler read; Django's verdict
\* and answer; what is served and whether it came from the cache.
RequestRecords ==
    [stage : Stages, token : Tokens \cup {Nothing}, began : Nat, called : Nat,
     verdict : Verdicts, answer : Runtimes \cup {Nothing}, fromCache : BOOLEAN]

NoRequest == [stage |-> "idle", token |-> Nothing, began |-> 0, called |-> 0,
              verdict |-> "none", answer |-> Nothing, fromCache |-> FALSE]

TypeOK ==
    /\ now \in 0..MaxTime
    /\ revokedAt \in [Tokens -> 0..Never]
    /\ published \in Runtimes \cup {Nothing}
    /\ version \in 0..MaxVersion
    /\ overtakenAt \in [Versions -> 0..Never]
    /\ cached \in [Tokens -> Nat]
    /\ runtime \in Runtimes \cup {Nothing}
    /\ request \in [Requests -> RequestRecords]
    /\ \A r \in Requests :
        /\ request[r].stage # "idle" => request[r].token \in Tokens
        /\ request[r].fromCache => request[r].answer \in Runtimes

Init ==
    /\ now = 0
    /\ revokedAt = [t \in Tokens |-> Never]
    /\ published = Nothing
    /\ version = 0
    /\ overtakenAt = [v \in Versions |-> Never]
    /\ cached = [t \in Tokens |-> 0]
    /\ runtime = Nothing
    /\ request = [r \in Requests |-> NoRequest]

----------------------------------------------------------------------------
(* Django, as the gateway sees it *)

\* authenticate_device_access_token and the signature's exp.
Accepts(t) == revokedAt[t] = Never /\ now < TokenExpiry[t]

\* The credential is revoked, or its device suspended, archived or revoked.
Revoke(t) ==
    /\ revokedAt[t] = Never
    /\ revokedAt' = [revokedAt EXCEPT ![t] = now]
    /\ UNCHANGED <<now, published, version, overtakenAt, cached, runtime, request>>

\* A new manifest, or a configuration without one; what was published before is overtaken.
Publish(withManifest) ==
    /\ version < MaxVersion
    /\ version' = version + 1
    /\ published' = IF withManifest THEN [version |-> version + 1, until |-> now + Validity]
                                    ELSE Nothing
    /\ overtakenAt' = IF published = Nothing THEN overtakenAt
                      ELSE [overtakenAt EXCEPT ![published.version] = now]
    /\ UNCHANGED <<now, revokedAt, cached, runtime, request>>

----------------------------------------------------------------------------
(* Authentication *)

\* A request that comes in with token t now.
Arrived(t, stage) ==
    [stage |-> stage, token |-> t, began |-> now, called |-> 0,
     verdict |-> "none", answer |-> Nothing, fromCache |-> FALSE]

\* Its token is found in the cache.
AuthenticateFromCache(r, t) ==
    /\ request[r].stage = "idle"
    /\ now < cached[t]
    /\ request' = [request EXCEPT ![r] = Arrived(t, "authorised")]
    /\ UNCHANGED <<now, djangoVars, cached, runtime>>

\* It is not, or has expired: the entry is dropped and Django is asked.
AskIntrospection(r, t) ==
    /\ request[r].stage = "idle"
    /\ now >= cached[t]
    /\ cached' = [cached EXCEPT ![t] = 0]
    /\ request' = [request EXCEPT ![r] = Arrived(t, "introspecting")]
    /\ UNCHANGED <<now, djangoVars, runtime>>

Introspect(r) ==
    /\ request[r].stage = "introspecting"
    /\ request' = [request EXCEPT ![r].stage = "introspected",
            ![r].verdict = IF Accepts(request[r].token) THEN "accepted" ELSE "rejected"]
    /\ UNCHANGED <<now, djangoVars, cached, runtime>>

Smaller(a, b) == IF a < b THEN a ELSE b

\* When the new entry is to expire.
EntryExpiry_FromArrival(r) == Smaller(now + TTL, TokenExpiry[request[r].token])
EntryExpiry(r) == Smaller(request[r].began + TTL, TokenExpiry[request[r].token])

Entries(c) == {t \in Tokens : c[t] # 0}

\* The caches that making room may leave: entries that have expired go first, then
\* any one, which Go's map order picks.
Dropped(c, S) == [t \in Tokens |-> IF t \in S THEN 0 ELSE c[t]]
Rooms_ExpiredOnly(c, at) ==
    {Dropped(c, {t \in Tokens : Cardinality(Entries(c)) > CacheLimit /\ at > c[t]})}
Rooms(c, at) ==
    LET live == Dropped(c, {t \in Tokens : at > c[t]})
    IN  CASE Cardinality(Entries(c)) <= CacheLimit    -> {c}
          [] Cardinality(Entries(live)) <= CacheLimit -> {live}
          [] OTHER -> {Dropped(live, {t}) : t \in Entries(live)}

Authorise(r) ==
    /\ request[r].stage = "introspected"
    /\ request[r].verdict = "accepted"
    /\ EntryExpiry(r) > request[r].began
    /\ \E room \in Rooms(cached, request[r].began) :
            cached' = [room EXCEPT ![request[r].token] = EntryExpiry(r)]
    /\ request' = [request EXCEPT ![r].stage = "authorised", ![r].verdict = "none"]
    /\ UNCHANGED <<now, djangoVars, runtime>>

\* 401 for a verdict of Django's, 503 when there is none or it is out of date.
RefuseAuthentication(r) ==
    /\ request[r].stage = "introspected"
    /\ request[r].verdict = "accepted" => EntryExpiry(r) <= request[r].began
    /\ request' = [request EXCEPT ![r] = NoRequest]
    /\ UNCHANGED <<now, djangoVars, cached, runtime>>

----------------------------------------------------------------------------
(* The manifest *)

CallRuntime(r) ==
    /\ request[r].stage = "authorised"
    /\ request' = [request EXCEPT ![r].stage = "calling", ![r].called = now]
    /\ UNCHANGED <<now, djangoVars, cached, runtime>>

\* Django authenticates the token again and answers.
AnswerRuntime(r) ==
    /\ request[r].stage = "calling"
    /\ request' = [request EXCEPT ![r].stage = "called",
            ![r].verdict = IF Accepts(request[r].token) THEN "accepted" ELSE "rejected",
            ![r].answer = IF Accepts(request[r].token) THEN published ELSE Nothing]
    /\ UNCHANGED <<now, djangoVars, cached, runtime>>

\* Either call times out, breaks, or ends in a 5xx.
CallFails(r) ==
    /\ request[r].stage \in {"introspecting", "calling"}
    /\ request' = [request EXCEPT ![r].verdict = "failed",
            ![r].stage = IF @ = "calling" THEN "called" ELSE "introspected"]
    /\ UNCHANGED <<now, djangoVars, cached, runtime>>

ValidAt(rt, time) == rt # Nothing /\ rt.until > time

\* The mistake of counting a manifest's lifetime again from when it is stored.
Stored_Renewed(r) == [request[r].answer EXCEPT !.until = now + Validity]
\* What is kept of an answer for later: the end of its manifest is Django's.
Stored(r) == request[r].answer

\* The answer is kept if its manifest is still valid, and served in any case.
ServeFresh(r) ==
    /\ request[r].stage = "called"
    /\ request[r].verdict = "accepted"
    /\ runtime' = IF ValidAt(request[r].answer, request[r].called)
                  THEN Stored(r) ELSE runtime
    /\ request' = [request EXCEPT ![r].stage = "manifest", ![r].verdict = "none"]
    /\ UNCHANGED <<now, djangoVars, cached>>

\* The cached runtime may stand in for Django's answer.
CacheStandsIn_Unchecked(r) == request[r].verdict = "failed"
CacheStandsIn(r) == ValidAt(runtime, request[r].called)

\* No answer, or a refusal: service.go 113-118 does not tell them apart.
ServeCached(r) ==
    /\ request[r].stage = "called"
    /\ request[r].verdict # "accepted"
    /\ CacheStandsIn(r)
    /\ request' = [request EXCEPT ![r].stage = "manifest", ![r].answer = runtime,
                                  ![r].fromCache = TRUE]
    /\ UNCHANGED <<now, djangoVars, cached, runtime>>

ServeNothing(r) ==
    /\ request[r].stage = "called"
    /\ request[r].verdict # "accepted"
    /\ ~CacheStandsIn(r)
    /\ request' = [request EXCEPT ![r] = NoRequest]
    /\ UNCHANGED <<now, djangoVars, cached, runtime>>

\* A served request is looked at by the properties and then forgotten.
Finish(r) ==
    /\ request[r].stage = "manifest"
    /\ request' = [request EXCEPT ![r] = NoRequest]
    /\ UNCHANGED <<now, djangoVars, cached, runtime>>

----------------------------------------------------------------------------

Tick ==
    /\ now < MaxTime
    /\ now' = now + 1
    /\ UNCHANGED <<djangoVars, cached, runtime, request>>

Next ==
    \/ Tick
    \/ \E t \in Tokens : Revoke(t)
    \/ \E withManifest \in BOOLEAN : Publish(withManifest)
    \/ \E r \in Requests :
        \/ \E t \in Tokens : AuthenticateFromCache(r, t) \/ AskIntrospection(r, t)
        \/ Introspect(r) \/ Authorise(r) \/ RefuseAuthentication(r)
        \/ CallRuntime(r) \/ AnswerRuntime(r) \/ CallFails(r)
        \/ ServeFresh(r) \/ ServeCached(r) \/ ServeNothing(r)
        \/ Finish(r)

Spec == Init /\ [][Next]_vars

----------------------------------------------------------------------------
(* Properties *)

Authorised(r) == request[r].stage \in {"authorised", "calling", "called", "manifest"}

\* A revoked token outlives its revocation by less than the TTL, however late the
\* answer that put it in the cache arrived (device_auth.go 67, 83).
RevocationReachesGateway ==
    \A r \in Requests :
        Authorised(r) => request[r].began < revokedAt[request[r].token] + TTL

\* The cache never lengthens the life of a token (device_auth.go 84-87).
TokenNotOutlived ==
    \A r \in Requests : Authorised(r) => request[r].began < TokenExpiry[request[r].token]

\* However many tokens come by, the cache holds one entry over its limit at most
\* (device_auth.go 92-103).
AuthenticationCacheBounded == Cardinality(Entries(cached)) <= CacheLimit + 1

\* Both together: what the cache lets in is no more, and lasts no longer, than that
\* (device_auth.go 81-103).
AuthenticationCacheSound == TokenNotOutlived /\ AuthenticationCacheBounded

\* What Django has replaced or withdrawn dies out: no request that reaches the handler a
\* manifest's lifetime later, or after that, is served it.  Not though the answers of two
\* overlapping calls are stored in the wrong order, an answer without manifest leaves the
\* cache as it is, and Django fails from then on (service.go 103-118).
OvertakenRuntimeDiesOut ==
    \A r \in Requests :
        request[r].stage = "manifest" /\ request[r].answer # Nothing =>
            request[r].called < overtakenAt[request[r].answer.version] + Validity

\* CLAIM (FASE4 contract lines 730-734, 790): the cached runtime stands in only when
\* Django fails; a revoked device cannot ask for a manifest.  So if a request that came
\* in after its token's revocation is served one, the call to Django has failed.
RevokedGetsNoManifest ==
    \A r \in Requests :
        request[r].stage = "manifest" /\ request[r].began > revokedAt[request[r].token] =>
            request[r].verdict = "failed"
=============================================================================
