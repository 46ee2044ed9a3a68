# BrandyManager back end: specification and proofs

BrandyManager plays music in shops. A Django service (`src/back_django`) keeps
companies, sites, zones, content and playback devices in PostgreSQL; a Go
gateway (`src/back_go`) stands between the players and Django. This directory
holds TLA+ models of the parts where concurrency, ordering and failure decide
whether the system is correct, the TLC runs that check them on small instances,
and proofs checked by TLAPS for instances of any size.

Isolation is PostgreSQL's READ COMMITTED; every Django service is one
transaction (`@transaction.atomic`), so an exception undoes all it has written,
and `select_for_update` locks rows until it ends. Much of what is checked here
is about what a transaction reads *before* it holds the lock that would protect
it.

## The system

| Component | State | Operations | Interacts by | What is hard | What makes it correct |
|---|---|---|---|---|---|
| Device lifecycle and credentials (`apps/devices`) | `Device`, `DeviceActivation`, `DeviceCredential`, `DeviceState` rows | create, edit, change zone, suspend, archive, reactivate, revoke, generate code, activate, rotate, log out, authenticate | the panel's requests, the player's requests through the gateway | activation and rotation check the device without its lock; bulk invalidation races with insertion; crossing lock orders | credentials and codes unique and earned, revocation cuts off and is final, no lost panel update, device limit |
| Device commands (`apps/devices`) | `DeviceCommand` rows | create with idempotency key, poll in batches, answer, expire | panel, then the player's poll and answer | lost polls, repeated and late answers, superseding while a poll is under way | order, last wish, one command per key, first result stays, the queue drains |
| Device telemetry | `DeviceEvent`, `DeviceState`, status columns of `Device` | record a batch | player through the gateway | duplicates, reordering, authentication long before the write | an event counts once, a newer sequence is never overwritten, status tells the truth |
| Gateway authentication | cache of introspected tokens | authenticate, evict | Django's introspection | answers arriving after the token was revoked; clock | a revocation takes effect within the lifetime of an entry |
| Gateway manifest | cache of runtimes | serve a manifest | Django's runtime endpoint | Django down, slow, or refusing | what Django has overtaken dies out, nothing to a revoked device |
| Gateway queue and cursor | none (pure) | resolve assets, position, sign and verify a cursor | the runtime's data | schedule boundaries, cursor used after the queue changed | pages tile the queue, a start is on the clock, the entry played is the one announced |
| Zone configuration (`apps/playback`, `playlists`) | channel drafts and snapshots, zone assignments, operational snapshots, manifests | edit, publish, assign, unassign, build manifest, runtime with rollover | publication rebuilds every zone | publication against assignment (lock order), rollover, superseded snapshots | one READY snapshot and one READY manifest, versions grow, snapshots frozen |
| Scheduling (`apps/scheduling`) | schedules, blocks, exceptions, assignments, snapshots | edit with revision, assign, publish, archive; effective schedule | zone configuration | overlap checks, conflict check without a common lock | no overlap at one priority, effective schedule is the documented one |
| Accounts (`users`, `organizations`, `onboarding`, `authorization`, `support`) | users, action tokens, refresh tokens, memberships, invitations, grants | log in, refresh, reset, invite, accept, suspend, transfer, onboard | HTTP, e-mail links | one-use links opened twice, resend against accept, tokens made from a user read before his password changed, whole rows saved late | links open once, a new password ends sessions, plan limits hold, lists agree with permissions |
| Billing | plans, subscriptions, licences | trial, assign and release a licence | limits read by other components | assignment races | limits hold in the components that read them |
| Catalog | audio contents and assets | import, query, internal streaming | gateway's audio proxy | input and output | not a subject for model checking |
| Campaigns, audit; gateway operations, audio proxy, configuration | little or none | date check, append, forwarding | | | nothing that interacts |

## The modules

| Module | Role |
|---|---|
| `DeviceLifecycle` | devices, codes and credentials; one action per service, except three that check first and write later |
| `DeviceLifecycleProofs` | its inductive invariant and theorems |
| `DeviceTransactions` | the services of `DeviceLifecycle` that lock rows of several tables, taken apart into statements and row locks; implements it |
| `DeviceTransactionsProofs` | its inductive invariant and the refinement theorem |
| `DeviceCommands` | command queue, poll, player, answers |
| `DeviceCommandsProofs` | its inductive invariant and theorems |
| `DeviceTelemetry` | the events a player reports and the `DeviceState` made of them |
| `PlayerGateway` | the gateway's two caches and its calls to Django |
| `PlayerGatewayProofs` | its inductive invariant and theorems |
| `PlayerQueue` | the gateway's queue of the moment, pages and continuation tokens |
| `ZoneConfiguration` | channels, their publication and assignment, zone snapshots, manifests, the runtime |
| `ZoneConfigurationProofs` | its inductive invariant and theorems |
| `Playlists` | the editing of playlists and channels: revisions, limits, versions |
| `Schedules` | schedules with their entries and assignments; what the panel announces and what the player plays |
| `Sessions` | users, mailed links, refresh tokens |
| `Organizations` | companies, sites, zones, members, roles, invitations, transfers, the trial |
| `Player`, `Programming`, `Accounts` | the compositions `PlayerQueue` with `DeviceTelemetry`, `Playlists` with `Schedules`, `Sessions` with `Organizations` |
| `PlayerProofs`, `ProgrammingProofs`, `AccountsProofs` | the inductive invariants and theorems of both parts of each |
| `MCPlayer`, `MCProgramming`, `MCAccounts` | explore the parts of `Player`, `Programming` and `Accounts` |
| other `MC...` | constants and symmetry for TLC |

How they fit together. `DeviceTransactions` implements `DeviceLifecycle` by a
refinement, checked and proved. The parts of `Player`, of `Programming` and of
`Accounts` share no variable, so each composition is the conjunction of two
specifications. `ZoneConfiguration` takes from `Playlists` only that a
channel has versions and from `Schedules` only that some schedule is in effect,
whichever (`ScheduleMoves`); `PlayerGateway` takes from `ZoneConfiguration` only
that a runtime is published; `PlayerQueue` takes from `PlayerGateway` that the
runtime used may be an older one that is still valid (`cached`), and from
`Schedules` what the entry in force is (`Programme`). What is shown of one module
does not rest on properties of another. `DeviceLifecycle` has what telemetry does to
the device's row, `DeviceTelemetry` what it does to the player's state.

An operator whose name ends in `_Something` beside another of the same name is
that operator with one of the code's precautions left out. No action uses it; it
is there to see that the property it is paired with in `PROJECT.json` notices.

### DeviceLifecycle

`admin`, `activation`, `status`, `connectivity`, `zone` and `revision` are the
columns of `Device` (`administrative_status`, ..., `configuration_version`);
`online` is `DeviceState.is_online`; `codeDevice`, `consumed`, `voided` are the
activation codes; `credDevice`, `credStatus`, `origin` the credentials, `origin`
being what a credential was exchanged for. `seen` is what the panel has on
screen, the source of `expected_revision`. `checked` holds the rows that a
transaction has locked and checked but not yet acted on, `authenticated` the
devices with a request past `authenticate_device_access_token`.

Three services are two actions because the code reads the device without its
lock: `CheckActivationCode` / `CompleteDeviceActivation`, `CheckCredential` /
`RotateDeviceCredential`, `AuthenticateDevice` / `RecordTelemetry`. `RollBack`
ends a started transaction without effect. Lifetimes are abstracted to the
moment they end (`Lapse`). Sites stay open, the company is one, and assignment
history is left out because it repeats `Device.zone`. The partial unique index on
open codes (`models.py` 160-166) is left out as a guard on purpose:
`SingleOpenCode` then says that the service never runs into it.

### DeviceTransactions

Each of `complete_device_activation`, `rotate_device_credential`,
`revoke_device`, archiving and `generate_device_activation_code` is a session
walking through its statements: lock, scan (an UPDATE's snapshot), update (wait
for the locks of the rows found, test them again, write), commit. What is written
becomes visible at commit. Rotation never locks the device row explicitly; the
deferred foreign key of the credential it inserts takes a KEY SHARE lock while
committing, and `KeyShareFree` models it. Left atomic: operations of one
statement. `DL == INSTANCE DeviceLifecycle` maps each session that holds a
presented code or credential to a `checked` row; `Lifecycle == DL!Spec` is
checked as a property and proved (`Refinement`). That justifies the grain of `DeviceLifecycle`.

### DeviceCommands

`create_device_command` with a key is `AskCommand` (the look-up before the lock)
and `CreateKeyedCommand` or `RefuseCreation`. A poll that is answered puts its
commands `inTransit`; they are received or lost. The player answers a command it
holds with ACKNOWLEDGED, or with the result it reached, any number of times and
in any order.

### PlayerGateway

A request is a goroutine with a stage; each call to Django is sent, decided and
answered in separate actions, or fails. `began` and `called` are the times the
middleware and the handler read before they do anything else, exactly the times
the code compares. Go's map order when one live entry must go is a free choice.
Of Django the module keeps what matters here: when a token stops being accepted,
which runtime is published, and when each published one was replaced or withdrawn
(`overtakenAt`). Of two overlapping runtime calls the one answered first may be
stored last, an answer without manifest leaves the cache as it is, and any call may
fail afterwards: `OvertakenRuntimeDiesOut` says for how long what is overtaken can
still be served, counted from when Django stopped answering with it.

### ZoneConfiguration

`channelStatus` and `published` are a channel's status and the version of its
latest `ChannelSnapshot`; `assigned` is the zone's open
`ZoneChannelAssignment`; `ready` and `manifests` the rows in force,
`snapshotVersion` and `manifestVersion` the highest version ever issued. A row
that has been superseded is never read again and is dropped. `scheduled` is what
`resolve_effective_schedule_for_zone` finds: the clock, assignments and edits of
schedules may change it at any time (`ScheduleMoves`), so nothing is assumed of
how a schedule is chosen.

`publish_channel` and `publish_schedule` are several actions: begin (lock, write
the version, look up the zones), `RebuildZone` once per zone, commit. What they
have written sits in `publication` until they commit, and a rebuild reads what
its own transaction sees (`VersionSeen`, `InEffect`). `select_for_update`
together with `select_related` locks the joined rows too, so a rebuild holds the
zone, its site, its company and the zone's channel until the publication ends
(`SiteFree`, `CompanyFree`, `ChannelFree`). `assign_channel_to_zone` holds its
zone and site before it gets the channel: `BeginAssignment`, then
`AssignChannelToZone` or `EndAssignment`. The other services need no lock beyond
those they take at once and are single actions.
`get_or_create_player_runtime` is four: it reads the READY snapshot, compares it
with the schedule in effect, looks for a manifest, and only then locks the zone
to rebuild it (`RollOver`) or to build a manifest (`BuildManifest`). `during`
collects the schedules in effect while a request lasts; it is the only variable
without counterpart in the code.

The contents of channels and playlists are left out, hence "changed since the
last version" is a free choice between `PublishUnchanged` and
`BeginPublication`. Requests with a stale revision write nothing. The schedule
in effect and its latest snapshot are two reads in the code and one here: a
schedule that leaves the zone and is published between the two is out of the
model.

### DeviceTelemetry

`made` holds the events the player has made, `log` the `DeviceEvent` rows, `state`
for each field of `DeviceState` the event that wrote it, `lastSequence` its
`last_sequence`. Since the player repeats what has not been confirmed, any event
made may arrive at any time, in any batch: `RecordBatch` takes an arbitrary
sequence of them. The batch is one action because the device's row is locked; it
is refused whole if one event is too old or of the future. `RestartPlayer` is a
player that lost its storage and numbers from 1 again.

### PlayerQueue

`build` with what it calls. The gateway keeps no queue: `Queue(r, t)` is computed
at every request from the runtime and the clock (`Admissible`, then the order of
`resolveAssets` or the day's shuffle), `IndexAt` is `deterministicPosition`, and a
`Page` is a window of the queue with the token for the next one. `AskStart`,
`AskMore` and `AskTooLate` are a request without token, with one that
`verifyCursor` accepts, and with one it does not. Each may be answered with
Django's runtime or with the cached one. Between two pages the clock, the
block, the activity of playlists, the manifest and the snapshot may change.
`heard` collects what the player was given of one queue, `page.queue` which one:
both are there for the properties only. HMAC signatures are taken as perfect, and
the hash that shuffles is the constant `Score`. An item's place in a queue is the
number of items that come before it (`Before`).

### Playlists

`desk` is an editor's panel: the row it shows, with the revision and contents it
was read at (`Look`), and whether the view has let a request through (`Admit`,
the check for ARCHIVED, made without lock). The service then runs with the row
locked and compares the revision (`Serves`, `Edits`). Anything may happen between
the three. Publishing a channel is two actions, because the checksum and the
rows of the `ChannelSnapshot` come from two reads of playlists it has not locked.
The checksum covers the channel's name, code, policy and weights as well; those are
left out, so once the channel has a new revision its next publication may find
the same checksum or another (`MayDiffer`).
An operation that a condition outside the module may refuse (a song gone, a
playlist in use by a block) may also end in `Withdraw`. `items` are the
`PlaylistItem` rows in the order of their positions, which `Without` closes up.

### Schedules

`blocks`, `exceptions` and `assignments` are sets of rows; `born` stands for
`created_at` and `id` for the UUID, whose order has nothing to do with it. The
service locks its schedule, so each is one action, except the two that write an
assignment: the rows they compare it with belong to schedules they have not
locked, and what they write is seen at `CommitAssignment`. `PreviewOf` and
`Effective` are `resolve_effective_schedule_for_zone` over the live rows;
`Plays` is `resolveAssets` over the published copy. `MaxPriority` is the greatest
value of the 32-bit column that holds priorities. A stale request changes
nothing and is left out.

### Sessions

A password hash is counted: `account[u].password` is how often it was set, and a
token's `claim` the hash whose digest it carries. `proved` is the password that
the login at the start of the chain of refreshes was made with; it and `opened`
are there for the properties only. Log-in and refresh are two actions
(`BeginLogin` or `BeginRefresh`, then `Sign`) because the user is read without
lock and the tokens are made from what was read; asking for a link and opening a
reset link are two as well. `Abandon` is a request that fails in between.

### Organizations

`requests` are the requests a view has let through with what it had read; the
service then locks what it locks and writes. `update_site` and `update_zone` save
the row as the view read it, so `UpdatePlace` writes `r.read` back; `undone`
remembers the places whose archiving was undone that way. A creation locks the
company and counts (`BeginCreation`) and inserts in a later step (`CreatePlace`);
that a second one cannot count in between is the work of the lock alone
(`CompanyFree`). `Effective` is
`resolve_effective_permissions`, `ZonesFor` and `SitesFor` the lists of
`zone_ids_accessible_by_membership` and its counterpart for sites. `trialEnd`
stands for the subscription. Of support there is the transfer of a member, of
onboarding the one transaction that founds a company, of billing the plan's
limits as constants.

## Runs

| Run | Shows | Instance |
|---|---|---|
| `device_lifecycle` | uniqueness, cut-off, single exchange, earned credentials, pinned revision, final revocation | 1 device, 2 codes, 3 credentials, 2 zones, 4 revisions |
| `device_transactions` | the statement-level model implements `DeviceLifecycle`; no bulk UPDATE misses a row | 1 device, 2 codes, 3 credentials, 3 sessions, 5 revisions |
| `device_commands` | order, last wish, keys, results; the queue drains | 1 device, 2 commands, 1 key, 2 operators, 3 types, batch of 1 |
| `player_gateway` | bounds on how long a revoked or expired token, or a runtime that Django has overtaken, is honoured; bounded cache | 2 tokens ending at 2 and 3, 2 requests, 2 published runtimes of validity 1, entry lifetime 2, clock to 3, cache limit 0 |
| `zone_configuration` | publications, assignments, archivings and runtime requests leave a zone one configuration, of its channel as last published | 1 zone, 2 channels, 1 schedule, 1 device; 2 versions per channel, 2 snapshots and 2 manifests per zone |
| `programming` | two editors with old screens neither undo one another nor pass the limits; entries and assignments of a schedule never collide; panel and player agree on what plays | 2 playlists, 1 channel, 2 songs, 2 items, 2 editors, 4 revisions, limits 1; 2 schedules, 2 entries, 2 assignments, 2 scopes, 2 priorities, 1 date of 3 times |
| `player` | pages tile the queue; a player that starts is on the clock; no older event undoes what the player's state shows | 4 items in 2 playlists, window 3, 2 manifests, clock to 5 with days of 4, manifests of 3; 3 events, batches of 2, 1 restart |
| `accounts` | a new password ends every session; links open once; the plan's limits hold; lists show what permissions allow | 1 user, 2 requests, 3 links, 2 sessions, 2 passwords; 2 companies, 3 people, 2 sites, 3 zones, 2 requests, 2 invitations, limits 1, 2 seats, 2 days |
| `device_limit` | *violation*: a device is reactivated from the archive beyond the limit | 2 devices, limit 1 |
| `operating_status` | *violation*: a suspended or revoked device shown OFFLINE or ONLINE | 1 device |
| `repeated_answer` | *violation*: a repeated answer is refused after the deadline | as `device_commands` |
| `revoked_manifest` | *violation*: a refused device is served the cached manifest | as `player_gateway` |

Bounds. Devices do not interact except through the device limit, so one device
suffices for the others, and two for the limit. Two codes and three credentials
allow an activation, a rotation and a second activation to overlap, or a chain
of two rotations. Four revisions cover create, activate, revoke and one more
guarded change (`MaxRevision` guards only the operations that raise the
revision; it is the one bound that cuts behaviour). Three sessions are needed for
a transaction to run between the statements of two others. Two commands show
superseding, overtaking and a batch that is too small. In the gateway, a cache
limit of 0 makes eviction happen at the second token, and a clock of three ticks
passes the end of an entry, of a token and of a manifest. Two requests and two
published runtimes are what it takes to store the older answer over the newer.
`MCPlayerGateway` explores two tokens with one publication and two publications with
one token; the runtimes are the device's, not the token's. Two channels and a
schedule give three publications that want the same zone while it is assigned
from one channel to the other; two snapshots are what two competing rebuilds
leave. Zones meet only in the locks of a publication, and what is shown for one
zone is proved for any number.

The runs `programming`, `player` and `accounts` each explore subjects that share
no state, one after the other rather than multiplied: `part` is chosen in the
initial state and says which one. In `programming` playlists are explored without
channels, channels with one playlist of at most one song, one schedule with its
entries and one assignment (`OneSchedule`, 6 revisions), and two schedules with a
block each and their assignments (`OneEntryEach`, 8 revisions together). A limit
of 1 is reached by the second row; four revisions are a creation, an edit, a
publication and an archiving; three times of day give entries that meet,
overlap and enclose one another. In `player` a window of 3 is shorter than the
queue of four items and longer than the queues of one or two; the clock passes
through all blocks into the next day, and the second manifest may be of the same
snapshot or of another. Three events with one restart are what it takes for an
old numbering to overtake the new. In `accounts` two requests overlap in every
part, three links allow a link that replaces another to be replaced itself, and
zones lie in two sites of which one is of the limit. The parts "members" and
"places" start from a company with an owner and a site operator of one zone.

Deadlock is checked in every run but `programming`, `player` and `accounts`, where the bounds bring
everything to an end: revisions, links, requests and the clock run out.

Fairness is used by `QueueDrains` alone: a device in service polls (the player's
timer) and the five minutes of a command pass. Nothing is assumed of the player's
answers or of the network. The conclusion is limited to devices that stay in
service, since nobody expires the commands of one that never polls again.

## Where code and documents differ

`FASE4_CANALES_DISPOSITIVOS_REPRODUCCION_CONTRATO.md` is the contract quoted.

1. *Device limit.* `set_device_administrative_status` assigns the new status
   (`services.py` 213) before it asks whether the old one was ARCHIVED (223): the
   limit is never enforced on reactivation. `ReactivatedWithinLimit` speaks of that
   step alone, and with the comparison made first TLC finds it to hold.
2. *Operating status.* `complete_device_activation` (325-327) and
   `record_device_telemetry` (529-535) write OFFLINE or ONLINE without looking at
   the administrative and activation status under the lock. A device suspended or
   revoked in between no longer shows DISABLED or REVOKED (contract 181-182).
   The credentials are not affected: `CutOff` and `RevocationIsFinal` hold.
3. *Repeated answers.* `acknowledge_device_command` looks at the deadline before
   the stored result (573-580), so a retry of an accepted answer can be refused
   although the contract (400) calls it idempotent.
4. *Manifest of a revoked device.* `Service.runtime` takes a 401 or 403 of
   Django's for an outage (`service.go` 113-118) and serves the cached manifest.
   Since authentication is cached as well, this can last until the
   authentication entry ends (contract 730-734, 790-791).

Other behaviour of the code that the models contain, or that shapes them, and of
which nothing in the repository says that it is wrong:

- *Devices.* An archived device may be suspended (214-216), and then counts again
  towards the limit, which nothing compares it with. The attempts of an activation code are never counted (`models.py`
  177). The EXPIRED and REVOKED that a refused rotation writes are rolled back by
  its own exception (`services.py` 353-362), hence no credential is ever EXPIRED
  in `TypeOK`. Fifty delivered and unanswered commands fill a poll's batch until
  they expire (556). A key used again for another device is answered with the
  first device's command (405). One event that is too old refuses its whole batch
  (485), and a player that numbers from 1 again leaves the state as it is until it
  has passed its old `last_sequence`.
- *Playback.* `create_manifest` tests the status of the snapshot object it was
  given (`playback/services.py` 43-44), read before the zone was locked; a
  manifest can be built for a snapshot superseded meanwhile, and the zone's READY
  manifest is then not of its READY snapshot until the next runtime request.
  Of two overlapping runtime calls the one answered first may be stored last
  (`service.go` 108), within the bound of `OvertakenRuntimeDiesOut`. A continuation token is an index, taken modulo whatever
  queue is in force when it is used (`service.go` 160): after a change of block or
  the midnight reshuffle it names another item. `PagesTile` is therefore about the
  pages of one queue.
- *Programming.* `publish_channel` computes its checksum and its rows from two
  reads (`issues` keeps both). Two assignments of different schedules to one scope
  may both pass the conflict check; `NoConflictWithin` is about one schedule. The
  panel announces a VOLUME_OVERRIDE exception, the gateway passes over it.
  The panel resolves from live rows, so the edits of a PUBLISHED schedule change
  what it announces before they are published.
- *Accounts.* `update_site` and `update_zone` save whole rows read before any lock
  and so undo a concurrent archiving, beyond the plan's limit (`PlacesWithinPlan`
  excepts those places). A zone can be created in a site that is being archived.
  More members than seats are possible when an expired invitation is resent or
  a member is transferred. Two changes of role at once leave two roles. A
  transferred member stays INVITED. A refresh token sent twice at once yields two
  sessions. `confirm_password_reset` locks user then link while a new link's
  insertion takes them in the other order; PostgreSQL picks a victim (`Abandon`).

## Proofs

`DeviceLifecycleProofs` proves, for any sets of devices, codes, credentials and
zones and any limits, all the safety invariants of the `device_lifecycle` run and
the action property `RevocationIsFinal`. Assumptions: `Nobody` is not a row,
codes and credentials are disjoint, the bounds are naturals.

None of the invariants is inductive alone. `CutOff` breaks if a row checked before
a revocation could be spent after it; so `IInv` adds `CheckedRowsLive`: a row a
transaction holds is still live, because invalidation waits for its lock.
`ExchangedOnce` needs `CredentialIsEarned` (what was exchanged is consumed or
retired, hence cannot be presented again) and `RevisionPinsConfiguration` needs
`SeenNotAhead` (no panel has a revision the row does not have yet).
`RevocationIsFinal` follows from `IInv` on each step: the only action that could
reactivate, `CompleteDeviceActivation`, needs a checked code, which is open, and
a revoked device has none. TLC checks `IInv` itself before it is proved.

`PlayerGatewayProofs` proves every invariant of the `player_gateway` run, for any
requests, any finite set of tokens, any lifetimes and any cache limit. The inductive invariant adds three conjuncts. `RequestJustified`:
what a request holds follows from when it came in, so an accepted verdict on its way
is for a token that was still good then, and nothing it has read is from the future.
`CacheJustified`: a cached entry ends within one lifetime of its token's
revocation and no later than the token. `RuntimeJustified`: a runtime, wherever it
is, ends within one manifest's lifetime of the moment Django stopped answering with
it, because Django fixed its end while it was still in force and the gateway never
renews it; so it does not matter which of two answers is stored last. The bound on
the cache rests on two lemmas about `Rooms`, which make room before an entry is
stored.

`ZoneConfigurationProofs` proves all five invariants of the `zone_configuration`
run, for any zones, sites, companies, channels, schedules and devices. That a
zone plays its channel as last published is not inductive: a commit installs rows
written some steps before. `PendingRows` says what the locks keep true of such a
row (nobody else has written one for the zone, it is the zone's next version,
of its channel, in the version its transaction sees), and `NoZoneForgotten` that
an open publication has rebuilt, or will rebuild, every zone that plays its
channel, because assigning the channel needs the lock the publication holds.
`RequestKnows` does the same for the schedule a request has compared.

`DeviceCommandsProofs` proves every invariant of `device_commands` and
`ResultIsFinal`, for any devices, any finite set of commands, any keys, operators
and batch size. `LastWishStands` needs `RanksGrow` (a new command comes after all
there are, so it can cancel only older ones); `HandedOverNotCancelled` needs
`HandedOver` (what left for the player is out of PENDING for good, and only
PENDING is cancelled). `NoOvertaking` rests on `BatchTakesTheOldest`: what is
deliverable and older than a command of the batch is in the batch, an argument
about cardinalities.

`DeviceTransactionsProofs` proves `NothingEscapes` and, as `Refinement`, that every
behaviour of `DeviceTransactions` is one of `DeviceLifecycle`, for any sets of
devices, codes, credentials and sessions. `LocksExclusive` says that no two
sessions hold a row. On it rests `Open`, what a session may rely on between two
statements: its place in the service fits the locks it has (`Placed`), the row
it checked is still as it was when checked (`Checked`), what it has written it
holds (`Written`), and from its scan on, the rows found cover every live row of
the device, because insertions need the lock of the device it holds (`Scanned`).
A session that does not move keeps all this if the others leave its rows alone
(`Undisturbed`, `UndisturbedKeeps`), which is shown once per action. For the
refinement, beginning with a presented row is the check of `DeviceLifecycle`, a
commit its service, giving up `RollBack`, and locking, scanning and updating
stutter (`StepSimulation`).

`ProgrammingProofs` proves `NoLostUpdate` and `ListLimitHolds` for any playlists,
channels, editors and limits. Both rest on what a revision says. `DeskHonest`: a
panel shows the row as it is unless the row has a higher revision. `AdmittedLive`:
a request admitted by a view that locked nothing is for an archived row only if
the revision has moved on; this is why `publish_playlist` may do without a test of
the status. `LockHeld`: a channel under publication stays as its editor was shown
it. The limits need lemmas on the cardinality of `Billable`.

It proves `NoConflictWithin` for any schedules, dates, times, priorities and
scopes: `WritingFits` says what the schedule's lock keeps true of an assignment
that is compared in one step and visible in a later one. From it follows
`PreviewAgreesWithPlayer` (`PreviewIsRight`). Panel and gateway break ties
differently, but at one moment only one entry has the highest priority: there is
a highest because priorities are the integers of a 32-bit column (`MaxPriority`),
and two entries that share it would overlap.

`AccountsProofs` proves `PasswordEndsSessions` and `ActionLinkOpensOnce` for any
users, requests and lifetimes: `ClaimIsProof` (a session, made or being made,
carries the digest of the password shown at its log-in) holds because a refresh
reads the user while its token still carries the user's digest. Of companies and
members it proves `SeesWhatItMay`, `PlacesWithinPlan` and `InvitationOpensOnce`. The
first holds of any grants whatever and is a lemma on `Covers` (`Coverage`,
`ListsAgree`). The second needs `RequestsMeant` (an update let through has read
an active place, so it can only bring back one that was archived since) and
`CreationsFit` (a creation still has the room it counted and is its company's only
one, because of the lock), and counts sets. The third follows from `InvitationFate`. Sites and zones are assumed
finite, disjoint, and in one company each.

`PlayerProofs` proves `StateIsNewest`, `PagesTile` and `OnTheClock`.

- *Telemetry.* What a batch does is a recursive function of its length
  (`Recorded`). `Sound` holds before and after each event: the log has no event
  twice, the highest number received is of an event of the log, and a field shows
  the last event to report it among those that were newer, when they came, than all
  before them. An event that came behind a newer one shows nowhere, not even in a
  field the newer one does not report: that is what the code does. `StepByStep` carries it from one
  event of the batch to the next. That is an induction, made with a *set* of good
  records in place of a predicate, since the provers cannot instantiate an
  operator: a least counterexample would have a good predecessor (`LeastNatural`).
- *Queue.* `Before` orders the admissible items totally, because a playlist has no
  position twice (`uniq_playlist_snapshot_item_position`, an assumption); so the
  number of items ahead of an item is its place, and the queue has each item once
  (`QueueHasEach`). `HeardFrom` is the invariant: what was heard of a queue is the
  queue round and round from some start, and the token is where it goes on. This
  is arithmetic of remainders (`RemainderOfSum`, `RemainderRepeats`), from which
  `PagesTile` follows.
- *Clock.* `SomethingPlays`: the remainder of the clock by the duration of the
  queue falls within the entry `IndexAt` names, by induction over the running
  totals (`LastingSums`), so a page that starts by the clock starts with what is on.

The theorems `PlayerTypeCorrect`, `ProgrammingTypeCorrect`, `AccountsTypeCorrect` and
`EveryLinkOnce` put together what was proved of the parts.

Model-checked only. Of the properties of the passing runs one has no theorem,
the liveness property `QueueDrains`: fairness and ENABLED are beyond the prover.
The proofs are about each module's own specification; `MCPlayer`,
`MCPlayerGateway`, `MCProgramming` and `MCAccounts` explore restrictions of it.

## Not modelled

- *Catalog, audio proxy, gateway operations and configuration*: input and output,
  forwarding, constants. *Campaigns, audit*: a comparison of dates and an
  append-only log. Nothing in them interacts.
- *Licences*: assigning and releasing one has no caller in the repository; the
  plan's limits are in the modules that obey them. Likewise
  `assign_device_to_zone` and `replace_zone_device`.
- *Permission overrides* are made in the Django admin only. The check for "any
  scope" and the lists ignore them, which `SeesWhatItMay` therefore does not see.
- *Contents*: names, codes, addresses, weights, checksums as such, the assets of
  manifests, playback policies (nothing assigns one), playlists that companies
  share, time zones, `list_next_occurrences`.
- *Deadlocks of PostgreSQL.* The lock orders of activation against revocation and
  of assignment against publication cross. The models have the victim
  (`RollBack`, `RollBackPublication`, `EndAssignment`, `Abandon`) and show that the
  other transaction goes on correctly; that no ring forms is not claimed.
- *An ACKNOWLEDGED command* that the player never finishes stays so; the code
  promises nothing about it.

## What comes next

1. The theorems of `DeviceLifecycle` carried over to `DeviceTransactions` by
   `Refinement`.
2. The seat limit as a property, with the exceptions named above.
3. `Schedules` across zones of one company, with the publication of
   `ZoneConfiguration` in place of `ScheduleMoves`.
4. Several zones and devices in `ZoneConfiguration`, as a run beside the proof.
