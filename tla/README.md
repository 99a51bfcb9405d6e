# Verification of the hcloud cloud controller manager

TLA+ models of the hcloud-cloud-controller-manager (HCCM), the TLC runs that
check them on small instances, and TLAPS proofs of their safety properties for
instances of any size. All paths below are relative to the repository (`src/`).

HCCM is a Kubernetes controller process. The generic controllers of Kubernetes
(node lifecycle, service, route) call it through an interface. It answers from
the Hetzner Cloud API and the Robot API, and changes Load Balancers and routes.
It has no storage of its own: what it knows is in the two APIs, in labels it
wrote there, and in three caches.

## 1. Inventory

| component | source | state | operations |
|---|---|---|---|
| cache | `internal/cache/*.go` | `byID`, `byName`, entries with `refreshedAt`, a mutex | `ByID`, `ByName`, `All`, each with mode (all, one, off) and max age |
| robot client | `internal/robot/{ratelimit,cache}.go` | cached list with `lastUpdate` and mutex; `exceeded` and `lastChecked` without one | `ServerGet`, `ServerGetList`, `ResetGet` |
| load balancer targets | `internal/hcops/load_balancer.go` 640-943, `internal/providerid` | the targets at the API; a local count and maps during a call | `ReconcileHCLBTargets` |
| load balancer controller | `hcloud/load_balancers.go`, `internal/hcops/load_balancer.go` | Load Balancers at the API with label, name, settings, private addresses, ports; a local copy during a call | `EnsureLoadBalancer`, `UpdateLoadBalancer`, `EnsureLoadBalancerDeleted` |
| certificates, port options | `internal/hcops/certificates.go`, `load_balancer.go` 1063-1545 | certificates at the API | `reconcileManagedCertificate`, `GetCertificateByLabel` |
| routes | `hcloud/routes.go` | `network`, the last network read, shared without a mutex | `ListRoutes`, `CreateRoute`, `DeleteRoute` |
| instances | `hcloud/instances.go`, `instances_util.go`, `internal/providerid` | none of its own; the nodes it answers about carry provider id, addresses and taint | `InstanceExists`, `InstanceShutdown`, `InstanceMetadata` |
| configuration | `internal/config/*.go` | read once | `Read`, `Validate` |
| annotations | `internal/annotation/*.go` | none | parsing one annotation |
| start-up | `main.go`, `hcloud/cloud.go` | the wiring of the above | `NewCloud`, once per start |
| metrics, events, errors, datacenter table | `internal/metrics`, `internal/utils`, ... | counters | output only |

How they interact:

- Instances, routes and Load Balancers all look servers up in **one** server
  cache; Load Balancer types have a second instance of the same code.
- Instances and Load Balancer targets share **one** Robot client, which is
  `rateLimitClient` around `cacheRobotClient`. The limiter is outermost, so
  cached answers are refused too while the limit lasts.
- The service controller calls `EnsureLoadBalancer` and
  `EnsureLoadBalancerDeleted` from its service workers, and
  `UpdateLoadBalancer` from its node worker. Nothing serialises the two for one
  service.
- What the lookups answer has consequences elsewhere: the node lifecycle
  controller deletes a Node when its server is "not found", the route controller
  deletes routes that `ListRoutes` marks as blackholes.

What is hard here, and what correctness means:

- **cache**: API calls are made with the mutex held; entries outlive their
  objects; two indexes describe one set of objects; the age is checked twice.
  Correct: bounded staleness, consistent indexes, "not found" only when true,
  `All` complete, every call returns.
- **robot client**: a data race in the limiter; a decision that is made twice.
  Correct: few list requests, silence after a limit but not for ever, "not
  found" only when true up to the cache timeout.
- **targets**: many calls, each of which may fail; a limit counted locally;
  three sources of addresses. Correct: success means converged, wanted targets
  are never removed, nobody is refused while there is room, retries settle.
- **load balancers**: a copy that goes stale during the call; ownership by a
  label written after the lookup; lost answers and restarts; two workers.
  Correct: one Load Balancer per service, addresses are kept, success means
  synced, retries settle, deleted services leave nothing behind.
- **routes**: `network` is shared by concurrent calls without a mutex and read
  twice; servers come from the cache; a route is replaced by deleting it first.
  Correct: a right route is left alone, and the routes end up matching the nodes.
- **ports and certificates**: options come from annotations, from defaults or from
  neither; every reconcile creates the certificate again and relies on the name
  being taken; ports are changed one call at a time. Correct: success means that every
  port is as asked for, ports in use stay, a service serves its own certificate,
  retries settle.
- **instances, configuration, start-up**: two APIs with a cache each; provider ids in
  three formats; addresses that are fed back from the node; restarts with other
  settings. Correct: never "not found" for a server that exists, InternalIPs of
  Robot nodes survive, nodes end up as their servers are.

## 2. Modules

| module | models | run by |
|---|---|---|
| `Cache` | `internal/cache/cache.go` | `MCCache` |
| `CachePromise` | abstract specification of the cache, implemented by `Cache` | `MCCache` |
| `CacheProofs` | theorems about `Cache` | TLAPS |
| `CacheRefinement` | `Cache` implements `CachePromise`; complete listings | TLAPS |
| `RobotClient` | `internal/robot/ratelimit.go`, `cache.go` | `MCRobotClient` |
| `RobotClientProofs` | theorems about `RobotClient` | TLAPS |
| `LBTargets` | `ReconcileHCLBTargets` | `MCLBTargets` |
| `LBTargetsProofs` | theorems about `LBTargets` | TLAPS |
| `LoadBalancers` | `load_balancers.go` and the operations it calls | `MCLoadBalancers` |
| `LoadBalancersProofs` | theorems about `LoadBalancers` | TLAPS |
| `LBServices` | `ReconcileHCLBServices`, `hclbServiceOptsBuilder`, `certificates.go` | `MCLBServices` |
| `LBServicesProofs` | theorems about `LBServices` | TLAPS |
| `Routes` | `hcloud/routes.go` | `MCRoutes` |
| `RoutesProofs` | theorems about `Routes` | TLAPS |
| `Config` | `config.Read` and `Validate`, as functions | `MCInstances` |
| `Cloud` | `main.go`, `NewCloud`; extends `Config` | `MCInstances` |
| `Instances` | `instances.go`, `instances_util.go`, `providerid.go`; extends `Cloud` | `MCInstances` |
| `InstancesProofs` | theorems about `Instances` | TLAPS |

Definitions named `X_Something` directly before `X` are mutants: plausible bugs
of `X`, used to make sure that the properties can fail. They are not part of
any specification. `PROJECT.json` maps each definition to its source lines.

### Cache

Threads are the goroutines that call the cache. `Start` is the call with its
options; `LockHit` and `LockMiss` take the mutex and look the entry up;
`Serve` is the API evaluating the request, at some moment between sending and
answer; `Store` is `refreshOne` or `refreshAll`; `Relookup` is the second lookup
of `getFromCache`, which checks the age again (for `All` it is the collection of
the values, without a check). `FetchFails` is every error return. With mode off
the lookups by key bypass mutex and maps (`direct`, `reply`); `All` does not look
at the mode. `ApiChange` creates, renames and deletes objects between any two
steps. History variables: `seen` (when the API last held this object), `born`,
`present` (the key existed throughout the call) and `snap` in an entry.

Time is a counter. An API call ends within `Latency` (the HTTP client has a
timeout), and the few statements between refresh and second lookup take at most
`StepTime`. Waiting for the mutex may take any time.

`CachePromise` says the same without maps, mutex, modes and requests: a call returns an
error, or objects that match its key and that the API held no longer ago than max
age plus `Delay`, or a nil that was true at some moment of the call. `Cache` implements it
(`Implements`) with `Delay` set to `Latency + StepTime`; the mapping is the identity on the
clock, the API, the calls and the results, and every step on maps or mutex is
`Work`. `Instances` uses the cache in this form.

### RobotClient

The cache part has a mutex and is modelled like `Cache`. The limiter has none,
so every load and store of `exceeded` and of the words of `lastChecked` is a
step of its own. `lastChecked` is a `time.Time`: `wall` says whether `ext` is a
monotonic reading, otherwise `ext` counts seconds since the year 1. Stores of
one goroutine are seen in program order, as on amd64. `round` tells the first
`isExceeded` of a call from the one in `getRateLimitError`.

### LBTargets

One reconcile at a time. `Begin` reads arguments, lists Robot servers and
builds the maps; the loop over the existing targets is `KeepTarget` and
`RemoveTarget`, the loops over the missing ones are `AddServerTarget` and
`AddIPTarget`. Map iteration order is a choice of the next element of `work`.
`CallFails` is an error of a call or of waiting for its action, with or without
the effect; `CallRejected` is the API refusing a call because it no longer fits.
Nodes, settings, Robot servers and cloud servers change between any two steps. Provider
ids are what `ToServerID` makes of them (cloud, robot, unknown prefix,
malformed). Addresses are pairs of network and node, not strings. The
configuration of the process (`setup`) is chosen once.

The work queue of the service controller is external (`due`): it syncs the service after a
change of it or of the set of nodes (`Seen`), again after an error, and for other reasons
(`OtherChange`), but not when a Robot server is ordered or cancelled or an InternalIP
changes (`Unseen`). After a success nothing happens until the next change.

### LoadBalancers

A call is a record (`job`) with the arguments, the copy of the Load Balancer, the
stage it is in and the calls that are left to do in that stage. `Stages` is the
order of the stages; `WorkOf` says which calls a stage makes, judged by the
*copy*; `Applied` says what the API makes of a call, applied to the *actual* Load
Balancer; `Learned` says what the copy learns from it. That the two differ is
where the bugs are. The five scalar settings (two reverse DNS entries,
algorithm, type, public interface) work alike and are one operator, `AttrDiffers`
and `ChangeAttr`. Ports stand for TCP services without their options, so updating an
existing port changes nothing visible. Ports and targets are single steps here;
`LBServices` and `LBTargets` have the detail.

External parts, modelled from how the code uses them: the service controller of
Kubernetes (`dirty`, `stale`, `known`: a service has one sync and one sync of its
targets at a time, failed ones are repeated), and the API (names are unique in a
project, a type has a maximum of services, detaching drops the private targets;
the last according to the comment at `hcloud/load_balancers.go:163`).

### LBServices

The state is that of the API (`certs` with the label of each certificate, `ports` with the
options of each listen port), the services (`conf`), the defaults of the
process, and per worker the reconcile it is in (`job`): the copy of the service, the
next port, the listen ports left over, the request built. `Begin` takes the copies;
`NoDomains` and `CreateManagedCertificate` are `reconcileManagedCertificate`, in which
a name that is taken is no error; `Resolve` is `hclbServiceOptsBuilder` with the
certificate lookups (`Extract` is what it builds, the same for adding and updating);
`Apply` is `AddService` or `UpdateService`; `DeleteService` removes a left-over port.
A call may fail without effect (`CallFails`), or after it (`Fail` in the actions
themselves). A restart loses the reconciles and may bring other defaults.

Options that the code treats alike are one (`http`, `interval`, `hchttp`). An option of a
request that is `Unset` leaves what the API has. A certificate is known by its
name, and carries a service as its label or none.

### Config, Cloud, Instances

`Config` makes `Read` and `Validate` functions of the environment. `Cloud` is the start of
the process: `Boot` (configuration and clients), `GetNetwork`, `CheckAttached` and
`ListLocations` are the steps of `NewCloud`, `StartFails` is any of its errors after that. The
process is started again by Kubernetes, and `Restart` is a crash or a new deployment with another
environment.

`Instances` adds the two APIs, the nodes and the two controllers that look at them. A
lookup starts where `First` says (`errMissingRobotClient` and invalid provider ids
end it) and takes one step per API: `CloudByID`, `CloudByName`, `RobotByName`, `RobotByID`.
`InstanceExists`, `InstanceShutdown` with `ResetGet`, and `InstanceMetadata` are the three
methods together with what the controller does on the answer: delete the node, taint it, or
write provider id and addresses to it. Provider ids are sequences of their parts,
so that the legacy prefix of Robot really begins with the one of the Cloud.

The server cache answers from the API or from what it was when last listed (`cloudView`), as
`CachePromise` allows; `Blind` says when it answers nil without looking. The Robot
client answers from its list (`robotView`) however the servers changed since, until the timeout
passes (`Tick`; `Nil` is no list or an expired one), and fetches the list again then; Load Balancers
use the same list (`ListRobots`). `ResetGet` has no list and asks the API, where a server in a tower
case does not tell that it is off. Both lists are gone when the process ends (`Process`). History
variable: `steady`, the Robot server has been as it is for longer than a list is used.

### Routes

The route controller of Kubernetes is external: it lists the routes
(`BeginList` is the reload of the network, `ListRoutes` the rest), deletes those
that belong to no node, all concurrently, waits (`EndOfDelete`), creates the
missing ones, all concurrently, and waits again (`EndOfCreate`). A call of
`CreateRoute` is cut where another call may come between: looking the target up
(`Resolve`, `Unresolved`), the answer of the API (`Reload`), its assignment to
`network` (`Assign`), the search for the destination (`Find`), and the second read
of `network` with the index that was found (`Compare`). If the index is out
of range by then the process panics and starts again (`Panic`). `Replace` and
`Add` are the two calls of `upsertRoute` that change the API, and `Conflict` is
the error that makes the controller call again.

The server cache is modelled by its entries with an age in four classes
(within the default max age, within that of routes, within the hour after which
`refreshOne` evicts, older), which is all that the code tells apart. The node
controllers use the same cache (`InstanceLookup`), and write the addresses of the servers to the nodes (`NodeSync`).
`steady` says that a server has been as it is for longer than a max age, `right` which
routes were right at the time of the listing.

## 3. Runs

All runs check deadlock, except those of `LBTargets`, `LoadBalancers`, `LBServices` and
`Instances`, where a controller with nothing to do stops, or a process does not start in
its environment. With a clock bound, the models of the clients still
have calls to make at the end.

| run | checks | result |
|---|---|---|
| `cache_all` | `MutexInv`, `OneListing`, `AllIsComplete`, `CallsReturn` | pass |
| `cache_mixed` | `TypeOK`, `IndexInv`, `BoundedStaleness`, `NotFoundIsTrue`, `Implements` | pass |
| `robot` | `TypeOK`, `ListRate`, `NotFoundBounded`, `ListBounded`, `QuietAfterLimit` | pass |
| `robot_nil` | `NilMeansAbsent` | violation |
| `targets` | `TypeOK`, `Converged`, `NoNeedlessRemoval`, `NoNeedlessRefusal`, `Settles` | pass |
| `lb_sync` | `TypeOK`, `EnsureSynced`, `Settles` | pass |
| `lb_workers` | `UniqueOwner`, `AddressStable`, two services and two workers | pass |
| `lb_update` | `UpdateSynced` | violation |
| `routes` | `TypeOK`, `RightRoutesStay`, `Settles` | pass |
| `routes_one` | `RightRoutesStay` with cache mode one | violation |
| `services` | `TypeOK`, `ServicesSynced`, `OwnCertificate`, `PortStays`, `Settles` | pass |
| `instances` | `TypeOK`, `GoneIsTrue`, `InternalIPKept`, `Settles` | pass |

What they show:

- **cache_all**. Two goroutines, two objects, mode all. The mutex is held exactly
  from a miss to the return, over the API call, and is released on every error
  path (`CallsReturn` fails if one path forgets it). Both maps always hold one
  and the same listing. `All` misses nothing older than max age and one call.
- **cache_mixed**. One goroutine mixes the three modes and two max ages, over
  renames, deletions and eviction. A second goroutine would add nothing here:
  the maps change only under the mutex, which `cache_all` checks and
  `MutexCorrect` proves. `Implements` checks the refinement of `CachePromise`.
- **robot**. Two goroutines. However many callers find the cache expired, one
  list request per timeout is sent. Once a limit stands recorded nothing is sent
  for the wait time, although the limiter has no mutex.
- **targets**. All four configurations in one run: cloud only, no network, Robot
  with the API, Robot from the nodes. Two cloud servers and one Robot server
  compete for two places. `Settles`: once nothing changes, the last reconcile has ended and left the
  wanted targets, though the queue calls again only after an error or a change it sees.
- **lb_sync**. One service goes through names, settings, private addresses,
  ports and invalid annotations; an imported Load Balancer has its name. A failing
  call may stop a sync at any stage.
- **lb_workers**. The service worker and the node worker interleave over two
  services with names of their own.
- **routes**. Two nodes whose addresses may have been exchanged, a route
  outside of the cluster CIDR, nodes that are not supported, one change of a
  server or a node, three failures. Concurrent calls of `CreateRoute` overwrite each
  other's `network`, work with wrong indexes and may panic; the routes still settle.
- **services**. Two services and two workers. The first goes through a UDP port beside a
  TCP one, the same number under both, annotations that come and go, and a managed
  certificate under its own or a shared name; the second through managed and uploaded
  certificates, missing ones, and missing domains. The defaults change with a restart.
  Whenever a reconcile succeeds, all of the ports are as asked for; a service never
  serves the managed certificate of the other.
- **instances**. Eight initial pairs of servers, also a Robot server in a tower case and one of
  another name than the node. Five environments: with a network, dual stack with Robot, Robot without
  credentials, Robot with a network and without routes, and one that `Validate` refuses. One
  number is the id of a server in both APIs, so a lookup in the wrong one is noticed.
  Nodes register without provider id or with a legacy one. `GoneIsTrue` is about the answer, not
  about the deletion: between the two a server may still appear.

### Deviations

Each violation run shows a place where the code does not do what the repository
says of it. `PROJECT.json` quotes the sentences.

- `routes_one` (`cache.go:143`): with mode one, `All` takes the few entries of
  earlier lookups for the complete list as long as the oldest is fresh.
  `ListRoutes` then marks the routes of all other servers as blackholes.
- `robot_nil` (`ratelimit.go:87`): the wait ends between the two calls of
  `isExceeded`, and the caller gets nil and a nil error.
- `lb_update` (`load_balancers.go:337`): `UpdateLoadBalancer` does not reload
  after the network was changed, and the targets that were lost are not added.

Two more have no run of their own, and are reproduced with other constants:

- `routes.go:113`: `ListRoutes` reports the name of the server, not of the node. If they differ,
  the route of the node is deleted and created again in every period, although
  `CreateRoute` finds the server by its id. `RightRoutesStay` fails with
  `Renamed = {s1}`, `Starts <- Settled`, `Modes = {"all"}`.
- `load_balancer.go:748`: the comment says that the external address is overwritten by the
  internal one, but the map from IPs to servers keeps both, so an external target
  stays when use-private-ip is switched on. `Converged` fails with `Setups` being
  `{[Base EXCEPT !.robot = "api"]}`.

The passing runs are set up so that they stay clear of further cases in which the
same properties fail. They are restrictions of those runs, not results:

- `MaxAges` is at least `StepTime`: with max age 0, which `Read` and `Validate` accept in
  `HCLOUD_SERVER_CACHE_MAX_AGE`, the second lookup may find the new entry expired and
  answer (nil, nil) (`NotFoundIsTrue` fails with `MaxAges = {0}` and `StepTime = 1`). The
  environments of `instances` do not set it: with a max age of 0 or less (negative ones are accepted too)
  `Blind` holds and `GoneIsTrue` fails.
- `cache_all` and `routes` have mode all: for mode one see `routes_one`.
- `QuietAfterLimit` speaks of limits that were recorded while nobody else
  wrote: otherwise the unprotected writes of `set` and of the reset may erase
  a limit, or leave a `lastChecked` in the far future.
- In `targets`, cloud ids and Robot numbers are disjoint (`k8sNodes` keeps both in
  one map), and the Robot client never answers nil and nil.
- In `targets`, a change of a Robot server or of an InternalIP is not seen by the service
  controller: the targets stay as they were until something else causes a sync.
  `Settles` leaves that state out (`due = "unseen"`).
- In `instances`, `GoneIsTrue` speaks of Robot servers that are steady. One that was renamed
  to the name of its node within the timeout of the list is reported gone, as the list still has the
  other name; `NotFoundBounded` and `ListBounded` of `RobotClient` bound how long.
- In `lb_workers`, services have names of their own: with a shared name the lookup by
  name takes over a Load Balancer in use. There is no Load Balancer to import
  either: the node worker may label one that it found by an old name while the
  service worker creates another under the new name (`load_balancer.go:352`). Two
  then carry the UID, and every later lookup fails.
- In `routes`, `RightRoutesStay` speaks of periods without a change or a
  failure. After a failed deletion, an index used on another `network` may
  replace the route of another destination; `Settles` covers the recovery.
- In `lb_sync`, `MaxServices` leaves room for a port that is replaced
  (`ReconcileHCLBServices` adds before it removes), and private-ipv4 is never the
  empty string, which `detachFromNetwork` and `lbAttached` read differently.
- In `services`, `Settles` speaks of services that can be met. A managed certificate whose name
  annotation was changed after it was created is not among them: the second certificate
  carries the same label, and the lookup by label fails from then on
  (`GetCertificateByLabel` refuses two). Neither is one whose name another
  certificate has. Changed domains never reach an existing certificate, and are not modelled.
- In `services`, an option without annotation and default may keep any value:
  `UpdateService` leaves it as an earlier annotation set it. Annotations of an HTTP health
  check take no effect alone, since only the others set `addHealthCheck`.
- In `instances`, a name that both APIs know is an error by design, and a node of a Robot server
  without provider id and without Robot client is deleted and registers again for ever;
  `Settles` leaves both out. The Robot client does not answer nil and nil as in `robot_nil`.
- `InternalIPKept` speaks of the family that is configured: switching it drops the InternalIPs of
  the other, and switching back does not restore them.

### Bounds

Two threads are enough for a race of two, two objects for one index to disagree
with the other. Clocks run to a few units more than max age plus latency, so an
entry can be fetched, go stale, and be fetched again (`cache_mixed`: 4 with ages 1
and 2; `robot`: 4 with timeout 1 and wait time 2; `cache_all`: 2 with max age 0). `MaxChanges`
is 1 to 4: a rename and a deletion, or a node, another node, a setting and its
reversal; in `routes` it is 1 because the initial states already differ from what is
wanted. `MaxEvents` of `RobotClient` bounds changes and limits together.
`MaxFails` is 3 in `routes`, which it takes to panic, otherwise 1:
after one failure the next call starts from the state it left, which is the
interesting case; a second one leads to no new kind of state. `MaxLB` is 3, one
more than needed, so an unintended creation would be seen. In `services` and `instances` there
is one change, one restart and one failure: the initial states range over all settings and
environments and, in `instances`, over the servers of `MCStarts`: at most one in each API, under each
name that matters, so a change leads from each of them to each other. That a server is switched on
again is not counted. Identifiers that are
interchangeable are symmetry sets in the runs without liveness.

### Fairness

- `Cache`: a goroutine that can run runs, an API call ends (weak fairness), and
  a waiter gets the mutex (strong fairness): `sync.Mutex` hands itself to the first waiter
  after 1 ms of starvation.
- `LBTargets`: a service in the queue is worked on, and a reconcile that was begun goes on (weak). `due`
  guards `Begin`, so nothing makes the controller call again after a success.
- `LoadBalancers`: a call that was begun goes on (weak), and the work queue serves
  each service in turn (strong, since another service may occupy the worker).
- `LBServices`: a reconcile goes on (weak), and the work queue, which is first in, first out,
  gets to every service (strong, since the workers may be busy with others).
- `Instances`: the process is started until it runs, calls end, both lists expire (`Refresh`, `Tick`) and a
  running node reports ready (weak); the controllers look at each node periodically
  (strong, since a controller looks at one node at a time).
- `Routes`: goroutines run, the controllers come round again, and time passes,
  so that entries of the cache expire (weak fairness).

Nothing is assumed of failures and changes, and elsewhere nothing of the clock; failures and changes are
bounded, so properties of the form "once nothing changes" are `<>[]`.

## 4. Proofs

The theorems hold for every value of the constants: any number of goroutines,
services, nodes and objects, all ages, limits and bounds. The bounds on changes and
failures are arbitrary numbers in them.

| module | theorem | states | if |
|---|---|---|---|
| `CacheProofs` | `TypeCorrect` | `[]TypeOK` | |
| | `MutexCorrect` | `[]MutexInv` | |
| | `IndexCorrect` | `[]IndexInv` | |
| | `StalenessBounded` | `BoundedStaleness` | |
| | `NotFoundCorrect` | `NotFoundIsTrue` | (a) |
| `CacheRefinement` | `CacheImplements` | `Implements` | (a) |
| | `OneListingCorrect` | `[]OneListing` | |
| | `AllCompleteCorrect` | `AllIsComplete` | (b) |
| `RobotClientProofs` | `TypeCorrect` | `[]TypeOK` | |
| | `ListRateCorrect` | `ListRate` | |
| | `NotFoundCorrect` | `NotFoundBounded` | |
| | `ListCorrect` | `ListBounded` | |
| | `QuietCorrect` | `QuietAfterLimit` | |
| `LBTargetsProofs` | `TypeCorrect` | `[]TypeOK` | |
| | `NoNeedlessRefusalCorrect` | `NoNeedlessRefusal` | |
| | `NoNeedlessRemovalCorrect` | `NoNeedlessRemoval` | (c) |
| | `ConvergedCorrect` | `Converged` | (c), (d) |
| `LoadBalancersProofs` | `TypeCorrect` | `[]TypeOK` | |
| | `AddressStableCorrect` | `AddressStable` | (e) |
| | `UniqueOwnerCorrect` | `[]UniqueOwner` | (e), (f) |
| `LBServicesProofs` | `TypeCorrect` | `[]TypeOK` | |
| | `SyncedCorrect` | `[]ServicesSynced` | |
| | `PortStaysCorrect` | `PortStays` | |
| | `OwnCertificateCorrect` | `[]OwnCertificate` | |
| `RoutesProofs` | `TypeCorrect` | `[]TypeOK` | |
| | `RightRoutesStayCorrect` | `RightRoutesStay` | (b), (h) |
| `InstancesProofs` | `TypeCorrect` | `[]TypeOK` | |
| | `GoneCorrect` | `GoneIsTrue` | (g) |
| | `InternalIPCorrect` | `InternalIPKept` | |

The hypotheses are needed: without each of them the property is false of the code, as
section 3 tells, and the proof breaks at the step that uses it.

- (a) No max age is shorter than `StepTime`: an entry may otherwise expire between the
  refresh and the second lookup.
- (b) Mode one is not used (`routes_one`). `OneListing` has the same condition in its statement.
- (c) `OwnIds`: server ids and server numbers differ, as `k8sNodes` keeps both in one map.
  `Answered`: the Robot client does not answer nil and nil (`robot_nil`).
- (d) `PublicRobots`: use-private-ip is not used with the Robot API, where the external
  targets stay.
- (e) `OwnNames`: no two services may ever have the same name.
- (f) No Load Balancer is there to be imported.
- (g) Every environment leaves `HCLOUD_SERVER_CACHE_MAX_AGE` unset or sets it to more than 0.
- (h) `Renamed = {}`: servers are named like their nodes, as `ListRoutes` reports the name
  of the server.

Each module states the types of its constants as an assumption, which TLC evaluates in the
runs. Some say more: that a marker (`Absent`, `Idle`, `Unset`, `Nil`, `NoIP`) is not a
value it stands beside, and what the API server of Kubernetes guarantees about a
service (port and protocol together are unique, port numbers are numbers). In `Routes` a
start has one route per destination, and nodes with pod CIDRs of their own.

### The arguments

**CacheProofs.** `TypeOK` is inductive. `MutexInv` is inductive with it: a thread
enters the steps under the mutex only when it is free, and leaves them with the
return. `IndexInv` is not inductive alone: an entry must not be newer than the clock,
and the answer that `Store` puts in holds at most one object for a lookup by
key. For `BoundedStaleness` the invariant is `StaleInv`, which
follows a value from the API to the caller: the API held the object at `snap`
(`RespInv`, for answers under way, which are at most `Latency` old), so `seen` is at
least `snap`; the answer is stored at most `Latency` later (`EntryInv`:
`at - snap <= Latency`); a hit compares `now - at` with the max age. `All` does
not compare again after its refresh, hence `ListedInv`, which needs
`MutexInv` (the maps are still what this thread stored) and adds
`StepTime`. `NotFoundCorrect` adds `AskedInv`: while the key has existed throughout
the call, the answer contains it, and after `Store` the maps do.

**CacheRefinement.** The step simulation: every step of `Cache` is a step of
`CachePromise` or changes nothing it has. What a return needs is `VisibleInv`: the
invariants above, and that answers hold no two objects of one name
(`NamesInv`) and that only calls by key bypass the mutex (`PathInv`). `OneListing` is inductive
with it. `AllIsComplete` needs `CompleteInv`, the dual of `StaleInv`: every object that
was there when the API evaluated a listing is in the answer, in the maps after
`Store`, and in what `All` is about to return, also when the listing was empty.

**RobotClientProofs.** `AgeInv`: a request ends within `Latency`; unless an answer is about
to be stored, `lastUpdate` covers the last list request (`RateInv`), and the
list is right about every server that did not change since it was requested (`KnownInv`).
For the limiter, which has no mutex, `QuietInv`: while a limit that was recorded
undisturbed lasts, both words of `lastChecked` and the flag say so and no thread is about to
clear them (`WaitInv`); a thread past its check began under no such limit, and one
that records a limit does not shorten the wait (`PassedInv`).

**LBTargetsProofs.** `CountInv`: while nothing else changes the Load Balancer, the local count `n` is
the number of targets at the API. `CurrentInv`: k8sNodes has every Robot node under its number
(which needs (c) and that a server has one node, `Distinct`), so the maps know every wanted address,
and what the first loop does not keep is not wanted. `ConvergeInv` adds the converse
(`Exact`, which needs (d)) and how far the loops are (`LoopInv`): what is left of the targets
after the first loop is wanted, and what the other loops went through is there or the Load
Balancer is full.

**LoadBalancersProofs.** `TypeInv` says which stages and calls a job may have left, that it works on an
id that was given out, and that a service has one sync at a time (`OneSync`), which the queue
gives and which does not include `Update`. `OwnInv`: a Load Balancer with a label has a name of that
service (`LabelInv`), and so has the one a call works on, however long ago it was looked up
(`HeldInv`); with (e) no call writes its label on the Load Balancer of another. `UniqueInv` adds that every
Load Balancer has a label (which needs (f)) and `NoneYet`: when Ensure is about to create one, the
service has none, which `OneSync` keeps true until it does.

**LBServicesProofs.** `SyncInv` is about one reconcile and the Load Balancer it works on: the ports gone
through are as asked for, the listen ports left over are those the service does not have, and a
request that was built still fits. The other workers change other Load
Balancers (`OneWorker`), and certificates they create do not change what a lookup by label
finds. `CertInv` extends `OwnCertificate` to requests under way and to certificates
that do not exist yet.

**RoutesProofs.** `TypeInv` adds to the types that a call belongs to the phase and has an address once it is
resolved, and that `network` is what the API has until the controller has judged it. For `RightRoutesStay`:
a cache that `All` takes for complete knows every server that is no news to it (`SnapInv`,
which needs (b)), and the routes that were right still are (`RightInv`), so `ListRoutes` reports their nodes
and (with (h)) the controller keeps them. `DeleteInv`: what is being deleted is in the API and not right,
and whatever is in the way of a missing route is being deleted. Hence `CreateInv`:
once the deletions are over, no destination of a call is taken, neither in the API nor in any network
or answer another call has read. In a period without failures nothing is ever
compared or replaced, and the shared `network` does no harm.

**InstancesProofs.** `InstInv`: what the process read is valid and fits its clients through every start
(`StartInv`), a lookup is at a place that fits the provider id and the clients (`GoodJob`), and only the node
controller changes the InternalIPs of a node, so its copy of them is current. `ServersInv`: a steady Robot
server is as the list in use says, since a change ends the steadiness and only `Tick`, which drops the list,
restores it. A lookup of Robot that finds nothing in the list therefore is right about steady servers.

Only model-checked: liveness (`CallsReturn` and `Settles`), which is out of the
reach of TLAPS, and `EnsureSynced` of `LoadBalancers`.

## 5. Not modelled

- Annotation parsing: one value at a time, no state. The models take the result, or that
  there is none. Certificates given by id are not looked up by the code, and not modelled.
- The variants of the status (hostname, proxy mode, IPv6), instance type, zone and region of a
  node, the ACME staging label: data that nothing reads back.
- The getters of `cloud`. If the lookup in `newRoutes` fails once, `Routes()` returns nothing, and
  the route controller is off until the process starts again (`cloud.go:237`).
- The node worker during a reconcile of the ports: `LoadBalancers` interleaves the two workers,
  `LBServices` has one reconcile per service at a time.
- Metrics, events, error texts, the datacenter table, the coverage handler, test support.
- A crash of the process in `LBTargets` and `LoadBalancers`: as there is no storage, it looks like
  a failed call (`CallFails`) followed by the first call after a restart.

## 6. Plan

What is left is one proof: `EnsureSynced` of `LoadBalancers`. It needs an invariant per stage about
what the stages before it have made true of the Load Balancer, and that no later stage, nor a
concurrent Update, undoes it.
