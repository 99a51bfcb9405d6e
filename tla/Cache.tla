------------------------------- MODULE Cache -------------------------------
(***************************************************************************)
(* The generic read-through cache of internal/cache/cache.go, which sits   *)
(* between the controllers and the list/get calls of the Hetzner Cloud API *)
(* (server cache, Load Balancer type cache).                               *)
(*                                                                         *)
(* The controllers are the threads.  A call of ByID, ByName or All runs in *)
(* the steps the code can be interrupted at: taking the mutex and looking  *)
(* the entry up, the API evaluating the request, the answer being stored,  *)
(* the entry being looked up a second time.  In between, the API's objects *)
(* are created, renamed and deleted, and time passes.                      *)
(***************************************************************************)
EXTENDS Integers

CONSTANTS
    Thread,      \* goroutines that call the cache
    Id, Name,    \* object ids and names of the API
    NoName,      \* the name of an id that does not exist
    Free,        \* the mutex has no holder
    Modes,       \* the modes calls are made with (defaultMode, WithMode)
    MaxAges,     \* the max ages calls are made with (default, WithMaxAge)
    EvictAge,    \* refreshOne evicts entries older than this (an hour)
    Latency,     \* an API call ends within this time (client timeout)
    StepTime,    \* time that may pass between two statements
    MaxTime,     \* bound on the clock
    MaxChanges   \* bound on the changes made to the API's objects

ASSUME CacheAssumption ==
    /\ Modes \subseteq {"all", "one", "off"}
    /\ MaxAges \subseteq Nat
    /\ EvictAge \in Nat /\ Latency \in Nat /\ StepTime \in Nat
    /\ MaxTime \in Nat /\ MaxChanges \in Nat
    /\ NoName \notin Name /\ Free \notin Thread

VARIABLES
    now,      \* the clock behind time.Now
    world,    \* the API: name of each id, NoName if there is no such object
    born,     \* when world[i] last changed, -1 if i never existed
    changes,  \* how often the API's objects changed
    seen,     \* history: the last time the API held this very object
    byID, byName, mu,      \* the fields of Cache
    pc,       \* where each thread is
    call,     \* the arguments of its call
    mark,     \* when it entered its current step
    resp,     \* the answer of the API to its request
    present,  \* history: the key asked for existed throughout the call
    res       \* what the call that returned in the last step returned

vars == <<now, world, born, changes, seen, byID, byName, mu, pc, call, mark, resp, present, res>>
apiVars == <<world, born, changes, seen>>
mapVars == <<byID, byName>>

-----------------------------------------------------------------------------
(* Data *)

\* An object as the API returns it (hcloud.Server, hcloud.LoadBalancerType).
Server == [id: Id, name: Name]

\* entry[T]: the value and refreshedAt; snap is history, the moment at which
\* the API evaluated the request that delivered the value.
Entry == [id: Id, name: Name, at: Nat, snap: Nat]

Value(e) == [id |-> e.id, name |-> e.name]

\* Mutant of NewEntry: refreshedAt is left at the zero time.
NewEntry_ZeroTime(v, snap) == [id |-> v.id, name |-> v.name, at |-> -1, snap |-> snap]

NewEntry(v, snap) == [id |-> v.id, name |-> v.name, at |-> now, snap |-> snap]

\* The arguments of a call, with the RefreshOpts its options result in.
Call == [op: {"ByID"}, key: Id, maxAge: MaxAges, mode: Modes]
          \cup [op: {"ByName"}, key: Name, maxAge: MaxAges, mode: Modes]
          \cup [op: {"All"}, key: {NoName}, maxAge: MaxAges, mode: Modes]

NoCall == [op |-> "none", key |-> NoName, maxAge |-> 0, mode |-> "off"]

NoResp == [vals |-> {}, snap |-> 0]

Result == [kind: {"none", "error", "values"}, vals: SUBSET Server]

NoResult == [kind |-> "none", vals |-> {}]

Error == [kind |-> "error", vals |-> {}]

Values(S) == [kind |-> "values", vals |-> S]

\* The objects the API holds now.
Live(w) == {v \in Server : w[v.id] = v.name}

\* The objects that match the arguments of a call: one page of fetchOneByID
\* or fetchOneByName, every object for fetchAll.
Matches(c, w) ==
    {v \in Live(w) : /\ c.op = "ByID" => v.id = c.key
                     /\ c.op = "ByName" => v.name = c.key}

-----------------------------------------------------------------------------
Init ==
    /\ now = 0
    /\ world \in [Id -> Name \cup {NoName}]
    /\ \A i, j \in Id : i # j /\ world[i] = world[j] => world[i] = NoName
    /\ born = [i \in Id |-> IF world[i] = NoName THEN -1 ELSE 0]
    /\ changes = 0
    /\ seen = [v \in Server |-> IF world[v.id] = v.name THEN 0 ELSE -1]
    /\ byID = [i \in {} |-> <<>>]
    /\ byName = [n \in {} |-> <<>>]
    /\ mu = Free
    /\ pc = [t \in Thread |-> "idle"]
    /\ call = [t \in Thread |-> NoCall]
    /\ mark = [t \in Thread |-> 0]
    /\ resp = [t \in Thread |-> NoResp]
    /\ present = [t \in Thread |-> FALSE]
    /\ res = NoResult

-----------------------------------------------------------------------------
(* The environment *)

\* Time passes, but an API call ends within Latency (fetch fails or answers)
\* and the statements between the refresh and the second lookup take at most
\* StepTime.
Tick ==
    /\ now < MaxTime
    /\ \A t \in Thread :
        /\ pc[t] \in {"fetch", "direct", "store", "reply"} => now - mark[t] < Latency
        /\ pc[t] = "relookup" => now - mark[t] < StepTime
    /\ now' = now + 1
    /\ seen' = [v \in Server |-> IF world[v.id] = v.name THEN now + 1 ELSE seen[v]]
    /\ UNCHANGED <<world, born, changes, byID, byName, mu, pc, call, mark, resp, present>>
    /\ res' = NoResult

\* An object is created, renamed or deleted.  Names are unique and the id of
\* a deleted object is never given out again.
ApiChange(i, n) ==
    /\ changes < MaxChanges
    /\ world[i] # n
    /\ n # NoName => \A j \in Id : world[j] # n
    /\ world[i] = NoName => born[i] = -1
    /\ world' = [world EXCEPT ![i] = n]
    /\ changes' = changes + 1
    /\ born' = [born EXCEPT ![i] = now]
    /\ seen' = [v \in Server |-> IF world'[v.id] = v.name THEN now ELSE seen[v]]
    /\ present' = [t \in Thread |-> present[t] /\ Matches(call[t], world') # {}]
    /\ UNCHANGED <<now, byID, byName, mu, pc, call, mark, resp>>
    /\ res' = NoResult

-----------------------------------------------------------------------------
(* Lookups *)

Fresh(e, maxAge) == now - e.at <= maxAge

\* Mutant of Lookup: the second lookup forgets the age, as if an entry that was
\* not found by a refresh had been removed.
Lookup_NoAge(c) ==
    IF c.op = "ByID"
      THEN {Value(byID[i]) : i \in {c.key} \cap DOMAIN byID}
      ELSE {Value(byName[n]) : n \in {c.key} \cap DOMAIN byName}

\* lookup() followed by the age check, as done before and after a refresh.
Lookup(c) ==
    IF c.op = "ByID"
      THEN {Value(byID[i]) : i \in {j \in DOMAIN byID : j = c.key /\ Fresh(byID[j], c.maxAge)}}
      ELSE {Value(byName[n]) : n \in {m \in DOMAIN byName : m = c.key /\ Fresh(byName[m], c.maxAge)}}

\* Mutant of AllFresh: an entry is as good as any other.
AllFresh_NoAge(maxAge) == DOMAIN byID # {}

\* All compares the max age with the age of the oldest entry; an empty cache
\* has the zero time, which is older than any max age.
AllFresh(maxAge) ==
    /\ DOMAIN byID # {}
    /\ \A i \in DOMAIN byID : Fresh(byID[i], maxAge)

Cached == {Value(byID[i]) : i \in DOMAIN byID}

Hit(c) == IF c.op = "All" THEN AllFresh(c.maxAge) ELSE Lookup(c) # {}

\* What the call returns from the maps.
Found(c) == IF c.op = "All" THEN Cached ELSE Lookup(c)

-----------------------------------------------------------------------------
(* Refreshing *)

Put(f, k, e) == [x \in DOMAIN f \cup {k} |-> IF x = k THEN e ELSE f[x]]

Evict(f) == [k \in {x \in DOMAIN f : now <= f[x].at + EvictAge} |-> f[k]]

\* Mutant of RefreshOne: entries are evicted from byID only.
RefreshOne_EvictsIDs(r) ==
    \/ /\ r.vals = {}
       /\ UNCHANGED mapVars
    \/ \E v \in r.vals :
        /\ byID' = Evict(Put(byID, v.id, NewEntry(v, r.snap)))
        /\ byName' = Put(byName, v.name, NewEntry(v, r.snap))

\* refreshOne: a value that was not found changes nothing, a found one is
\* stored under both keys and long expired entries are evicted.
RefreshOne(r) ==
    \/ /\ r.vals = {}
       /\ UNCHANGED mapVars
    \/ \E v \in r.vals :
        /\ byID' = Evict(Put(byID, v.id, NewEntry(v, r.snap)))
        /\ byName' = Evict(Put(byName, v.name, NewEntry(v, r.snap)))

\* Mutant of RefreshAll: the name map is added to, not replaced.
RefreshAll_KeepsNames(r) ==
    /\ byID' = [i \in {v.id : v \in r.vals} |->
                    NewEntry(CHOOSE v \in r.vals : v.id = i, r.snap)]
    /\ byName' = [n \in DOMAIN byName \cup {v.name : v \in r.vals} |->
                    IF \E v \in r.vals : v.name = n
                      THEN NewEntry(CHOOSE v \in r.vals : v.name = n, r.snap)
                      ELSE byName[n]]

\* refreshAll: both maps are replaced by the listed objects.
RefreshAll(r) ==
    /\ byID' = [i \in {v.id : v \in r.vals} |->
                    NewEntry(CHOOSE v \in r.vals : v.id = i, r.snap)]
    /\ byName' = [n \in {v.name : v \in r.vals} |->
                    NewEntry(CHOOSE v \in r.vals : v.name = n, r.snap)]

\* getFromCache refreshes by its mode, All always lists.
ListsAll(c) == c.op = "All" \/ c.mode = "all"

-----------------------------------------------------------------------------
(* The steps of a call *)

\* The call of t returns r; its local variables are gone.
Return(t, r) ==
    /\ pc' = [pc EXCEPT ![t] = "idle"]
    /\ call' = [call EXCEPT ![t] = NoCall]
    /\ mark' = [mark EXCEPT ![t] = 0]
    /\ resp' = [resp EXCEPT ![t] = NoResp]
    /\ present' = [present EXCEPT ![t] = FALSE]
    /\ res' = r

\* With mode off a lookup goes straight to the API without taking the mutex;
\* All does not look at the mode.
Bypass(c) == c.mode = "off" /\ c.op # "All"

\* ByID, ByName and All are called.
Start(t, c) ==
    /\ pc[t] = "idle"
    /\ pc' = [pc EXCEPT ![t] = IF Bypass(c) THEN "direct" ELSE "lock"]
    /\ call' = [call EXCEPT ![t] = c]
    /\ mark' = [mark EXCEPT ![t] = IF Bypass(c) THEN now ELSE 0]
    /\ present' = [present EXCEPT ![t] = Matches(c, world) # {}]
    /\ res' = NoResult
    /\ UNCHANGED <<now, apiVars, mapVars, mu, resp>>

\* The mutex is taken and the entry is found: it is returned.
LockHit(t) ==
    /\ pc[t] = "lock" /\ mu = Free
    /\ Hit(call[t])
    /\ Return(t, Values(Found(call[t])))
    /\ UNCHANGED <<now, apiVars, mapVars, mu>>

\* The mutex is taken and the entry is missing or expired: the request is
\* sent, with the mutex held.
LockMiss(t) ==
    /\ pc[t] = "lock" /\ mu = Free
    /\ ~Hit(call[t])
    /\ mu' = t
    /\ pc' = [pc EXCEPT ![t] = "fetch"]
    /\ mark' = [mark EXCEPT ![t] = now]
    /\ UNCHANGED <<now, apiVars, mapVars, call, resp, present>>
    /\ res' = NoResult

\* External: the API evaluates the request.
Serve(t) ==
    /\ pc[t] \in {"fetch", "direct"}
    /\ resp' = [resp EXCEPT ![t] =
            [vals |-> IF pc[t] = "fetch" /\ ListsAll(call[t])
                        THEN Live(world) ELSE Matches(call[t], world),
             snap |-> now]]
    /\ pc' = [pc EXCEPT ![t] = IF pc[t] = "fetch" THEN "store" ELSE "reply"]
    /\ UNCHANGED <<now, apiVars, mapVars, mu, call, mark, present>>
    /\ res' = NoResult

\* Mutant of FetchFails: the early return forgets the mutex.
FetchFails_KeepsMutex(t) ==
    /\ pc[t] \in {"fetch", "direct"}
    /\ Return(t, Error)
    /\ UNCHANGED <<now, apiVars, mapVars, mu>>

\* Mutant of FetchFails: the error is swallowed, nil is returned.
FetchFails_ReturnsNil(t) ==
    /\ pc[t] \in {"fetch", "direct"}
    /\ mu' = IF pc[t] = "fetch" THEN Free ELSE mu
    /\ Return(t, Values({}))
    /\ UNCHANGED <<now, apiVars, mapVars>>

\* Mutant of FetchFails: rather than fail, the expired entry is returned.
FetchFails_ServesExpired(t) ==
    /\ pc[t] \in {"fetch", "direct"}
    /\ mu' = IF pc[t] = "fetch" THEN Free ELSE mu
    /\ Return(t, IF call[t].op = "All" \/ Lookup_NoAge(call[t]) = {}
                   THEN Error ELSE Values(Lookup_NoAge(call[t])))
    /\ UNCHANGED <<now, apiVars, mapVars>>

\* The request fails: the error is returned and the deferred unlock runs.
FetchFails(t) ==
    /\ pc[t] \in {"fetch", "direct"}
    /\ mu' = IF pc[t] = "fetch" THEN Free ELSE mu
    /\ Return(t, Error)
    /\ UNCHANGED <<now, apiVars, mapVars>>

\* Mode off: the answer is returned as it is.
Reply(t) ==
    /\ pc[t] = "reply"
    /\ Return(t, Values(resp[t].vals))
    /\ UNCHANGED <<now, apiVars, mapVars, mu>>

\* The answer is stored.
Store(t) ==
    /\ pc[t] = "store"
    /\ IF ListsAll(call[t]) THEN RefreshAll(resp[t]) ELSE RefreshOne(resp[t])
    /\ pc' = [pc EXCEPT ![t] = "relookup"]
    /\ mark' = [mark EXCEPT ![t] = now]
    /\ resp' = [resp EXCEPT ![t] = NoResp]
    /\ UNCHANGED <<now, apiVars, mu, call, present>>
    /\ res' = NoResult

\* The second lookup.  Lookups by key check the age again, All does not.
Relookup(t) ==
    /\ pc[t] = "relookup"
    /\ mu' = Free
    /\ Return(t, Values(Found(call[t])))
    /\ UNCHANGED <<now, apiVars, mapVars>>

Step(t) ==
    \/ LockHit(t) \/ LockMiss(t) \/ Serve(t) \/ FetchFails(t)
    \/ Reply(t) \/ Store(t) \/ Relookup(t)

Next ==
    \/ Tick
    \/ \E i \in Id, n \in Name \cup {NoName} : ApiChange(i, n)
    \/ \E t \in Thread : Step(t) \/ \E c \in Call : Start(t, c)

Spec == Init /\ [][Next]_vars

\* A goroutine that can run does run, an API call ends, and the mutex hands
\* itself to a waiter (sync.Mutex switches to starvation mode after 1ms).
Fairness ==
    \A t \in Thread : /\ WF_vars(Serve(t) \/ FetchFails(t) \/ Reply(t) \/ Store(t) \/ Relookup(t))
                      /\ SF_vars(LockHit(t) \/ LockMiss(t))

FairSpec == Spec /\ Fairness
-----------------------------------------------------------------------------
(* Properties *)

HoldsMutex(t) == pc[t] \in {"fetch", "store", "relookup"}

\* A Go map from some of the keys K to entries.
EntryMap(f, K) == f \in [DOMAIN f -> Entry] /\ DOMAIN f \subseteq K

\* Types of the cache's fields, of the API and of the calls in flight.
TypeOK ==
    /\ now \in Nat
    /\ world \in [Id -> Name \cup {NoName}]
    /\ born \in [Id -> Nat \cup {-1}]
    /\ changes \in Nat
    /\ seen \in [Server -> Nat \cup {-1}]
    /\ EntryMap(byID, Id) /\ EntryMap(byName, Name)
    /\ mu \in Thread \cup {Free}
    /\ pc \in [Thread -> {"idle", "lock", "fetch", "direct", "store", "reply", "relookup"}]
    /\ call \in [Thread -> Call \cup {NoCall}]
    /\ mark \in [Thread -> Nat]
    /\ resp \in [Thread -> [vals: SUBSET Server, snap: Nat]]
    /\ present \in [Thread -> BOOLEAN]
    /\ res \in Result

\* The mutex is held exactly by the thread between a miss and the return of
\* its call, so the maps change under it even while the API is being asked.
MutexInv == \A t \in Thread : HoldsMutex(t) <=> mu = t

\* Every entry is filed under its own id and name.
KeysMatch ==
    /\ \A i \in DOMAIN byID : byID[i].id = i
    /\ \A n \in DOMAIN byName : byName[n].name = n

\* The two maps agree: an object one map knows is known to the other through
\* an entry that is at least as recent.  Inserting under one key only, or
\* evicting from one map only, would break it.
MapsAgree ==
    /\ \A n \in DOMAIN byName : /\ byName[n].id \in DOMAIN byID
                                /\ byID[byName[n].id].at >= byName[n].at
    /\ \A i \in DOMAIN byID : /\ byID[i].name \in DOMAIN byName
                              /\ byName[byID[i].name].at >= byID[i].at

IndexInv == KeysMatch /\ MapsAgree

\* Without mode one the two maps always hold one and the same listing of the
\* API: lookups by id and by name never mix two states of the project.
OneListing ==
    "one" \notin Modes =>
        /\ Cached = {Value(byName[n]) : n \in DOMAIN byName}
        /\ \A i, j \in DOMAIN byID : byID[i].snap = byID[j].snap

\* A call of thread t returns without an error in this step.
Returned(t) == pc[t] # "idle" /\ pc'[t] = "idle" /\ res'.kind = "values"

\* How old an answer may be beyond the max age of the call: refreshedAt is
\* taken when the answer arrives, not when the API evaluated the request.
Slack(c) == IF c.op = "All" THEN Latency + StepTime ELSE Latency

\* No call returns an object that ceased to exist (or had its name changed)
\* longer ago than the call's max age plus the time of one API call.
BoundedStaleness ==
    [][\A t \in Thread : Returned(t) =>
            \A v \in res'.vals : now - seen[v] <= call[t].maxAge + Slack(call[t])]_vars

\* A lookup that returns (nil, nil) is right: the object asked for was absent
\* at some moment of the call.  The node lifecycle controller deletes the
\* Node on this answer.
NotFoundIsTrue ==
    [][\A t \in Thread : Returned(t) /\ call[t].op # "All" /\ res'.vals = {}
            => ~present[t]]_vars

\* All returns every object that has existed unchanged for longer than the
\* max age and an API call.
AllIsComplete ==
    [][\A t \in Thread : Returned(t) /\ call[t].op = "All" =>
            \A v \in Live(world) : born[v.id] < now - call[t].maxAge - Slack(call[t])
                                        => v \in res'.vals]_vars

Promise == INSTANCE CachePromise WITH CallSet <- Call, Delay <- Latency + StepTime

\* The cache implements CachePromise: whatever its modes, maps and refreshes
\* do, a caller only ever sees objects that match what it asked for and are
\* recent enough, errors, or a nil that is true.
Implements == Promise!Spec

\* Every call returns: the mutex is released on every path, errors included.
CallsReturn == \A t \in Thread : pc[t] # "idle" ~> pc[t] = "idle"
=============================================================================
