---------------------------- MODULE RobotClient ----------------------------
(***************************************************************************)
(* The client of the Robot API as cloud.go builds it: rateLimitClient      *)
(* (internal/robot/ratelimit.go) around cacheRobotClient                   *)
(* (internal/robot/cache.go).                                              *)
(*                                                                         *)
(* The cache has a mutex, the limiter has none, and several controllers    *)
(* call it.  So each load and store of the limiter's fields is a step of   *)
(* its own, and lastChecked, a time.Time, is written word by word: wall,   *)
(* whose top bit says that ext is a monotonic reading, and ext.  Without   *)
(* that bit ext counts seconds since the year 1, so a monotonic reading    *)
(* left in ext under a zeroed wall is a time millennia ahead.              *)
(***************************************************************************)
EXTENDS Integers

CONSTANTS
    Thread,      \* controllers that call the client
    Id,          \* server numbers
    Free,        \* the mutex has no holder
    CacheTimeout,\* timeout of cacheRobotClient
    WaitTime,    \* waitTime of rateLimitClient
    Latency,     \* an API call ends within this time (apiClientTimeout)
    MaxTime,     \* bound on the clock
    MaxEvents    \* bound on the changes of the API's servers and the answers
                 \* "rate limit exceeded", taken together

ASSUME RobotAssumption ==
    /\ CacheTimeout \in Nat /\ WaitTime \in Nat /\ Latency \in Nat
    /\ MaxTime \in Nat /\ MaxEvents \in Nat
    /\ Free \notin Thread

VARIABLES
    now,          \* the clock, counted from the start of the process
    exists,       \* the API: the servers there are
    since,        \* the API: since when a server exists, or does not exist
    events,       \* how often the servers changed or the limit was hit
    servers,      \* cacheRobotClient.servers and serversByID
    lastUpdate,   \* cacheRobotClient.lastUpdate, Never for the zero time
    mutex,        \* cacheRobotClient.mutex
    exceeded, wall, ext,   \* rateLimitClient.exceeded and lastChecked
    pc, call,     \* where each thread is, and the arguments of its call
    round,        \* the first or the second isExceeded of the call
    mark,         \* when the request was sent; time.Now() of set
    resp,         \* the list the API answered with
    lastList,     \* history: when the API last answered a list request
    quietEnd,     \* history: the end of the wait of the last limit that was recorded
    quiet,        \* history: quietEnd when the thread's call began
    res           \* what the call that returned in the last step returned

vars == <<now, exists, since, events, servers, lastUpdate, mutex, exceeded, wall, ext,
          pc, call, round, mark, resp, lastList, quietEnd, quiet, res>>
apiVars == <<exists, since, events>>
cacheVars == <<servers, lastUpdate, mutex>>
limitVars == <<exceeded, wall, ext>>
callVars == <<call, round, mark, resp, quiet>>

-----------------------------------------------------------------------------
(* Data *)

Never == -1

Call == [op: {"ServerGet", "ResetGet"}, id: Id] \cup [op: {"ServerGetList"}, id: {Free}]

NoCall == [op |-> "none", id |-> Free]

\* What a call returns: values, the error "server not found", another error,
\* or nil for both the value and the error.
Result == [kind: {"none", "values", "notFound", "error", "nil"}, vals: SUBSET Id]

NoResult == [kind |-> "none", vals |-> {}]

Outcome(kind) == [kind |-> kind, vals |-> {}]

\* What ServerGet and ServerGetList answer from the list S.
Answer(c, S) ==
    IF c.op = "ServerGetList" THEN [kind |-> "values", vals |-> S]
    ELSE IF c.id \in S THEN [kind |-> "values", vals |-> {c.id}]
    ELSE Outcome("notFound")

-----------------------------------------------------------------------------
Init ==
    /\ now = 1
    /\ exists \in SUBSET Id
    /\ since = [i \in Id |-> 0]
    /\ events = 0
    /\ servers = {} /\ lastUpdate = Never /\ mutex = Free
    /\ exceeded = FALSE /\ wall = FALSE /\ ext = 0
    /\ pc = [t \in Thread |-> "idle"]
    /\ call = [t \in Thread |-> NoCall]
    /\ round = [t \in Thread |-> 1]
    /\ mark = [t \in Thread |-> 0]
    /\ resp = [t \in Thread |-> {}]
    /\ lastList = Never /\ quietEnd = 0
    /\ quiet = [t \in Thread |-> 0]
    /\ res = NoResult

-----------------------------------------------------------------------------
(* The environment *)

Tick ==
    /\ now < MaxTime
    /\ \A t \in Thread : pc[t] \in {"list", "store", "reset"} => now - mark[t] < Latency
    /\ now' = now + 1
    /\ res' = NoResult
    /\ UNCHANGED <<apiVars, cacheVars, limitVars, pc, callVars, lastList, quietEnd>>

\* External: a server is ordered or cancelled.
ApiChange(i) ==
    /\ events < MaxEvents
    /\ events' = events + 1
    /\ exists' = IF i \in exists THEN exists \ {i} ELSE exists \cup {i}
    /\ since' = [since EXCEPT ![i] = now]
    /\ res' = NoResult
    /\ UNCHANGED <<now, cacheVars, limitVars, pc, callVars, lastList, quietEnd>>

-----------------------------------------------------------------------------
(* Steps of a call *)

Goto(t, l) == pc' = [pc EXCEPT ![t] = l] /\ res' = NoResult

Return(t, r) ==
    /\ pc' = [pc EXCEPT ![t] = "idle"]
    /\ call' = [call EXCEPT ![t] = NoCall]
    /\ round' = [round EXCEPT ![t] = 1]
    /\ mark' = [mark EXCEPT ![t] = 0]
    /\ resp' = [resp EXCEPT ![t] = {}]
    /\ quiet' = [quiet EXCEPT ![t] = 0]
    /\ res' = r

Start(t, c) ==
    /\ pc[t] = "idle"
    /\ Goto(t, "check")
    /\ call' = [call EXCEPT ![t] = c]
    /\ quiet' = [quiet EXCEPT ![t] = quietEnd]
    /\ UNCHANGED <<now, apiVars, cacheVars, limitVars, round, mark, resp, lastList, quietEnd>>

\* isExceeded returned false.  The first one lets the call through, to the
\* cache or, for ResetGet, to the API.  The second one is asked for the error
\* to return: there is none, and the call returns nil and nil.
Forward(t) ==
    \/ /\ round[t] = 1 /\ call[t].op = "ResetGet"
       /\ Goto(t, "reset")
       /\ mark' = [mark EXCEPT ![t] = now]
       /\ UNCHANGED <<call, round, resp, quiet>>
    \/ /\ round[t] = 1 /\ call[t].op # "ResetGet"
       /\ Goto(t, "lock")
       /\ UNCHANGED callVars
    \/ /\ round[t] = 2
       /\ Return(t, Outcome("nil"))

\* isExceeded returned true.  The first one leads to getRateLimitError.
Refuse(t) ==
    \/ /\ round[t] = 1
       /\ Goto(t, "check")
       /\ round' = [round EXCEPT ![t] = 2]
       /\ UNCHANGED <<call, mark, resp, quiet>>
    \/ /\ round[t] = 2
       /\ Return(t, Outcome("error"))

\* isExceeded loads exceeded.
CheckFlag(t) ==
    /\ pc[t] = "check"
    /\ IF exceeded THEN Goto(t, "time") /\ UNCHANGED callVars ELSE Forward(t)
    /\ UNCHANGED <<now, apiVars, cacheVars, limitVars, lastList, quietEnd>>

\* Mutant of Waiting: After instead of Before.
Waiting_After(w, e) == IF w THEN now > e + WaitTime ELSE e > 0

\* time.Now().Before(c.lastChecked.Add(c.waitTime)), for the words w and e of
\* lastChecked.
Waiting(w, e) == IF w THEN now < e + WaitTime ELSE e > 0

\* isExceeded loads lastChecked.  A load torn by a store gives one of the
\* results of a load before or after that store.
CheckTime(t) ==
    /\ pc[t] = "time"
    /\ IF Waiting(wall, ext) THEN Refuse(t) ELSE Goto(t, "clear") /\ UNCHANGED callVars
    /\ UNCHANGED <<now, apiVars, cacheVars, limitVars, lastList, quietEnd>>

\* The wait is over: exceeded and the two words of lastChecked are cleared.
Clear(t) ==
    /\ \/ /\ pc[t] = "clear"
          /\ exceeded' = FALSE
          /\ Goto(t, "clearWall") /\ UNCHANGED <<wall, ext, callVars>>
       \/ /\ pc[t] = "clearWall"
          /\ wall' = FALSE
          /\ Goto(t, "clearExt") /\ UNCHANGED <<exceeded, ext, callVars>>
       \/ /\ pc[t] = "clearExt"
          /\ ext' = 0
          /\ Forward(t) /\ UNCHANGED <<exceeded, wall>>
    /\ UNCHANGED <<now, apiVars, cacheVars, lastList, quietEnd>>

\* The steps in which a thread is about to write the limiter's fields.
Writing == {"clear", "clearWall", "clearExt", "set", "setWall", "setExt"}

\* The limit that t is storing stands: no other thread is writing, and none
\* has cleared what t has stored so far.
Recorded(t) == exceeded /\ wall /\ \A u \in Thread \ {t} : pc[u] \notin Writing

\* set: exceeded, then the two words of lastChecked, are stored.  Then the
\* error of the API is returned.
Set(t) ==
    /\ \/ /\ pc[t] = "set"
          /\ exceeded' = TRUE
          /\ mark' = [mark EXCEPT ![t] = now]
          /\ Goto(t, "setWall")
          /\ UNCHANGED <<wall, ext, call, round, resp, quiet, quietEnd>>
       \/ /\ pc[t] = "setWall"
          /\ wall' = TRUE
          /\ Goto(t, "setExt") /\ UNCHANGED <<exceeded, ext, callVars, quietEnd>>
       \/ /\ pc[t] = "setExt"
          /\ ext' = mark[t]
          /\ quietEnd' = IF Recorded(t) THEN mark[t] + WaitTime ELSE quietEnd
          /\ Return(t, Outcome("error"))
          /\ UNCHANGED <<exceeded, wall>>
    /\ UNCHANGED <<now, apiVars, cacheVars, lastList>>

-----------------------------------------------------------------------------
(* The cache and the API *)

\* Mutant of UpToDate: the cache never expires.
UpToDate_Forever == lastUpdate # Never

UpToDate == lastUpdate # Never /\ now < lastUpdate + CacheTimeout

\* The mutex is taken and the cache needs no update.
LockHit(t) ==
    /\ pc[t] = "lock" /\ mutex = Free
    /\ UpToDate
    /\ Return(t, Answer(call[t], servers))
    /\ UNCHANGED <<now, apiVars, cacheVars, limitVars, lastList, quietEnd>>

\* The mutex is taken and the list is requested.
LockMiss(t) ==
    /\ pc[t] = "lock" /\ mutex = Free
    /\ ~UpToDate
    /\ mutex' = t
    /\ mark' = [mark EXCEPT ![t] = now]
    /\ Goto(t, "list")
    /\ UNCHANGED <<now, apiVars, servers, lastUpdate, limitVars, call, round, resp, quiet,
                   lastList, quietEnd>>

\* External: the API answers a list request.
ServeList(t) ==
    /\ pc[t] = "list"
    /\ resp' = [resp EXCEPT ![t] = exists]
    /\ lastList' = now
    /\ Goto(t, "store")
    /\ UNCHANGED <<now, apiVars, cacheVars, limitVars, call, round, mark, quiet, quietEnd>>

\* Mutant of Store: the time of the update is not kept.
Store_NoTime(t) ==
    /\ pc[t] = "store"
    /\ servers' = resp[t]
    /\ mutex' = Free
    /\ Return(t, Answer(call[t], resp[t]))
    /\ UNCHANGED <<now, apiVars, lastUpdate, limitVars, lastList, quietEnd>>

\* Mutant of Store: the entries of the map are not removed.
Store_Merges(t) ==
    /\ pc[t] = "store"
    /\ servers' = servers \cup resp[t]
    /\ lastUpdate' = now
    /\ mutex' = Free
    /\ Return(t, Answer(call[t], servers'))
    /\ UNCHANGED <<now, apiVars, limitVars, lastList, quietEnd>>

\* The answer is stored, looked up and returned; the mutex is released.
Store(t) ==
    /\ pc[t] = "store"
    /\ servers' = resp[t]
    /\ lastUpdate' = now
    /\ mutex' = Free
    /\ Return(t, Answer(call[t], resp[t]))
    /\ UNCHANGED <<now, apiVars, limitVars, lastList, quietEnd>>

\* External: the API answers ResetGet.
ServeReset(t) ==
    /\ pc[t] = "reset"
    /\ Return(t, IF call[t].id \in exists THEN [kind |-> "values", vals |-> {call[t].id}]
                                          ELSE Outcome("error"))
    /\ UNCHANGED <<now, apiVars, cacheVars, limitVars, lastList, quietEnd>>

\* Mutant of Unlock: the early return keeps the mutex.
Unlock_Not(t) == UNCHANGED mutex

\* The deferred Unlock.
Unlock(t) == mutex' = IF mutex = t THEN Free ELSE mutex

\* A request fails.  The cache releases the mutex and keeps what it has.
RequestFails(t) ==
    /\ pc[t] \in {"list", "reset"}
    /\ Unlock(t)
    /\ Return(t, Outcome("error"))
    /\ UNCHANGED <<now, apiVars, servers, lastUpdate, limitVars, lastList, quietEnd>>

\* A request fails with "rate limit exceeded" or status 403: handleError goes
\* on to set.
LimitHit(t) ==
    /\ pc[t] \in {"list", "reset"}
    /\ events < MaxEvents
    /\ events' = events + 1
    /\ Unlock(t)
    /\ Goto(t, "set")
    /\ UNCHANGED <<now, exists, since, servers, lastUpdate, limitVars, callVars,
                   lastList, quietEnd>>

Step(t) ==
    \/ CheckFlag(t) \/ CheckTime(t) \/ Clear(t) \/ Set(t)
    \/ LockHit(t) \/ LockMiss(t) \/ ServeList(t) \/ Store(t)
    \/ ServeReset(t) \/ RequestFails(t) \/ LimitHit(t)

Next ==
    \/ Tick
    \/ \E i \in Id : ApiChange(i)
    \/ \E t \in Thread : Step(t) \/ \E c \in Call : Start(t, c)

Spec == Init /\ [][Next]_vars
-----------------------------------------------------------------------------
(* Properties *)

PC == {"idle", "check", "time", "clear", "clearWall", "clearExt", "lock", "list", "store",
       "reset", "set", "setWall", "setExt"}

\* Types of the two clients' fields and of the calls in flight; the mutex is
\* held exactly while a list request is under way.
TypeOK ==
    /\ now \in Nat /\ events \in Nat
    /\ exists \subseteq Id /\ since \in [Id -> Nat]
    /\ servers \subseteq Id /\ lastUpdate \in Nat \cup {Never}
    /\ exceeded \in BOOLEAN /\ wall \in BOOLEAN /\ ext \in Nat
    /\ pc \in [Thread -> PC]
    /\ call \in [Thread -> Call \cup {NoCall}]
    /\ round \in [Thread -> {1, 2}]
    /\ mark \in [Thread -> Nat]
    /\ resp \in [Thread -> SUBSET Id]
    /\ lastList \in Nat \cup {Never} /\ quietEnd \in Nat /\ quiet \in [Thread -> Nat]
    /\ res \in Result
    /\ mutex \in Thread \cup {Free}
    /\ \A t \in Thread : mutex = t <=> pc[t] \in {"list", "store"}

\* A call of t returns a result of this kind in this step.
Returned(t, kind) == pc[t] # "idle" /\ pc'[t] = "idle" /\ res'.kind = kind

\* The Robot API allows few list requests per hour: after the API answered
\* one, the next is not sent before CacheTimeout has passed, whatever the
\* number of callers.
ListRate ==
    [][\A t \in Thread : pc[t] # "list" /\ pc'[t] = "list" /\ lastList # Never
            => now >= lastList + CacheTimeout]_vars

\* A server that has been in the API for longer than CacheTimeout and one API
\* call is never reported as not found: its Node would be deleted.
NotFoundBounded ==
    [][\A t \in Thread : Returned(t, "notFound") /\ call[t].id \in exists
            => now - since[call[t].id] <= CacheTimeout + Latency]_vars

\* A server that has been gone for longer than that is not returned.
ListBounded ==
    [][\A t \in Thread : Returned(t, "values") =>
            \A i \in res'.vals \ exists : now - since[i] <= CacheTimeout + Latency]_vars

\* After a limit was recorded, with no other thread writing the limiter's
\* fields at that moment, no call that begins within WaitTime is sent to the
\* API, however the calls that follow interleave.
QuietAfterLimit ==
    [][\A t \in Thread : pc[t] \notin {"list", "reset"} /\ pc'[t] \in {"list", "reset"}
            => now >= quiet[t]]_vars

\* A call that is not sent to the API and has no cached answer returns an
\* error.  nil for the value and the error is taken by getRobotServerByID
\* for "there is no such server".
NilMeansAbsent ==
    [][\A t \in Thread : Returned(t, "nil") /\ call[t].op = "ServerGet"
            => call[t].id \notin exists]_vars
=============================================================================
