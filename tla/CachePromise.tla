---------------------------- MODULE CachePromise ----------------------------
(***************************************************************************)
(* What the cache of internal/cache/cache.go promises its callers, without *)
(* maps, mutex, modes or requests: a call starts, and some time later it   *)
(* returns an error or objects that answer it.  An object answers a call   *)
(* when it matches the key and the API held it no longer ago than the max  *)
(* age of the call and Delay; a lookup answers nil only when the object    *)
(* was absent at some moment of the call.  Cache implements this module.   *)
(***************************************************************************)
EXTENDS Integers

CONSTANTS
    Thread, Id, Name, NoName,  \* as in Cache
    CallSet, NoCall,           \* calls, and that there is none
    Delay                      \* what an answer may be older than its max age

VARIABLES
    now, world, seen,  \* the clock, the API's objects and when it last held each
    call,              \* the call each thread waits for
    present,           \* history: what the thread asked for existed throughout
    res                \* what the call that returned in the last step returned

vars == <<now, world, seen, call, present, res>>

Object == [id: Id, name: Name]

NoResult == [kind |-> "none", vals |-> {}]

\* v is an object that the call c asks for.
Asked(c, v) ==
    /\ c.op = "ByID" => v.id = c.key
    /\ c.op = "ByName" => v.name = c.key

Exists(c, w) == \E v \in Object : Asked(c, v) /\ w[v.id] = v.name

Init ==
    /\ now = 0
    /\ world \in [Id -> Name \cup {NoName}]
    /\ seen = [v \in Object |-> IF world[v.id] = v.name THEN 0 ELSE -1]
    /\ call = [t \in Thread |-> NoCall]
    /\ present = [t \in Thread |-> FALSE]
    /\ res = NoResult

-----------------------------------------------------------------------------
\* Time passes.
Tick ==
    /\ now' = now + 1
    /\ seen' = [v \in Object |-> IF world[v.id] = v.name THEN now + 1 ELSE seen[v]]
    /\ res' = NoResult
    /\ UNCHANGED <<world, call, present>>

\* An object is created, renamed or deleted.
Change(i, n) ==
    /\ n # NoName => \A j \in Id : world[j] # n
    /\ world' = [world EXCEPT ![i] = n]
    /\ seen' = [v \in Object |-> IF world'[v.id] = v.name THEN now ELSE seen[v]]
    /\ present' = [t \in Thread |-> present[t] /\ Exists(call[t], world')]
    /\ res' = NoResult
    /\ UNCHANGED <<now, call>>

\* Thread t calls ByID, ByName or All.
Start(t, c) ==
    /\ call[t] = NoCall
    /\ res' = NoResult
    /\ call' = [call EXCEPT ![t] = c]
    /\ present' = [present EXCEPT ![t] = Exists(c, world)]
    /\ UNCHANGED <<now, world, seen>>

\* The objects S answer the call of t.
Answers(t, S) ==
    /\ \A v \in S : Asked(call[t], v) /\ now - seen[v] <= call[t].maxAge + Delay
    /\ call[t].op # "All" =>
        /\ \A v, u \in S : v = u
        /\ S = {} => ~present[t]

\* The call of t returns r.
Return(t, r) ==
    /\ call[t] # NoCall
    /\ res' = r
    /\ \/ r.kind = "error" /\ r.vals = {}
       \/ r.kind = "values" /\ Answers(t, r.vals)
    /\ call' = [call EXCEPT ![t] = NoCall]
    /\ present' = [present EXCEPT ![t] = FALSE]
    /\ UNCHANGED <<now, world, seen>>

\* The cache works; nothing of it is visible but that nobody returned.
Work == res' = NoResult /\ UNCHANGED <<now, world, seen, call, present>>

Next ==
    \/ Tick \/ Work
    \/ \E i \in Id, n \in Name \cup {NoName} : Change(i, n)
    \/ \E t \in Thread :
        \/ \E c \in CallSet : Start(t, c)
        \/ \E r \in [kind: {"error", "values"}, vals: SUBSET Object] : Return(t, r)

Spec == Init /\ [][Next]_vars
=============================================================================
