------------------------- MODULE RobotClientProofs -------------------------
(***************************************************************************)
(* Theorems about the client of the Robot API, for every number of threads *)
(* and servers, every timeout, wait time and latency.                      *)
(***************************************************************************)
EXTENDS RobotClient, TLAPS

-----------------------------------------------------------------------------
(* Type correctness and the mutex *)

LEMMA ResultType ==
    /\ NoResult \in Result
    /\ \A k \in {"none", "values", "notFound", "error", "nil"} : Outcome(k) \in Result
    /\ \A S \in SUBSET Id : [kind |-> "values", vals |-> S] \in Result
BY DEF NoResult, Outcome, Result

LEMMA AnswerType ==
    ASSUME NEW c, NEW S \in SUBSET Id
    PROVE  Answer(c, S) \in Result
<1>1. c.id \in S => {c.id} \in SUBSET Id
  OBVIOUS
<1> QED
  BY <1>1, ResultType DEF Answer

\* The fields of the calls in flight.
CallOK ==
    /\ pc \in [Thread -> PC]
    /\ call \in [Thread -> Call \cup {NoCall}]
    /\ round \in [Thread -> {1, 2}]
    /\ mark \in [Thread -> Nat]
    /\ resp \in [Thread -> SUBSET Id]
    /\ quiet \in [Thread -> Nat]
    /\ res \in Result

LEMMA GotoType ==
    ASSUME TypeOK, NEW t \in Thread, NEW l \in PC, Goto(t, l)
    PROVE  pc' \in [Thread -> PC] /\ res' \in Result
BY ResultType DEF TypeOK, Goto

LEMMA ReturnType ==
    ASSUME TypeOK, NEW t \in Thread, NEW r \in Result, Return(t, r)
    PROVE  CallOK'
BY DEF TypeOK, CallOK, Return, NoCall, PC

LEMMA ForwardType ==
    ASSUME TypeOK, NEW t \in Thread, Forward(t)
    PROVE  CallOK' /\ pc'[t] \in {"reset", "lock", "idle"}
                   /\ \A u \in Thread \ {t} : pc'[u] = pc[u]
<1>1. CASE round[t] = 1 /\ call[t].op = "ResetGet" /\ Goto(t, "reset")
           /\ mark' = [mark EXCEPT ![t] = now] /\ UNCHANGED <<call, round, resp, quiet>>
  BY <1>1, ResultType DEF TypeOK, CallOK, Goto, PC
<1>2. CASE Goto(t, "lock") /\ UNCHANGED callVars
  BY <1>2, ResultType DEF TypeOK, CallOK, Goto, PC, callVars
<1>3. CASE Return(t, Outcome("nil"))
  <2>1. CallOK'
    BY <1>3, ResultType, ReturnType
  <2> QED
    BY <1>3, <2>1 DEF Return, TypeOK
<1> QED
  BY <1>1, <1>2, <1>3 DEF Forward

LEMMA RefuseType ==
    ASSUME TypeOK, NEW t \in Thread, Refuse(t)
    PROVE  CallOK' /\ pc'[t] \in {"check", "idle"}
                   /\ \A u \in Thread \ {t} : pc'[u] = pc[u]
<1>1. CASE Goto(t, "check") /\ round' = [round EXCEPT ![t] = 2] /\ UNCHANGED <<call, mark, resp, quiet>>
  BY <1>1, ResultType DEF TypeOK, CallOK, Goto, PC
<1>2. CASE Return(t, Outcome("error"))
  <2>1. CallOK'
    BY <1>2, ResultType, ReturnType
  <2> QED
    BY <1>2, <2>1 DEF Return, TypeOK
<1> QED
  BY <1>1, <1>2 DEF Refuse

\* A step that does not touch the mutex keeps it if it neither enters nor
\* leaves the list request.
LEMMA MutexKept ==
    ASSUME TypeOK, NEW t \in Thread, pc[t] \notin {"list", "store"},
           pc'[t] \notin {"list", "store"}, \A u \in Thread \ {t} : pc'[u] = pc[u], mutex' = mutex
    PROVE  (/\ mutex \in Thread \cup {Free}
            /\ \A u \in Thread : mutex = u <=> pc[u] \in {"list", "store"})'
BY DEF TypeOK

LEMMA TypeInit == Init => TypeOK
<1> SUFFICES ASSUME Init PROVE TypeOK
  OBVIOUS
<1>1. CallOK
  BY ResultType DEF Init, CallOK, NoCall, PC
<1>2. exceeded \in BOOLEAN /\ wall \in BOOLEAN
  BY Zenon DEF Init
<1>3. \A t \in Thread : mutex = t <=> pc[t] \in {"list", "store"}
  BY RobotAssumption DEF RobotAssumption, Init
<1> QED
  BY <1>1, <1>2, <1>3 DEF Init, TypeOK, CallOK, Never

LEMMA TypeNext == TypeOK /\ [Next]_vars => TypeOK'
<1> SUFFICES ASSUME TypeOK, [Next]_vars PROVE TypeOK'
  OBVIOUS
<1>0. /\ now \in Nat /\ mutex \in Thread \cup {Free} /\ Free \notin Thread
      /\ pc \in [Thread -> PC]
      /\ \A t \in Thread : mutex = t <=> pc[t] \in {"list", "store"}
      /\ WaitTime \in Nat
  BY RobotAssumption DEF RobotAssumption, TypeOK
<1>1. CASE Tick
  BY <1>1, ResultType DEF Tick, TypeOK, apiVars, cacheVars, limitVars, callVars
<1>2. ASSUME NEW i \in Id, ApiChange(i) PROVE TypeOK'
  BY <1>2, ResultType DEF ApiChange, TypeOK, cacheVars, limitVars, callVars
<1>3. ASSUME NEW t \in Thread, NEW c \in Call, Start(t, c) PROVE TypeOK'
  BY <1>3, ResultType DEF Start, Goto, TypeOK, apiVars, cacheVars, limitVars, PC
<1>4. ASSUME NEW t \in Thread, CheckFlag(t) PROVE TypeOK'
  <2>1. /\ CallOK' /\ pc'[t] \notin {"list", "store"}
        /\ \A u \in Thread \ {t} : pc'[u] = pc[u]
    <3>1. CASE Goto(t, "time") /\ UNCHANGED callVars
      BY <1>0, <3>1, GotoType DEF Goto, TypeOK, CallOK, callVars, PC
    <3>2. CASE Forward(t)
      BY <3>2, ForwardType
    <3> QED
      BY <1>4, <3>1, <3>2 DEF CheckFlag
  <2>2. (/\ mutex \in Thread \cup {Free}
         /\ \A u \in Thread : mutex = u <=> pc[u] \in {"list", "store"})'
    BY <1>4, <2>1, MutexKept DEF CheckFlag, cacheVars
  <2> QED
    BY <1>4, <2>1, <2>2 DEF CheckFlag, TypeOK, CallOK, apiVars, cacheVars, limitVars
<1>5. ASSUME NEW t \in Thread, CheckTime(t) PROVE TypeOK'
  <2>1. /\ CallOK' /\ pc'[t] \notin {"list", "store"}
        /\ \A u \in Thread \ {t} : pc'[u] = pc[u]
    <3>1. CASE Goto(t, "clear") /\ UNCHANGED callVars
      BY <1>0, <3>1, GotoType DEF Goto, TypeOK, CallOK, callVars, PC
    <3>2. CASE Refuse(t)
      BY <3>2, RefuseType
    <3> QED
      BY <1>5, <3>1, <3>2 DEF CheckTime
  <2>2. (/\ mutex \in Thread \cup {Free}
         /\ \A u \in Thread : mutex = u <=> pc[u] \in {"list", "store"})'
    BY <1>5, <2>1, MutexKept DEF CheckTime, cacheVars
  <2> QED
    BY <1>5, <2>1, <2>2 DEF CheckTime, TypeOK, CallOK, apiVars, cacheVars, limitVars
<1>6. ASSUME NEW t \in Thread, Clear(t) PROVE TypeOK'
  <2>1. /\ CallOK' /\ pc'[t] \notin {"list", "store"} /\ pc[t] \notin {"list", "store"}
        /\ \A u \in Thread \ {t} : pc'[u] = pc[u]
    <3>1. CASE pc[t] = "clear" /\ Goto(t, "clearWall") /\ UNCHANGED callVars
      BY <1>0, <3>1, GotoType DEF Goto, TypeOK, CallOK, callVars, PC
    <3>2. CASE pc[t] = "clearWall" /\ Goto(t, "clearExt") /\ UNCHANGED callVars
      BY <1>0, <3>2, GotoType DEF Goto, TypeOK, CallOK, callVars, PC
    <3>3. CASE pc[t] = "clearExt" /\ Forward(t)
      BY <3>3, ForwardType
    <3> QED
      BY <1>6, <3>1, <3>2, <3>3 DEF Clear
  <2>2. (/\ mutex \in Thread \cup {Free}
         /\ \A u \in Thread : mutex = u <=> pc[u] \in {"list", "store"})'
    BY <1>6, <2>1, MutexKept DEF Clear, cacheVars
  <2>3. exceeded' \in BOOLEAN /\ wall' \in BOOLEAN
    BY <1>6, Zenon DEF Clear, TypeOK
  <2>4. ext' \in Nat
    BY <1>6 DEF Clear, TypeOK
  <2> QED
    BY <1>6, <2>1, <2>2, <2>3, <2>4 DEF Clear, TypeOK, CallOK, apiVars, cacheVars
<1>7. ASSUME NEW t \in Thread, Set(t) PROVE TypeOK'
  <2>0. mark[t] \in Nat
    BY DEF TypeOK
  <2>1. /\ CallOK' /\ pc'[t] \notin {"list", "store"} /\ pc[t] \notin {"list", "store"}
        /\ \A u \in Thread \ {t} : pc'[u] = pc[u]
        /\ exceeded' \in BOOLEAN /\ wall' \in BOOLEAN /\ ext' \in Nat /\ quietEnd' \in Nat
    <3>1. CASE pc[t] = "set" /\ exceeded' = TRUE /\ mark' = [mark EXCEPT ![t] = now]
               /\ Goto(t, "setWall")
               /\ UNCHANGED <<wall, ext, call, round, resp, quiet, quietEnd>>
      BY <1>0, <3>1, GotoType DEF Goto, TypeOK, CallOK, PC
    <3>2. CASE pc[t] = "setWall" /\ wall' = TRUE /\ Goto(t, "setExt")
               /\ UNCHANGED <<exceeded, ext, callVars, quietEnd>>
      BY <1>0, <3>2, GotoType DEF Goto, TypeOK, CallOK, callVars, PC
    <3>3. CASE pc[t] = "setExt" /\ ext' = mark[t] /\ Return(t, Outcome("error"))
               /\ quietEnd' = (IF Recorded(t) THEN mark[t] + WaitTime ELSE quietEnd)
               /\ UNCHANGED <<exceeded, wall>>
      <4>1. CallOK'
        BY <3>3, ResultType, ReturnType
      <4> QED
        BY <1>0, <2>0, <3>3, <4>1 DEF Return, TypeOK
    <3> QED
      BY <1>7, <3>1, <3>2, <3>3 DEF Set
  <2>2. (/\ mutex \in Thread \cup {Free}
         /\ \A u \in Thread : mutex = u <=> pc[u] \in {"list", "store"})'
    BY <1>7, <2>1, MutexKept DEF Set, cacheVars
  <2> QED
    BY <1>7, <2>1, <2>2 DEF Set, TypeOK, CallOK, apiVars, cacheVars
<1>8. ASSUME NEW t \in Thread, LockHit(t) PROVE TypeOK'
  <2>1. CallOK'
    BY <1>8, AnswerType, ReturnType DEF LockHit, TypeOK
  <2>2. (/\ mutex \in Thread \cup {Free}
         /\ \A u \in Thread : mutex = u <=> pc[u] \in {"list", "store"})'
    BY <1>0, <1>8, MutexKept DEF LockHit, Return, cacheVars
  <2> QED
    BY <1>8, <2>1, <2>2 DEF LockHit, TypeOK, CallOK, apiVars, cacheVars, limitVars
<1>9. ASSUME NEW t \in Thread, LockMiss(t) PROVE TypeOK'
  <2>1. pc' \in [Thread -> PC] /\ res' \in Result
    BY <1>9, GotoType DEF LockMiss, PC
  <2>2. (/\ mutex \in Thread \cup {Free}
         /\ \A u \in Thread : mutex = u <=> pc[u] \in {"list", "store"})'
    BY <1>0, <1>9 DEF LockMiss, Goto
  <2> QED
    BY <1>9, <2>1, <2>2 DEF LockMiss, TypeOK, apiVars, limitVars
<1>10. ASSUME NEW t \in Thread, ServeList(t) PROVE TypeOK'
  <2>1. pc' \in [Thread -> PC] /\ res' \in Result
    BY <1>10, GotoType DEF ServeList, PC
  <2>2. (/\ mutex \in Thread \cup {Free}
         /\ \A u \in Thread : mutex = u <=> pc[u] \in {"list", "store"})'
    BY <1>0, <1>10 DEF ServeList, Goto, cacheVars
  <2> QED
    BY <1>10, <2>1, <2>2 DEF ServeList, TypeOK, apiVars, cacheVars, limitVars
<1>11. ASSUME NEW t \in Thread, Store(t) PROVE TypeOK'
  <2>1. CallOK' /\ servers' \subseteq Id
    BY <1>11, AnswerType, ReturnType DEF Store, TypeOK
  <2>2. (/\ mutex \in Thread \cup {Free}
         /\ \A u \in Thread : mutex = u <=> pc[u] \in {"list", "store"})'
    BY <1>0, <1>11 DEF Store, Return
  <2> QED
    BY <1>11, <2>1, <2>2 DEF Store, TypeOK, CallOK, apiVars, limitVars
<1>12. ASSUME NEW t \in Thread, ServeReset(t) PROVE TypeOK'
  <2>1. call[t].id \in exists => {call[t].id} \in SUBSET Id
    BY DEF TypeOK
  <2>2. CallOK'
    BY <1>12, <2>1, ResultType, ReturnType DEF ServeReset
  <2>3. (/\ mutex \in Thread \cup {Free}
         /\ \A u \in Thread : mutex = u <=> pc[u] \in {"list", "store"})'
    BY <1>0, <1>12, MutexKept DEF ServeReset, Return, cacheVars
  <2> QED
    BY <1>12, <2>2, <2>3 DEF ServeReset, TypeOK, CallOK, apiVars, cacheVars, limitVars
<1>13. ASSUME NEW t \in Thread, RequestFails(t) PROVE TypeOK'
  <2>1. CallOK'
    BY <1>13, ResultType, ReturnType DEF RequestFails
  <2>2. (/\ mutex \in Thread \cup {Free}
         /\ \A u \in Thread : mutex = u <=> pc[u] \in {"list", "store"})'
    BY <1>0, <1>13 DEF RequestFails, Return, Unlock
  <2> QED
    BY <1>13, <2>1, <2>2 DEF RequestFails, TypeOK, CallOK, apiVars, limitVars
<1>14. ASSUME NEW t \in Thread, LimitHit(t) PROVE TypeOK'
  <2>1. pc' \in [Thread -> PC] /\ res' \in Result
    BY <1>14, GotoType DEF LimitHit, PC
  <2>2. (/\ mutex \in Thread \cup {Free}
         /\ \A u \in Thread : mutex = u <=> pc[u] \in {"list", "store"})'
    BY <1>0, <1>14 DEF LimitHit, Goto, Unlock
  <2> QED
    BY <1>14, <2>1, <2>2 DEF LimitHit, TypeOK, limitVars, callVars
<1>15. CASE UNCHANGED vars
  BY <1>15 DEF vars, TypeOK
<1> QED
  BY <1>1, <1>2, <1>3, <1>4, <1>5, <1>6, <1>7, <1>8, <1>9, <1>10, <1>11, <1>12, <1>13, <1>14,
     <1>15 DEF Next, Step

\* The fields of the two clients are well typed, and the mutex of the cache is
\* held exactly while a list request is under way: no path of ServerGet or
\* ServerGetList, the one that ends in the rate limit included, leaks it.
THEOREM TypeCorrect == Spec => []TypeOK
<1>1. Init => TypeOK
  BY TypeInit
<1>2. TypeOK /\ [Next]_vars => TypeOK'
  BY TypeNext
<1> QED
  BY <1>1, <1>2, PTL DEF Spec

-----------------------------------------------------------------------------
(* The list and its age *)

Requesting(t) == pc[t] \in {"list", "store", "reset"}

\* A request ends within Latency.
ClockInv == \A t \in Thread : Requesting(t) => mark[t] <= now /\ now <= mark[t] + Latency

\* Unless an answer is about to be stored, the cache knows of the last list
\* request that the API answered.
RateInv ==
    /\ lastList <= now /\ lastUpdate <= now
    /\ (\A t \in Thread : pc[t] # "store") => lastList <= lastUpdate

\* The list S is right about every server that did not change since time s.
Known(S, s) == \A i \in Id : since[i] >= s \/ (i \in S <=> i \in exists)

\* The list of the cache was right when it was requested, at most Latency
\* before lastUpdate, and so was an answer that is about to be stored.
KnownInv ==
    /\ lastUpdate # Never => Known(servers, lastUpdate - Latency)
    /\ \A t \in Thread : pc[t] = "store" => Known(resp[t], mark[t])

AgeInv == TypeOK /\ ClockInv /\ RateInv /\ KnownInv

LEMMA ClockNext == TypeOK /\ ClockInv /\ [Next]_vars => ClockInv'
<1> SUFFICES ASSUME TypeOK, ClockInv, [Next]_vars, NEW u \in Thread, Requesting(u)'
             PROVE  mark'[u] <= now' /\ now' <= mark'[u] + Latency
  BY DEF ClockInv
<1>0. /\ pc \in [Thread -> PC] /\ mark \in [Thread -> Nat] /\ now \in Nat /\ Latency \in Nat
  BY RobotAssumption DEF RobotAssumption, TypeOK
<1>1. CASE Tick
  BY <1>0, <1>1 DEF Tick, ClockInv, Requesting, callVars
<1>2. CASE Requesting(u) /\ mark'[u] = mark[u] /\ now' = now
  BY <1>0, <1>2 DEF ClockInv
<1>3. CASE mark'[u] = now /\ now' = now
  BY <1>0, <1>3
<1>4. Tick \/ (Requesting(u) /\ mark'[u] = mark[u] /\ now' = now) \/ (mark'[u] = now /\ now' = now)
  <2>1. ASSUME NEW t \in Thread, NEW c \in Call, Start(t, c)
        PROVE  Requesting(u) /\ mark'[u] = mark[u] /\ now' = now
    BY <1>0, <2>1 DEF Start, Goto, Requesting
  <2>2. ASSUME NEW t \in Thread, CheckFlag(t) \/ CheckTime(t) \/ Clear(t)
        PROVE  now' = now /\ (mark'[u] = now \/ (Requesting(u) /\ mark'[u] = mark[u]))
    BY <1>0, <2>2 DEF CheckFlag, CheckTime, Clear, Forward, Refuse, Goto, Return, callVars, Requesting
  <2>3. ASSUME NEW t \in Thread, Set(t)
        PROVE  now' = now /\ Requesting(u) /\ mark'[u] = mark[u]
    BY <1>0, <2>3 DEF Set, Goto, Return, callVars, Requesting
  <2>4. ASSUME NEW t \in Thread, LockMiss(t)
        PROVE  now' = now /\ (mark'[u] = now \/ (Requesting(u) /\ mark'[u] = mark[u]))
    BY <1>0, <2>4 DEF LockMiss, Goto, Requesting
  <2>5. ASSUME NEW t \in Thread, ServeList(t)
        PROVE  now' = now /\ Requesting(u) /\ mark'[u] = mark[u]
    BY <1>0, <2>5 DEF ServeList, Goto, Requesting
  <2>6. ASSUME NEW t \in Thread,
               LockHit(t) \/ Store(t) \/ ServeReset(t) \/ RequestFails(t) \/ LimitHit(t)
        PROVE  now' = now /\ Requesting(u) /\ mark'[u] = mark[u]
    BY <1>0, <2>6 DEF LockHit, Store, ServeReset, RequestFails, LimitHit, Goto, Return, callVars,
                      Requesting
  <2>7. ASSUME NEW i \in Id, ApiChange(i) PROVE now' = now /\ Requesting(u) /\ mark'[u] = mark[u]
    BY <2>7 DEF ApiChange, callVars, Requesting
  <2>8. CASE UNCHANGED vars
    BY <2>8 DEF vars, Requesting
  <2> QED
    BY <2>1, <2>2, <2>3, <2>4, <2>5, <2>6, <2>7, <2>8 DEF Next, Step
<1> QED
  BY <1>1, <1>2, <1>3, <1>4

\* Only a few steps touch the list of the cache, the answer that is about to be
\* stored or the servers of the API.
LEMMA ListSteps ==
    ASSUME TypeOK, [Next]_vars
    PROVE  \/ Tick
           \/ \E i \in Id : ApiChange(i)
           \/ \E t \in Thread : ServeList(t) \/ Store(t)
           \/ /\ UNCHANGED <<now, exists, since, servers, lastUpdate, lastList>>
              /\ \A u \in Thread : pc'[u] = "store" <=> pc[u] = "store"
              /\ \A u \in Thread : pc[u] = "store" => resp'[u] = resp[u] /\ mark'[u] = mark[u]
<1> DEFINE Same == /\ UNCHANGED <<now, exists, since, servers, lastUpdate, lastList>>
                   /\ \A u \in Thread : pc'[u] = "store" <=> pc[u] = "store"
                   /\ \A u \in Thread : pc[u] = "store" => resp'[u] = resp[u] /\ mark'[u] = mark[u]
<1>0. pc \in [Thread -> PC] /\ resp \in [Thread -> SUBSET Id] /\ mark \in [Thread -> Nat]
  BY DEF TypeOK
<1>1. ASSUME NEW t \in Thread, NEW c \in Call, Start(t, c) PROVE Same
  BY <1>0, <1>1 DEF Start, Goto, apiVars, cacheVars
<1>2. ASSUME NEW t \in Thread, CheckFlag(t) \/ CheckTime(t) \/ Clear(t) PROVE Same
  BY <1>0, <1>2 DEF CheckFlag, CheckTime, Clear, Forward, Refuse, Goto, Return, apiVars,
                    cacheVars, callVars
<1>3. ASSUME NEW t \in Thread, Set(t) PROVE Same
  BY <1>0, <1>3 DEF Set, Goto, Return, apiVars, cacheVars, callVars
<1>4. ASSUME NEW t \in Thread,
             LockHit(t) \/ LockMiss(t) \/ ServeReset(t) \/ RequestFails(t) \/ LimitHit(t)
      PROVE  Same
  BY <1>0, <1>4 DEF LockHit, LockMiss, ServeReset, RequestFails, LimitHit, Goto, Return, apiVars,
                    cacheVars, callVars
<1>5. ASSUME UNCHANGED vars PROVE Same
  BY <1>5 DEF vars
<1> HIDE DEF Same
<1>6. \/ Tick \/ (\E i \in Id : ApiChange(i)) \/ (\E t \in Thread : ServeList(t) \/ Store(t)) \/ Same
  BY <1>1, <1>2, <1>3, <1>4, <1>5 DEF Next, Step
<1> QED
  BY <1>6 DEF Same

LEMMA RateNext == AgeInv /\ [Next]_vars => RateInv'
<1> SUFFICES ASSUME AgeInv, [Next]_vars PROVE RateInv'
  OBVIOUS
<1>0. /\ TypeOK /\ now \in Nat /\ lastList \in Nat \cup {-1} /\ lastUpdate \in Nat \cup {-1}
      /\ pc \in [Thread -> PC]
      /\ lastList <= now /\ lastUpdate <= now
      /\ (\A t \in Thread : pc[t] # "store") => lastList <= lastUpdate
  BY DEF AgeInv, TypeOK, RateInv, Never
<1>1. CASE Tick
  BY <1>0, <1>1 DEF Tick, RateInv, cacheVars
<1>2. CASE \E i \in Id : ApiChange(i)
  BY <1>0, <1>2 DEF ApiChange, RateInv, cacheVars
<1>3. ASSUME NEW t \in Thread, ServeList(t) PROVE RateInv'
  <2>1. /\ pc'[t] = "store" /\ lastList' = now /\ now' = now /\ lastUpdate' = lastUpdate
    BY <1>0, <1>3 DEF ServeList, Goto, cacheVars
  <2> QED
    BY <1>0, <2>1 DEF RateInv
<1>4. ASSUME NEW t \in Thread, Store(t) PROVE RateInv'
  BY <1>0, <1>4 DEF Store, RateInv
<1>5. CASE /\ UNCHANGED <<now, exists, since, servers, lastUpdate, lastList>>
           /\ \A u \in Thread : pc'[u] = "store" <=> pc[u] = "store"
  BY <1>0, <1>5 DEF RateInv
<1> QED
  BY <1>0, <1>1, <1>2, <1>3, <1>4, <1>5, ListSteps

LEMMA KnownNext == AgeInv /\ [Next]_vars => KnownInv'
<1> SUFFICES ASSUME AgeInv, [Next]_vars PROVE KnownInv'
  OBVIOUS
<1>0. /\ TypeOK /\ now \in Nat /\ lastUpdate \in Nat \cup {-1} /\ Latency \in Nat
      /\ pc \in [Thread -> PC] /\ mark \in [Thread -> Nat] /\ since \in [Id -> Nat]
      /\ resp \in [Thread -> SUBSET Id] /\ lastUpdate <= now
      /\ \A t \in Thread : mutex = t <=> pc[t] \in {"list", "store"}
      /\ lastUpdate # -1 => Known(servers, lastUpdate - Latency)
      /\ \A t \in Thread : pc[t] = "store" => Known(resp[t], mark[t])
      /\ \A t \in Thread : pc[t] = "store" => mark[t] <= now /\ now <= mark[t] + Latency
  BY RobotAssumption
     DEF RobotAssumption, AgeInv, TypeOK, RateInv, KnownInv, ClockInv, Requesting, Never
<1>1. CASE Tick
  BY <1>0, <1>1 DEF Tick, KnownInv, Known, apiVars, cacheVars, callVars, Never
<1>2. ASSUME NEW i \in Id, ApiChange(i) PROVE KnownInv'
  <2>1. /\ since' = [since EXCEPT ![i] = now]
        /\ \A j \in Id : j # i => (j \in exists' <=> j \in exists)
        /\ UNCHANGED <<servers, lastUpdate, pc, resp, mark>>
    BY <1>2 DEF ApiChange, cacheVars, callVars
  <2>2. ASSUME NEW S, NEW s \in Int, s <= now, Known(S, s) PROVE Known(S, s)'
    BY <1>0, <2>1, <2>2 DEF Known
  <2>3. lastUpdate # -1 => Known(servers, lastUpdate - Latency)'
    <3>1. lastUpdate - Latency \in Int /\ lastUpdate - Latency <= now
      BY <1>0
    <3> QED
      BY <1>0, <2>1, <2>2, <3>1 DEF Known
  <2>4. ASSUME NEW t \in Thread, pc[t] = "store" PROVE Known(resp[t], mark[t])'
    <3>1. mark[t] \in Int /\ mark[t] <= now
      BY <1>0, <2>4
    <3> QED
      BY <1>0, <2>1, <2>2, <2>4, <3>1 DEF Known
  <2> QED
    BY <2>1, <2>3, <2>4 DEF KnownInv, Never
<1>3. ASSUME NEW t \in Thread, ServeList(t) PROVE KnownInv'
  BY <1>0, <1>3 DEF ServeList, Goto, KnownInv, Known, apiVars, cacheVars, Never
<1>4. ASSUME NEW t \in Thread, Store(t) PROVE KnownInv'
  <2>1. /\ pc[t] = "store" /\ servers' = resp[t] /\ lastUpdate' = now
        /\ exists' = exists /\ since' = since /\ \A u \in Thread : pc'[u] # "store"
    BY <1>0, <1>4 DEF Store, Return, apiVars
  <2>2. \A i \in Id : since[i] >= now - Latency \/ (i \in resp[t] <=> i \in exists)
    BY <1>0, <2>1 DEF Known
  <2> QED
    BY <2>1, <2>2 DEF KnownInv, Known
<1>5. CASE /\ UNCHANGED <<now, exists, since, servers, lastUpdate, lastList>>
           /\ \A u \in Thread : pc'[u] = "store" <=> pc[u] = "store"
           /\ \A u \in Thread : pc[u] = "store" => resp'[u] = resp[u] /\ mark'[u] = mark[u]
  BY <1>0, <1>5 DEF KnownInv, Known, Never
<1> QED
  BY <1>0, <1>1, <1>2, <1>3, <1>4, <1>5, ListSteps

LEMMA AgeInit == Init => AgeInv
<1> SUFFICES ASSUME Init PROVE AgeInv
  OBVIOUS
<1>1. TypeOK
  BY TypeInit
<1>2. ClockInv /\ RateInv /\ KnownInv
  BY DEF Init, ClockInv, Requesting, RateInv, KnownInv, Never
<1> QED
  BY <1>1, <1>2 DEF AgeInv

LEMMA AgeNext == AgeInv /\ [Next]_vars => AgeInv'
BY TypeNext, ClockNext, RateNext, KnownNext DEF AgeInv

\* After the API answered a list request, the next one is not sent before
\* CacheTimeout has passed, whatever the number of callers, the order of their
\* steps and the failures of requests.
THEOREM ListRateCorrect == Spec => ListRate
<1>1. Init => AgeInv
  BY AgeInit
<1>2. AgeInv /\ [Next]_vars => AgeInv'
  BY AgeNext
<1>3. AgeInv /\ [Next]_vars =>
        [\A t \in Thread : pc[t] # "list" /\ pc'[t] = "list" /\ lastList # Never
            => now >= lastList + CacheTimeout]_vars
  <2> SUFFICES ASSUME AgeInv, [Next]_vars, NEW t \in Thread,
                      pc[t] # "list", pc'[t] = "list", lastList # Never
               PROVE  now >= lastList + CacheTimeout
    OBVIOUS
  <2>0. /\ pc \in [Thread -> PC] /\ now \in Nat /\ CacheTimeout \in Nat
        /\ lastList \in Nat /\ lastUpdate \in Nat \cup {-1}
        /\ \A u \in Thread : mutex = u <=> pc[u] \in {"list", "store"}
        /\ Free \notin Thread
    BY RobotAssumption DEF RobotAssumption, AgeInv, TypeOK, Never
  <2>1. LockMiss(t)
    <3>1. ASSUME NEW u \in Thread, CheckFlag(u) \/ CheckTime(u) \/ Clear(u) \/ Set(u) PROVE FALSE
      BY <2>0, <3>1 DEF CheckFlag, CheckTime, Clear, Set, Forward, Refuse, Goto, Return
    <3>2. ASSUME NEW u \in Thread, \/ LockHit(u) \/ ServeList(u) \/ Store(u) \/ ServeReset(u)
                                    \/ RequestFails(u) \/ LimitHit(u) \/ \E c \in Call : Start(u, c)
          PROVE  FALSE
      BY <2>0, <3>2 DEF LockHit, ServeList, Store, ServeReset, RequestFails, LimitHit, Start, Goto,
                        Return
    <3>3. ASSUME NEW u \in Thread, LockMiss(u) PROVE u = t
      BY <2>0, <3>3 DEF LockMiss, Goto
    <3>4. CASE Tick \/ (\E i \in Id : ApiChange(i)) \/ UNCHANGED vars
      BY <3>4 DEF Tick, ApiChange, vars
    <3> QED
      BY <3>1, <3>2, <3>3, <3>4 DEF Next, Step
  <2>2. \A u \in Thread : pc[u] # "store"
    BY <2>0, <2>1 DEF LockMiss
  <2>3. lastList <= lastUpdate
    BY <2>2 DEF AgeInv, RateInv
  <2> QED
    BY <2>0, <2>1, <2>3 DEF LockMiss, UpToDate, Never
<1> QED
  BY <1>1, <1>2, <1>3, PTL DEF Spec, ListRate

\* What a call returns from the list of the cache, or from the answer it just
\* got, was right about a server no longer than CacheTimeout and Latency ago.
LEMMA AnsweredFrom ==
    ASSUME AgeInv, [Next]_vars, NEW t \in Thread, pc[t] # "idle", pc'[t] = "idle",
           res'.kind \in {"values", "notFound"}
    PROVE  \/ /\ call[t].id \in exists
              /\ res' = [kind |-> "values", vals |-> {call[t].id}]
           \/ \E S \in SUBSET Id :
                /\ res' = Answer(call[t], S)
                /\ \A i \in Id : now - since[i] <= CacheTimeout + Latency \/ (i \in S <=> i \in exists)
<1>0. /\ pc \in [Thread -> PC] /\ now \in Nat /\ CacheTimeout \in Nat /\ Latency \in Nat
      /\ lastUpdate \in Nat \cup {-1} /\ since \in [Id -> Nat] /\ mark[t] \in Nat
      /\ servers \subseteq Id /\ resp[t] \subseteq Id
  BY RobotAssumption DEF RobotAssumption, AgeInv, TypeOK, Never
<1>1. LockHit(t) \/ Store(t) \/ ServeReset(t)
  <2>1. ASSUME NEW u \in Thread, CheckFlag(u) \/ CheckTime(u) \/ Clear(u) \/ Set(u) PROVE FALSE
    BY <1>0, <2>1 DEF CheckFlag, CheckTime, Clear, Set, Forward, Refuse, Goto, Return, Outcome
  <2>2. ASSUME NEW u \in Thread, \/ LockMiss(u) \/ ServeList(u) \/ RequestFails(u) \/ LimitHit(u)
                                  \/ \E c \in Call : Start(u, c)
        PROVE  FALSE
    BY <1>0, <2>2 DEF LockMiss, ServeList, RequestFails, LimitHit, Start, Goto, Return, Outcome
  <2>3. ASSUME NEW u \in Thread, LockHit(u) \/ Store(u) \/ ServeReset(u) PROVE u = t
    BY <1>0, <2>3 DEF LockHit, Store, ServeReset, Return
  <2>4. CASE Tick \/ (\E i \in Id : ApiChange(i)) \/ UNCHANGED vars
    BY <2>4 DEF Tick, ApiChange, vars
  <2> QED
    BY <2>1, <2>2, <2>3, <2>4 DEF Next, Step
<1>2. CASE LockHit(t)
  <2>1. res' = Answer(call[t], servers) /\ lastUpdate # -1 /\ now < lastUpdate + CacheTimeout
    BY <1>2 DEF LockHit, Return, UpToDate, Never
  <2>2. \A i \in Id : since[i] >= lastUpdate - Latency \/ (i \in servers <=> i \in exists)
    BY <2>1 DEF AgeInv, KnownInv, Known, Never
  <2>3. \A i \in Id : now - since[i] <= CacheTimeout + Latency \/ (i \in servers <=> i \in exists)
    BY <1>0, <2>1, <2>2
  <2> QED
    BY <1>0, <2>1, <2>3
<1>3. CASE Store(t)
  <2>1. res' = Answer(call[t], resp[t]) /\ pc[t] = "store"
    BY <1>3 DEF Store, Return
  <2>2. /\ \A i \in Id : since[i] >= mark[t] \/ (i \in resp[t] <=> i \in exists)
        /\ now <= mark[t] + Latency
    BY <2>1 DEF AgeInv, KnownInv, Known, ClockInv, Requesting
  <2>3. \A i \in Id : now - since[i] <= CacheTimeout + Latency \/ (i \in resp[t] <=> i \in exists)
    BY <1>0, <2>2
  <2> QED
    BY <1>0, <2>1, <2>3
<1>4. CASE ServeReset(t)
  BY <1>4 DEF ServeReset, Return, Outcome
<1> QED
  BY <1>1, <1>2, <1>3, <1>4

\* A server that has been in the API for longer than CacheTimeout and one API
\* call is never reported as not found.
THEOREM NotFoundCorrect == Spec => NotFoundBounded
<1>1. Init => AgeInv
  BY AgeInit
<1>2. AgeInv /\ [Next]_vars => AgeInv'
  BY AgeNext
<1>3. AgeInv /\ [Next]_vars =>
        [\A t \in Thread : Returned(t, "notFound") /\ call[t].id \in exists
            => now - since[call[t].id] <= CacheTimeout + Latency]_vars
  <2> SUFFICES ASSUME AgeInv, [Next]_vars, NEW t \in Thread,
                      Returned(t, "notFound"), call[t].id \in exists
               PROVE  now - since[call[t].id] <= CacheTimeout + Latency
    OBVIOUS
  <2>1. PICK S \in SUBSET Id :
            /\ res' = Answer(call[t], S)
            /\ \A i \in Id : now - since[i] <= CacheTimeout + Latency \/ (i \in S <=> i \in exists)
    BY AnsweredFrom DEF Returned
  <2>2. call[t].id \notin S /\ call[t].id \in Id
    BY <2>1 DEF Returned, Answer, AgeInv, TypeOK
  <2> QED
    BY <2>1, <2>2
<1> QED
  BY <1>1, <1>2, <1>3, PTL DEF Spec, NotFoundBounded

\* A server that has been gone for longer than CacheTimeout and one API call
\* is not returned.
THEOREM ListCorrect == Spec => ListBounded
<1>1. Init => AgeInv
  BY AgeInit
<1>2. AgeInv /\ [Next]_vars => AgeInv'
  BY AgeNext
<1>3. AgeInv /\ [Next]_vars =>
        [\A t \in Thread : Returned(t, "values") =>
            \A i \in res'.vals \ exists : now - since[i] <= CacheTimeout + Latency]_vars
  <2> SUFFICES ASSUME AgeInv, [Next]_vars, NEW t \in Thread, Returned(t, "values"),
                      NEW i \in res'.vals \ exists
               PROVE  now - since[i] <= CacheTimeout + Latency
    OBVIOUS
  <2>1. PICK S \in SUBSET Id :
            /\ res' = Answer(call[t], S)
            /\ \A j \in Id : now - since[j] <= CacheTimeout + Latency \/ (j \in S <=> j \in exists)
    BY AnsweredFrom DEF Returned
  <2>2. i \in S
    BY <2>1 DEF Answer, Outcome
  <2> QED
    BY <2>1, <2>2
<1> QED
  BY <1>1, <1>2, <1>3, PTL DEF Spec, ListBounded

-----------------------------------------------------------------------------
(* The rate limit.  The limiter has no mutex: while the wait of a recorded  *)
(* limit lasts, both words of lastChecked and the flag say so, and nobody   *)
(* is about to clear them.                                                  *)

Clearing == {"clear", "clearWall", "clearExt"}

WaitInv ==
    /\ quietEnd <= now + WaitTime
    /\ now < quietEnd =>
        /\ exceeded = TRUE /\ wall = TRUE /\ quietEnd <= ext + WaitTime
        /\ \A t \in Thread : pc[t] \notin Clearing

\* A thread that is past its check has waited for the limit it began under;
\* one that records a limit does not shorten the wait.
PassedInv ==
    \A t \in Thread :
        /\ quiet[t] <= quietEnd
        /\ pc[t] \notin {"check", "time"} => quiet[t] <= now
        /\ pc[t] \in {"setWall", "setExt"} => mark[t] <= now /\ quietEnd <= mark[t] + WaitTime

QuietInv == TypeOK /\ WaitInv /\ PassedInv

\* Where a thread goes when isExceeded returned.
LEMMA ForwardPasses ==
    ASSUME TypeOK, NEW t \in Thread, Forward(t)
    PROVE  /\ pc'[t] \in {"reset", "lock", "idle"} /\ quiet'[t] \in {quiet[t], 0}
           /\ \A u \in Thread \ {t} : pc'[u] = pc[u] /\ quiet'[u] = quiet[u] /\ mark'[u] = mark[u]
BY DEF Forward, Goto, Return, TypeOK, callVars

LEMMA RefusePasses ==
    ASSUME TypeOK, NEW t \in Thread, Refuse(t)
    PROVE  /\ pc'[t] \in {"check", "idle"}
           /\ quiet'[t] = quiet[t] \/ (pc'[t] = "idle" /\ quiet'[t] = 0)
           /\ \A u \in Thread \ {t} : pc'[u] = pc[u] /\ quiet'[u] = quiet[u] /\ mark'[u] = mark[u]
BY DEF Refuse, Goto, Return, TypeOK

LEMMA QuietNext == QuietInv /\ [Next]_vars => QuietInv'
<1> SUFFICES ASSUME QuietInv, [Next]_vars PROVE WaitInv' /\ PassedInv'
  BY TypeNext DEF QuietInv
<1>0. /\ TypeOK /\ now \in Nat /\ WaitTime \in Nat /\ quietEnd \in Nat /\ ext \in Nat
      /\ pc \in [Thread -> PC] /\ quiet \in [Thread -> Nat] /\ mark \in [Thread -> Nat]
  BY RobotAssumption DEF RobotAssumption, QuietInv, TypeOK
<1>i. /\ quietEnd <= now + WaitTime
      /\ now < quietEnd => exceeded = TRUE /\ wall = TRUE /\ quietEnd <= ext + WaitTime
      /\ now < quietEnd => \A t \in Thread : pc[t] \notin Clearing
      /\ \A t \in Thread : quiet[t] <= quietEnd
      /\ \A t \in Thread : pc[t] \notin {"check", "time"} => quiet[t] <= now
      /\ \A t \in Thread : pc[t] \in {"setWall", "setExt"} =>
            mark[t] <= now /\ quietEnd <= mark[t] + WaitTime
  BY DEF QuietInv, WaitInv, PassedInv
<1> DEFINE Goal == WaitInv' /\ PassedInv'
           Others(t) == \A u \in Thread \ {t} :
                            pc'[u] = pc[u] /\ quiet'[u] = quiet[u] /\ mark'[u] = mark[u]
<1>1. ASSUME Tick PROVE Goal
  BY <1>0, <1>i, <1>1 DEF Tick, WaitInv, PassedInv, limitVars, callVars
<1>2. ASSUME (\E i \in Id : ApiChange(i)) \/ UNCHANGED vars PROVE Goal
  BY <1>0, <1>i, <1>2 DEF ApiChange, vars, WaitInv, PassedInv, limitVars, callVars
<1>3. ASSUME NEW t \in Thread, NEW c \in Call, Start(t, c) PROVE Goal
  BY <1>0, <1>i, <1>3 DEF Start, Goto, WaitInv, PassedInv, limitVars, Clearing
<1>4. ASSUME NEW t \in Thread, CheckFlag(t) PROVE Goal
  <2>1. /\ UNCHANGED <<now, exceeded, wall, ext, quietEnd>> /\ pc[t] = "check"
    BY <1>4 DEF CheckFlag, limitVars
  <2>2. CASE Goto(t, "time") /\ UNCHANGED callVars
    BY <1>0, <1>i, <2>1, <2>2 DEF Goto, callVars, WaitInv, PassedInv, Clearing
  <2>3. CASE exceeded # TRUE /\ Forward(t)
    <3>1. pc'[t] \in {"reset", "lock", "idle"} /\ quiet'[t] \in {quiet[t], 0} /\ Others(t)
      BY <1>0, <2>3, ForwardPasses
    <3>2. quiet[t] <= now
      <4>1. ~(now < quietEnd)
        BY <1>i, <2>3
      <4>2. quiet[t] \in Nat /\ quiet[t] <= quietEnd
        BY <1>0, <1>i
      <4> QED
        BY <1>0, <4>1, <4>2
    <3> QED
      BY <1>0, <1>i, <2>1, <3>1, <3>2 DEF WaitInv, PassedInv, Clearing
  <2> QED
    BY <1>4, <2>2, <2>3 DEF CheckFlag
<1>5. ASSUME NEW t \in Thread, CheckTime(t) PROVE Goal
  <2>1. /\ UNCHANGED <<now, exceeded, wall, ext, quietEnd>> /\ pc[t] = "time"
    BY <1>5 DEF CheckTime, limitVars
  <2>2. CASE ~Waiting(wall, ext) /\ Goto(t, "clear") /\ UNCHANGED callVars
    <3>1. ~(now < quietEnd)
      BY <1>0, <1>i, <2>2 DEF Waiting
    <3> QED
      BY <1>0, <1>i, <2>1, <2>2, <3>1 DEF Goto, callVars, WaitInv, PassedInv, Clearing
  <2>3. CASE Refuse(t)
    <3>1. /\ pc'[t] \in {"check", "idle"} /\ Others(t)
          /\ quiet'[t] = quiet[t] \/ (pc'[t] = "idle" /\ quiet'[t] = 0)
      BY <1>0, <2>3, RefusePasses
    <3>2. pc'[t] = "idle" => quiet'[t] = 0
      BY <1>0, <2>3 DEF Refuse, Goto, Return
    <3> QED
      BY <1>0, <1>i, <2>1, <3>1, <3>2 DEF WaitInv, PassedInv, Clearing
  <2> QED
    BY <1>5, <2>2, <2>3 DEF CheckTime
<1>6. ASSUME NEW t \in Thread, Clear(t) PROVE Goal
  <2>1. now' = now /\ quietEnd' = quietEnd /\ pc[t] \in Clearing
    BY <1>6 DEF Clear, Clearing
  <2>2. ~(now < quietEnd) /\ quiet[t] <= now
    BY <1>i, <2>1 DEF Clearing
  <2>3. /\ pc'[t] \notin {"check", "time", "setWall", "setExt"} /\ quiet'[t] \in {quiet[t], 0}
        /\ Others(t)
    <3>1. CASE (Goto(t, "clearWall") \/ Goto(t, "clearExt")) /\ UNCHANGED callVars
      BY <1>0, <3>1 DEF Goto, callVars
    <3>2. CASE Forward(t)
      BY <1>0, <3>2, ForwardPasses
    <3> QED
      BY <1>6, <3>1, <3>2 DEF Clear
  <2> QED
    BY <1>0, <1>i, <2>1, <2>2, <2>3 DEF WaitInv, PassedInv
<1>7. ASSUME NEW t \in Thread, Set(t) PROVE Goal
  <2>1. CASE pc[t] = "set" /\ exceeded' = TRUE /\ mark' = [mark EXCEPT ![t] = now]
             /\ Goto(t, "setWall") /\ now' = now
             /\ UNCHANGED <<wall, ext, call, round, resp, quiet, quietEnd>>
    BY <1>0, <1>i, <2>1 DEF Goto, WaitInv, PassedInv, Clearing
  <2>2. CASE pc[t] = "setWall" /\ wall' = TRUE /\ Goto(t, "setExt") /\ now' = now
             /\ UNCHANGED <<exceeded, ext, callVars, quietEnd>>
    BY <1>0, <1>i, <2>2 DEF Goto, callVars, WaitInv, PassedInv, Clearing
  <2>3. CASE pc[t] = "setExt" /\ ext' = mark[t] /\ Return(t, Outcome("error")) /\ now' = now
             /\ quietEnd' = (IF Recorded(t) THEN mark[t] + WaitTime ELSE quietEnd)
             /\ UNCHANGED <<exceeded, wall>>
    <3>1. /\ pc'[t] = "idle" /\ quiet'[t] = 0 /\ Others(t)
          /\ quietEnd <= mark[t] + WaitTime /\ mark[t] <= now
      BY <1>0, <1>i, <2>3 DEF Return
    <3>2. CASE ~Recorded(t)
      BY <1>0, <1>i, <2>3, <3>1, <3>2 DEF WaitInv, PassedInv, Clearing
    <3>3. CASE Recorded(t)
      <4>1. /\ exceeded = TRUE /\ wall = TRUE /\ quietEnd' = mark[t] + WaitTime
            /\ \A u \in Thread \ {t} : pc[u] \notin Writing
        BY <1>0, <2>3, <3>3 DEF Recorded, TypeOK
      <4> QED
        BY <1>0, <1>i, <2>3, <3>1, <3>3, <4>1 DEF WaitInv, PassedInv, Writing, Clearing
    <3> QED
      BY <3>2, <3>3
  <2> QED
    BY <1>7, <2>1, <2>2, <2>3 DEF Set
<1>8. ASSUME NEW t \in Thread,
             \/ LockHit(t) \/ LockMiss(t) \/ ServeList(t) \/ Store(t) \/ ServeReset(t)
             \/ RequestFails(t) \/ LimitHit(t)
      PROVE  Goal
  BY <1>0, <1>i, <1>8
     DEF LockHit, LockMiss, ServeList, Store, ServeReset, RequestFails, LimitHit, Goto, Return,
         limitVars, callVars, WaitInv, PassedInv, Clearing
<1> HIDE DEF Goal
<1> QED
  <2>1. Goal
    BY <1>1, <1>2, <1>3, <1>4, <1>5, <1>6, <1>7, <1>8 DEF Next, Step
  <2> QED
    BY <2>1 DEF Goal

LEMMA QuietInit == Init => QuietInv
<1> SUFFICES ASSUME Init PROVE QuietInv
  OBVIOUS
<1>1. TypeOK
  BY TypeInit
<1>2. WaitInv /\ PassedInv
  BY RobotAssumption DEF RobotAssumption, Init, WaitInv, PassedInv
<1> QED
  BY <1>1, <1>2 DEF QuietInv

\* After a limit was recorded, with no other thread writing the limiter's
\* fields at that moment, no call that begins within WaitTime is sent to the
\* API, although the limiter has no mutex and its fields are written one word
\* at a time.
THEOREM QuietCorrect == Spec => QuietAfterLimit
<1>1. Init => QuietInv
  BY QuietInit
<1>2. QuietInv /\ [Next]_vars => QuietInv'
  BY QuietNext
<1>3. QuietInv /\ [Next]_vars =>
        [\A t \in Thread : pc[t] \notin {"list", "reset"} /\ pc'[t] \in {"list", "reset"}
            => now >= quiet[t]]_vars
  <2> SUFFICES ASSUME QuietInv, [Next]_vars, NEW t \in Thread,
                      pc[t] \notin {"list", "reset"}, pc'[t] \in {"list", "reset"}
               PROVE  now >= quiet[t]
    OBVIOUS
  <2>0. /\ pc \in [Thread -> PC] /\ now \in Nat /\ quietEnd \in Nat
        /\ quiet[t] \in Nat /\ quiet[t] <= quietEnd
        /\ now < quietEnd => exceeded = TRUE
        /\ pc[t] \notin {"check", "time"} => quiet[t] <= now
    BY DEF QuietInv, TypeOK, PassedInv, WaitInv
  <2>1. CASE pc[t] \notin {"check", "time"}
    BY <2>0, <2>1
  <2>2. CASE pc[t] \in {"check", "time"}
    <3>1. ASSUME NEW u \in Thread, \/ Clear(u) \/ Set(u) \/ LockHit(u) \/ LockMiss(u) \/ ServeList(u)
                                    \/ Store(u) \/ ServeReset(u) \/ RequestFails(u) \/ LimitHit(u)
                                    \/ \E c \in Call : Start(u, c)
          PROVE  FALSE
      BY <2>0, <2>2, <3>1 DEF Clear, Set, Forward, Goto, Return, LockHit, LockMiss, ServeList, Store,
                              ServeReset, RequestFails, LimitHit, Start
    <3>2. ASSUME NEW u \in Thread, CheckTime(u) PROVE FALSE
      BY <2>0, <2>2, <3>2 DEF CheckTime, Refuse, Goto, Return
    <3>3. ASSUME NEW u \in Thread, CheckFlag(u) PROVE exceeded # TRUE
      BY <2>0, <2>2, <3>3 DEF CheckFlag, Goto
    <3>4. ASSUME Tick \/ (\E i \in Id : ApiChange(i)) \/ UNCHANGED vars PROVE FALSE
      BY <3>4 DEF Tick, ApiChange, vars
    <3>5. exceeded # TRUE
      BY <3>1, <3>2, <3>3, <3>4 DEF Next, Step
    <3>6. ~(now < quietEnd)
      BY <2>0, <3>5, Zenon
    <3> QED
      BY <2>0, <3>6
  <2> QED
    BY <2>1, <2>2
<1> QED
  BY <1>1, <1>2, <1>3, PTL DEF Spec, QuietAfterLimit
=============================================================================
