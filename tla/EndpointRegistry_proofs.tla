----------------------- MODULE EndpointRegistry_proofs -----------------------
(***************************************************************************)
(* The safety of the endpoint list: EndpointRegistry, which keeps it in    *)
(* memory with a controller for each entry, and ConfigStore, which keeps   *)
(* it on disk.                                                             *)
(*                                                                         *)
(* RegistryInv says who has each controller and each output: the registry, *)
(* a call an event has still to make, the reaper's queue or its thread,    *)
(* and only one of them.  The properties the runs check follow from it.    *)
(***************************************************************************)
EXTENDS EndpointRegistry, ConfigStore, FiniteSetTheorems, SequenceTheorems, WellFoundedInduction,
        TLAPS

(* The registry is there until its destructor runs. *)
InRegistry == module \in {"loaded", "exited"}

DistinctIds == \A i, j \in DOMAIN endpoints : endpoints[i].id = endpoints[j].id => i = j

HandsOver(call) == call.do \in {"hand_over", "enqueue"}

(* What the calls of an event still to be made look like. *)
CallFits(i) ==
    LET call == todo[i] IN
    /\ call.do \in {"update", "start"} => module = "loaded" /\ call.ep \in Endpoint /\ call.ep.id \in Known
    /\ call.do = "update" => i = Len(todo)
    /\ HandsOver(call) =>
          call.ctrl \in Controllers /\ (i = 1 \/ module = "unloading")
    /\ call.do = "enqueue" => i = 1 /\ status[call.ctrl] = "Idle" /\ output[call.ctrl] = None
    /\ call.do = "stop" =>
          \E j \in DOMAIN todo : i < j /\ HandsOver(todo[j]) /\ todo[j].ctrl = call.ctrl
    /\ call.do = "shutdown" => module = "unloading" /\ i = Len(todo) - 1
    /\ call.do = "join" => module = "unloading" /\ i = Len(todo)

Script == \A i \in DOMAIN todo : CallFits(i)

(* The reaper is shut down once nothing can be handed over any more. *)
Closing ==
    /\ module = "unloading" =>
          /\ todo # <<>> /\ todo[Len(todo)].do = "join"
          /\ shuttingDown => Len(todo) = 1
          /\ ~shuttingDown => Len(todo) >= 2 /\ todo[Len(todo) - 1].do = "shutdown"
    /\ module = "unloaded" => todo = <<>> /\ exited
    /\ shuttingDown => module \in {"unloading", "unloaded"}
    /\ exited => shuttingDown /\ queue = <<>> /\ running = NoJob

(* Who has a controller: the registry, a call still to be made, or a job. *)
Registered(c) == InRegistry /\ \E i \in DOMAIN endpoints : controllers[endpoints[i].id] = c
Moving(c) == \E i \in DOMAIN todo : HandsOver(todo[i]) /\ todo[i].ctrl = c
Queued(c) == \E i \in DOMAIN queue : queue[i].ctrl = c
Runs(c) == Working /\ running.ctrl = c

MovesOnce(c) ==
    \A i, j \in DOMAIN todo :
        HandsOver(todo[i]) /\ HandsOver(todo[j]) /\ todo[i].ctrl = c /\ todo[j].ctrl = c => i = j
QueuedOnce(c) == \A i, j \in DOMAIN queue : queue[i].ctrl = c /\ queue[j].ctrl = c => i = j

(* Each controller that is not free has one of them, and only one. *)
OneHolder(c) ==
    /\ status[c] # "free" <=> Registered(c) \/ Moving(c) \/ Queued(c) \/ Runs(c)
    /\ Registered(c) => ~Moving(c) /\ ~Queued(c) /\ ~Runs(c)
    /\ Moving(c) => ~Queued(c) /\ ~Runs(c)
    /\ Queued(c) => ~Runs(c)
    /\ MovesOnce(c) /\ QueuedOnce(c)

ControllersHeld == \A c \in Controllers : OneHolder(c)

(* Who has an output: a controller or a job. *)
Owned(o) == \E c \in Controllers : output[c] = o
OutputQueued(o) == \E i \in DOMAIN queue : queue[i].output = o
OutputRuns(o) == Working /\ running.output = o

OwnedOnce(o) == \A c, d \in Controllers : output[c] = o /\ output[d] = o => c = d
OutputQueuedOnce(o) == \A i, j \in DOMAIN queue : queue[i].output = o /\ queue[j].output = o => i = j

OneOwner(o) ==
    /\ phase[o] # "absent" <=> Owned(o) \/ OutputQueued(o) \/ OutputRuns(o)
    /\ Owned(o) => ~OutputQueued(o) /\ ~OutputRuns(o)
    /\ OutputQueued(o) => ~OutputRuns(o)
    /\ OwnedOnce(o) /\ OutputQueuedOnce(o)

OutputsHeld == \A o \in Outputs : OneOwner(o)

(* A controller was made from its endpoint as it is now, *)
Matched ==
    InRegistry =>
        /\ \A id \in Ids : controllers[id] # None <=> id \in Known
        /\ \A i \in DOMAIN endpoints : settings[controllers[endpoints[i].id]] = endpoints[i]
        /\ \A i, j \in DOMAIN endpoints :
              controllers[endpoints[i].id] = controllers[endpoints[j].id] => i = j

(* the output it has streams to that endpoint, *)
Served == \A c \in Controllers : output[c] # None => service[output[c]] = settings[c]

(* and one that is handed over or free has nothing left to stop. *)
Left(c) ==
    /\ status[c] = "free" => output[c] = None
    /\ Queued(c) \/ Runs(c) => status[c] = "Idle" /\ output[c] = None

NothingLeft == \A c \in Controllers : Left(c)

(* A change that is not scheduled yet has its persist() to come. *)
Scheduling == scheduled = endpoints \/ \E i \in DOMAIN todo : todo[i].do = "persist"

RegistryInv ==
    /\ TypeOK /\ DistinctIds /\ Script /\ Closing /\ ControllersHeld /\ OutputsHeld
    /\ Matched /\ Served /\ NothingLeft /\ Scheduling /\ LinkedStartsDistinct

USE DEF registryVars, controllerVars, outputVars, reaperVars

-----------------------------------------------------------------------------
(* Sequences.                                                              *)

LEMMA EmptyTyped == ASSUME NEW S PROVE <<>> \in Seq(S) /\ DOMAIN <<>> = {}
OBVIOUS

LEMMA AppendTyped == ASSUME NEW S, NEW s \in Seq(S), NEW x \in S PROVE Append(s, x) \in Seq(S)
OBVIOUS

LEMMA TailTyped == ASSUME NEW S, NEW s \in Seq(S), s # <<>> PROVE Tail(s) \in Seq(S) /\ Head(s) \in S
BY HeadTailProperties

LEMMA ConcatTyped ==
    ASSUME NEW S, NEW s \in Seq(S), NEW t \in Seq(S)
    PROVE  /\ s \o t \in Seq(S) /\ <<>> \o t = t
           /\ Len(s) \in Nat /\ DOMAIN s = 1..Len(s) /\ Len(t) \in Nat /\ DOMAIN t = 1..Len(t)
           /\ Len(s \o t) = Len(s) + Len(t) /\ DOMAIN (s \o t) = 1..(Len(s) + Len(t))
           /\ \A i \in 1..Len(s) : (s \o t)[i] = s[i]
           /\ \A i \in 1..Len(t) : (s \o t)[Len(s) + i] = t[i]
<1>1. Len(s) \in Nat /\ DOMAIN s = 1..Len(s) /\ Len(t) \in Nat /\ DOMAIN t = 1..Len(t)
  OBVIOUS
<1>2. /\ s \o t \in Seq(S) /\ Len(s \o t) = Len(s) + Len(t)
      /\ \A i \in 1..(Len(s) + Len(t)) : (s \o t)[i] = IF i <= Len(s) THEN s[i] ELSE t[i - Len(s)]
  BY ConcatProperties
<1>3. <<>> \o t = t
  BY ConcatEmptySeq
<1>4. DOMAIN (s \o t) = 1..(Len(s) + Len(t))
  BY <1>2
<1>5. ASSUME NEW i \in 1..Len(t) PROVE (s \o t)[Len(s) + i] = t[i]
  <2>1. Len(s) + i \in 1..(Len(s) + Len(t)) /\ ~(Len(s) + i <= Len(s)) /\ (Len(s) + i) - Len(s) = i
    BY <1>1
  <2> QED BY <1>2, <2>1
<1>6. ASSUME NEW i \in 1..Len(s) PROVE (s \o t)[i] = s[i]
  BY <1>1, <1>2
<1> QED BY <1>1, <1>2, <1>3, <1>4, <1>5, <1>6

LEMMA AppendAt ==
    ASSUME NEW S, NEW q \in Seq(S), NEW x
    PROVE  /\ DOMAIN Append(q, x) = DOMAIN q \cup {Len(q) + 1} /\ Len(q) + 1 \notin DOMAIN q
           /\ \A i \in DOMAIN q : Append(q, x)[i] = q[i]
           /\ Append(q, x)[Len(q) + 1] = x
OBVIOUS

LEMMA TailAt ==
    ASSUME NEW S, NEW q \in Seq(S), q # <<>>
    PROVE  /\ 1 \in DOMAIN q /\ Head(q) = q[1] /\ DOMAIN q \subseteq Nat
           /\ \A i \in DOMAIN Tail(q) : i \in Nat /\ i + 1 \in DOMAIN q /\ i + 1 # 1 /\ Tail(q)[i] = q[i + 1]
           /\ \A i \in DOMAIN q : i # 1 => i - 1 \in DOMAIN Tail(q) /\ Tail(q)[i - 1] = q[i]
<1>1. Len(q) \in Nat /\ Len(q) # 0 /\ DOMAIN q = 1..Len(q)
  BY EmptySeq
<1>2. Len(Tail(q)) = Len(q) - 1 /\ DOMAIN Tail(q) = 1..(Len(q) - 1)
      /\ \A i \in 1..(Len(q) - 1) : Tail(q)[i] = q[i + 1]
  BY <1>1, HeadTailProperties
<1>3. Head(q) = q[1]
  OBVIOUS
<1>4. \A i \in DOMAIN q : i # 1 => i - 1 \in 1..(Len(q) - 1) /\ (i - 1) + 1 = i
  BY <1>1
<1>5. \A i \in 1..(Len(q) - 1) : i \in Nat /\ i + 1 \in 1..Len(q) /\ i + 1 # 1
  BY <1>1
<1>6. 1 \in DOMAIN q /\ DOMAIN q \subseteq Nat
  BY <1>1
<1>7. ASSUME NEW i \in DOMAIN Tail(q)
      PROVE  i \in Nat /\ i + 1 \in DOMAIN q /\ i + 1 # 1 /\ Tail(q)[i] = q[i + 1]
  BY <1>1, <1>2, <1>5, <1>7
<1>8. ASSUME NEW i \in DOMAIN q, i # 1
      PROVE  i - 1 \in DOMAIN Tail(q) /\ Tail(q)[i - 1] = q[i]
  BY <1>1, <1>2, <1>4, <1>8
<1> QED BY <1>3, <1>6, <1>7, <1>8

(* RemoveAt drops one element and keeps the others. *)
LEMMA RemoveAtTyped ==
    ASSUME NEW S, NEW s \in Seq(S), NEW k \in DOMAIN s
    PROVE  /\ RemoveAt(s, k) \in Seq(S)
           /\ DOMAIN RemoveAt(s, k) = 1..(Len(s) - 1) /\ Len(s) \in Nat /\ DOMAIN s = 1..Len(s)
           /\ \A i \in 1..(Len(s) - 1) : RemoveAt(s, k)[i] = IF i < k THEN s[i] ELSE s[i + 1]
<1>1. Len(s) \in Nat /\ DOMAIN s = 1..Len(s) /\ k \in 1..Len(s)
  OBVIOUS
<1>2. PICK u, v : u = SubSeq(s, 1, k - 1) /\ v = SubSeq(s, k + 1, Len(s))
  OBVIOUS
<1>3. u \in Seq(S) /\ Len(u) = k - 1 /\ \A i \in 1..(k - 1) : u[i] = s[i]
  BY <1>1, <1>2, SubSeqProperties
<1>4. v \in Seq(S) /\ Len(v) = Len(s) - k /\ \A i \in 1..(Len(s) - k) : v[i] = s[k + i]
  BY <1>1, <1>2, SubSeqProperties
<1>5. RemoveAt(s, k) = u \o v
  BY <1>2 DEF RemoveAt
<1>6. /\ u \o v \in Seq(S) /\ DOMAIN (u \o v) = 1..(Len(u) + Len(v))
      /\ \A i \in 1..Len(u) : (u \o v)[i] = u[i]
      /\ \A i \in 1..Len(v) : (u \o v)[Len(u) + i] = v[i]
  <2>1. u \in Seq(S) /\ v \in Seq(S)
    BY <1>3, <1>4
  <2> QED BY <2>1, ConcatTyped
<1>7. ASSUME NEW i \in 1..(Len(s) - 1) PROVE (u \o v)[i] = IF i < k THEN s[i] ELSE s[i + 1]
  <2>1. CASE i < k
    BY <1>1, <1>3, <1>6, <2>1
  <2>2. CASE ~(i < k)
    <3>0. i - (k - 1) \in 1..(Len(s) - k) /\ i = (k - 1) + (i - (k - 1)) /\ k + (i - (k - 1)) = i + 1
      BY <1>1, <2>2
    <3>1. PICK j \in 1..(Len(s) - k) : i = Len(u) + j /\ k + j = i + 1
      BY <1>3, <3>0
    <3>2. j \in 1..Len(v)
      BY <1>4
    <3>3. (u \o v)[i] = v[j] /\ v[j] = s[k + j]
      BY <1>4, <1>6, <3>1, <3>2
    <3> QED BY <2>2, <3>1, <3>3
  <2> QED BY <2>1, <2>2
<1>8. Len(u) + Len(v) = Len(s) - 1
  BY <1>1, <1>3, <1>4
<1> QED BY <1>1, <1>5, <1>6, <1>7, <1>8

LEMMA ReverseTyped ==
    ASSUME NEW S, NEW s \in Seq(S)
    PROVE  /\ Reverse(s) \in Seq(S) /\ DOMAIN Reverse(s) = DOMAIN s
           /\ \A i \in DOMAIN s : (Len(s) - i) + 1 \in DOMAIN s /\ Reverse(s)[i] = s[(Len(s) - i) + 1]
                                  /\ i \in Nat /\ (Len(s) - ((Len(s) - i) + 1)) + 1 = i
BY DEF Reverse

-----------------------------------------------------------------------------
(* Records, choices and lookups.                                           *)

Do == {"update", "persist", "stop", "stop_running", "hand_over", "enqueue", "start", "shutdown",
       "join"}

LEMMA CallTyped ==
    ASSUME NEW do \in Do, NEW c \in Controllers \cup {None}, NEW ep \in Endpoint \cup {None}
    PROVE  /\ Call(do, c, ep) \in CallType
           /\ Call(do, c, ep).do = do /\ Call(do, c, ep).ctrl = c /\ Call(do, c, ep).ep = ep
BY DEF Do, Call, CallType

LEMMA JobTyped ==
    ASSUME NEW c \in Controllers \cup {None}, NEW o \in Outputs \cup {None}
    PROVE  /\ Job(c, o) \in JobType /\ Job(c, o) # NoJob
           /\ Job(c, o).ctrl = c /\ Job(c, o).output = o
BY NoJobAssumption DEF Job, JobType

LEMMA FreshIn == ASSUME NEW pool, pool # {} PROVE Fresh(pool) \in pool
BY DEF Fresh

LEMMA Found ==
    ASSUME endpoints \in Seq(Endpoint), DistinctIds
    PROVE  /\ \A i \in DOMAIN endpoints :
                 /\ endpoints[i] \in Endpoint /\ endpoints[i].id \in Known \cap Ids
                 /\ EndpointOf(endpoints[i].id) = endpoints[i]
           /\ \A id \in Known : \E i \in DOMAIN endpoints :
                 endpoints[i].id = id /\ EndpointOf(id) = endpoints[i]
           /\ Known \subseteq Ids
<1>1. \A i \in DOMAIN endpoints : endpoints[i] \in Endpoint
  OBVIOUS
<1>2. \A i \in DOMAIN endpoints : endpoints[i].id \in Known \cap Ids
  BY <1>1 DEF Known, Endpoint
<1>3. ASSUME NEW i \in DOMAIN endpoints PROVE EndpointOf(endpoints[i].id) = endpoints[i]
  <2>1. \E ep \in {endpoints[j] : j \in DOMAIN endpoints} : ep.id = endpoints[i].id
    OBVIOUS
  <2>2. EndpointOf(endpoints[i].id) \in {endpoints[j] : j \in DOMAIN endpoints}
        /\ EndpointOf(endpoints[i].id).id = endpoints[i].id
    BY <2>1 DEF EndpointOf
  <2>3. PICK j \in DOMAIN endpoints : EndpointOf(endpoints[i].id) = endpoints[j]
    BY <2>2
  <2> QED BY <2>2, <2>3 DEF DistinctIds
<1>4. \A id \in Known : \E i \in DOMAIN endpoints : endpoints[i].id = id
  BY DEF Known
<1> QED BY <1>1, <1>2, <1>3, <1>4

-----------------------------------------------------------------------------
(* The plan of a linked start.                                             *)

(* What plan_linked_start() has accepted of the first k endpoints. *)
IsPlan(plan, k, main) ==
    plan = [n \in 0..k |-> IF n = 0 THEN <<>> ELSE Accept(plan[n - 1], endpoints[n], main)]

(* A list of endpoints in the registry of which no two share a server and key. *)
Planned(s) ==
    /\ s \in Seq(Endpoint)
    /\ \A i \in DOMAIN s : s[i].id \in Known
    /\ \A i, j \in DOMAIN s : IsDuplicateTarget(s[i].target, s[j].target) => i = j

LEMMA Smallest == ASSUME NEW S \in SUBSET Nat, S # {} PROVE \E n \in S : \A m \in S : n <= m
<1> DEFINE R == {ss \in Nat \X Nat : ss[1] < ss[2]}
<1>1. IsWellFoundedOn(R, Nat)
  BY NatLessThanWellFounded, Zenon DEF OpToRel
<1>2. \A m, n \in Nat : m < n => <<m, n>> \in R
  OBVIOUS
<1> HIDE DEF R
<1>3. \E x \in S : \A y \in S : ~(<<y, x>> \in R)
  BY <1>1, WFMin
<1>4. PICK x \in S : \A y \in S : ~(<<y, x>> \in R)
  BY <1>3
<1>5. \A y \in S : ~(y < x)
  BY <1>2, <1>4
<1> QED BY <1>5

(* The plan exists: otherwise there were a first k without one. *)
LEMMA PlanExists == ASSUME NEW main, NEW N \in Nat PROVE \E plan : IsPlan(plan, N, main)
<1> DEFINE Bad == {k \in Nat : ~\E plan : IsPlan(plan, k, main)}
<1>1. SUFFICES ASSUME Bad # {} PROVE FALSE
  OBVIOUS
<1>2. PICK k \in Bad : \A m \in Bad : k <= m
  BY <1>1, Smallest
<1>3. CASE k = 0
  <2> DEFINE g == [n \in 0..0 |-> <<>>]
  <2>1. g = [n \in 0..0 |-> IF n = 0 THEN <<>> ELSE Accept(g[n - 1], endpoints[n], main)]
    OBVIOUS
  <2> QED BY <1>2, <1>3, <2>1 DEF IsPlan
<1>4. CASE k # 0
  <2>1. k \in Nat /\ k - 1 \in Nat /\ ~(k <= k - 1)
    BY <1>2, <1>4
  <2>2. PICK f : IsPlan(f, k - 1, main)
    BY <1>2, <2>1
  <2> DEFINE g == [n \in 0..k |-> IF n = k THEN Accept(f[k - 1], endpoints[k], main) ELSE f[n]]
  <2>3. ASSUME NEW n \in 0..k
        PROVE  g[n] = IF n = 0 THEN <<>> ELSE Accept(g[n - 1], endpoints[n], main)
    <3>1. CASE n = k
      <4>1. n # 0 /\ n - 1 \in 0..k /\ n - 1 # k
        BY <1>4, <2>1, <3>1
      <4> QED BY <3>1, <4>1
    <3>2. CASE n # k
      <4>1. n \in 0..(k - 1) /\ (n # 0 => n - 1 \in 0..k /\ n - 1 # k)
        BY <2>1, <3>2
      <4>2. f[n] = IF n = 0 THEN <<>> ELSE Accept(f[n - 1], endpoints[n], main)
        BY <2>2, <4>1 DEF IsPlan
      <4> QED BY <3>2, <4>1, <4>2
    <3> QED BY <3>1, <3>2
  <2>4. IsPlan(g, k, main)
    BY <2>3 DEF IsPlan
  <2> QED BY <1>2, <2>4
<1> QED BY <1>3, <1>4

LEMMA AcceptPlanned ==
    ASSUME NEW s, Planned(s), NEW ep \in Endpoint, ep.id \in Known, NEW main
    PROVE  Planned(Accept(s, ep, main))
<1>1. CASE Accept(s, ep, main) = s
  BY <1>1
<1>2. CASE Accept(s, ep, main) # s
  <2>1. /\ Accept(s, ep, main) = Append(s, ep)
        /\ \A i \in DOMAIN s : ~IsDuplicateTarget(ep.target, s[i].target)
    BY <1>2 DEF Accept
  <2>2. s \in Seq(Endpoint)
    BY DEF Planned
  <2>3. Append(s, ep) \in Seq(Endpoint)
    BY <2>2, AppendTyped
  <2>4. /\ DOMAIN Append(s, ep) = DOMAIN s \cup {Len(s) + 1} /\ Append(s, ep)[Len(s) + 1] = ep
        /\ \A i \in DOMAIN s : Append(s, ep)[i] = s[i]
    BY <2>2, AppendAt
  <2>5. \A i \in DOMAIN s : ~IsDuplicateTarget(s[i].target, ep.target)
    BY <2>1 DEF IsDuplicateTarget
  <2> QED BY <2>1, <2>3, <2>4, <2>5 DEF Planned
<1> QED BY <1>1, <1>2

LEMMA PlanOK ==
    ASSUME endpoints \in Seq(Endpoint), NEW main
    PROVE  Planned(PlanLinkedStart(main))
<1>1. Len(endpoints) \in Nat /\ DOMAIN endpoints = 1..Len(endpoints)
  OBVIOUS
<1>2. PICK plan : /\ IsPlan(plan, Len(endpoints), main)
                  /\ PlanLinkedStart(main) = plan[Len(endpoints)]
  <2> DEFINE P == CHOOSE plan : IsPlan(plan, Len(endpoints), main)
  <2>1. IsPlan(P, Len(endpoints), main)
    BY <1>1, PlanExists
  <2>2. PlanLinkedStart(main) = P[Len(endpoints)]
    BY DEF PlanLinkedStart, IsPlan
  <2> QED BY <2>1, <2>2
<1> DEFINE Bad == {n \in 0..Len(endpoints) : ~Planned(plan[n])}
<1>3. SUFFICES ASSUME Bad # {} PROVE FALSE
  BY <1>1, <1>2
<1>4. PICK n \in Bad : \A m \in Bad : n <= m
  <2>1. Bad \in SUBSET Nat
    BY <1>1
  <2> QED BY <1>3, <2>1, Smallest
<1>5. plan[n] = IF n = 0 THEN <<>> ELSE Accept(plan[n - 1], endpoints[n], main)
  BY <1>2, <1>4 DEF IsPlan
<1>6. CASE n = 0
  <2>1. plan[n] = <<>>
    BY <1>5, <1>6
  <2>2. Planned(<<>>)
    BY EmptyTyped DEF Planned
  <2> QED BY <1>4, <2>1, <2>2
<1>7. CASE n # 0
  <2>1. n - 1 \in 0..Len(endpoints) /\ n \in DOMAIN endpoints /\ ~(n <= n - 1)
    BY <1>1, <1>4, <1>7
  <2>2. Planned(plan[n - 1])
    BY <1>4, <2>1
  <2>3. endpoints[n] \in Endpoint /\ endpoints[n].id \in Known
    BY <2>1 DEF Known
  <2> QED BY <1>4, <1>5, <1>7, <2>2, <2>3, AcceptPlanned
<1> QED BY <1>6, <1>7

-----------------------------------------------------------------------------
(* The types.                                                              *)

Status == {"free", "Idle", "Starting", "Live", "Reconnecting", "FailedHard"}

LEMMA Returned ==
    ASSUME todo \in Seq(CallType), todo # <<>>, Return
    PROVE  /\ todo' = Tail(todo) /\ todo' \in Seq(CallType)
           /\ 1 \in DOMAIN todo /\ Head(todo) = todo[1] /\ todo[1] \in CallType
           /\ Len(todo) \in Nat /\ Len(todo') = Len(todo) - 1
           /\ \A i \in DOMAIN todo' : i \in Nat /\ i + 1 \in DOMAIN todo /\ i + 1 # 1
                                      /\ todo'[i] = todo[i + 1]
           /\ \A i \in DOMAIN todo : i # 1 => i - 1 \in DOMAIN todo' /\ todo'[i - 1] = todo[i]
<1>1. Tail(todo) \in Seq(CallType) /\ Head(todo) \in CallType
  BY TailTyped
<1>2. todo' = Tail(todo)
  BY <1>1, ConcatTyped DEF Return, Then
<1>3. Len(todo) \in Nat /\ Len(Tail(todo)) = Len(todo) - 1
  BY HeadTailProperties
<1> QED BY <1>1, <1>2, <1>3, TailAt

LEMMA QueueGrown ==
    ASSUME queue \in Seq(JobType), NEW job \in JobType, Enqueue(job)
    PROVE  /\ queue' \in Seq(JobType) /\ ~shuttingDown
           /\ DOMAIN queue' = DOMAIN queue \cup {Len(queue) + 1} /\ Len(queue) + 1 \notin DOMAIN queue
           /\ \A i \in DOMAIN queue : queue'[i] = queue[i]
           /\ queue'[Len(queue) + 1] = job
           /\ UNCHANGED <<running, shuttingDown, exited>>
<1>1. queue' = Append(queue, job) /\ ~shuttingDown /\ UNCHANGED <<running, shuttingDown, exited>>
  BY DEF Enqueue
<1>2. queue' \in Seq(JobType)
  BY <1>1, AppendTyped
<1> QED BY <1>1, <1>2, AppendAt

LEMMA QueueTaken ==
    ASSUME queue \in Seq(JobType), Take
    PROVE  /\ queue' \in Seq(JobType) /\ running' \in JobType /\ running' # NoJob
           /\ running = NoJob /\ ~exited /\ UNCHANGED <<shuttingDown, exited>>
           /\ 1 \in DOMAIN queue /\ running' = queue[1]
           /\ \A i \in DOMAIN queue' : i \in Nat /\ i + 1 \in DOMAIN queue /\ i + 1 # 1
                                       /\ queue'[i] = queue[i + 1]
           /\ \A i \in DOMAIN queue : i # 1 => i - 1 \in DOMAIN queue' /\ queue'[i - 1] = queue[i]
<1>1. /\ queue # <<>> /\ queue' = Tail(queue) /\ running' = Head(queue)
      /\ running = NoJob /\ ~exited /\ UNCHANGED <<shuttingDown, exited>>
  BY DEF Take
<1>2. Tail(queue) \in Seq(JobType) /\ Head(queue) \in JobType
  BY <1>1, TailTyped
<1> QED BY <1>1, <1>2, TailAt, NoJobAssumption

LEMMA NewTyped ==
    ASSUME TypeOK, NEW ep \in Endpoint, NewController(ep)
    PROVE  /\ controllers' \in [Ids -> Controllers \cup {None}]
           /\ status' \in [Controllers -> Status] /\ settings' \in [Controllers -> Endpoint \cup {None}]
           /\ \E c \in Controllers :
                 /\ status[c] = "free"
                 /\ controllers' = [controllers EXCEPT ![ep.id] = c]
                 /\ status' = [status EXCEPT ![c] = "Idle"]
                 /\ settings' = [settings EXCEPT ![c] = ep]
<1>1. Fresh(FreeControllers) \in FreeControllers
  BY FreshIn DEF NewController
<1>2. PICK c \in Controllers :
         /\ status[c] = "free"
         /\ controllers' = [controllers EXCEPT ![ep.id] = c]
         /\ status' = [status EXCEPT ![c] = "Idle"]
         /\ settings' = [settings EXCEPT ![c] = ep]
  BY <1>1 DEF NewController, FreeControllers
<1> QED BY <1>2 DEF TypeOK, Status

(* Init gives every endpoint a controller of its own. *)
LEMMA InitGives ==
    ASSUME Init
    PROVE  \E f \in [Known -> Controllers] :
              /\ \A id, other \in Known : f[id] = f[other] => id = other
              /\ controllers = [id \in Ids |-> IF id \in Known THEN f[id] ELSE None]
              /\ \A id \in Known : settings[f[id]] = EndpointOf(id)
              /\ \A c \in Controllers : status[c] # "free" <=> \E id \in Known : f[id] = c
              /\ status \in [Controllers -> {"free", "Idle"}] /\ settings \in [Controllers -> Endpoint \cup {None}]
              /\ output = [c \in Controllers |-> None]
<1> DEFINE f == Fresh(Injection(Known, Controllers))
<1>1. f \in Injection(Known, Controllers)
  <2>1. Injection(Known, Controllers) # {}
    BY DEF Init
  <2> QED BY <2>1, FreshIn
<1>2. f \in [Known -> Controllers] /\ \A id, other \in Known : f[id] = f[other] => id = other
  BY <1>1 DEF Injection, IsInjective
<1>3. /\ controllers = [id \in Ids |-> IF id \in Known THEN f[id] ELSE None]
      /\ status = [c \in Controllers |-> IF c \in Range(f) THEN "Idle" ELSE "free"]
      /\ settings = [c \in Controllers |->
            IF c \in Range(f) THEN EndpointOf(CHOOSE id \in Known : f[id] = c) ELSE None]
      /\ output = [c \in Controllers |-> None]
  BY DEF Init
<1> HIDE DEF f
<1>4. \A c : c \in Range(f) <=> \E id \in Known : f[id] = c
  BY <1>2 DEF Range
<1>5. ASSUME NEW c \in Range(f)
      PROVE  \E id \in Known : f[id] = c /\ (CHOOSE x \in Known : f[x] = c) = id
  BY <1>4
<1>6. \A id \in Known : settings[f[id]] = EndpointOf(id)
  BY <1>2, <1>3, <1>4, <1>5
<1>7. /\ \A c \in Controllers : status[c] # "free" <=> \E id \in Known : f[id] = c
      /\ status \in [Controllers -> {"free", "Idle"}]
  BY <1>3, <1>4
<1>8. settings \in [Controllers -> Endpoint \cup {None}]
  <2>1. endpoints \in Seq(Endpoint) /\ DistinctIds
    BY LoadedAssumption DEF Init, DistinctIds
  <2>2. \A c \in Range(f) : EndpointOf(CHOOSE x \in Known : f[x] = c) \in Endpoint
    BY <1>5, <2>1, Found
  <2> QED BY <1>3, <2>2
<1> QED BY <1>2, <1>3, <1>6, <1>7, <1>8

LEMMA InitTyped == Init => TypeOK /\ DistinctIds
<1> SUFFICES ASSUME Init PROVE TypeOK /\ DistinctIds
  OBVIOUS
<1>1. endpoints \in Seq(Endpoint) /\ scheduled = endpoints /\ DistinctIds
  BY LoadedAssumption DEF Init, DistinctIds
<1>2. PICK f \in [Known -> Controllers] :
         /\ controllers = [id \in Ids |-> IF id \in Known THEN f[id] ELSE None]
         /\ status \in [Controllers -> {"free", "Idle"}] /\ settings \in [Controllers -> Endpoint \cup {None}]
  BY InitGives
<1>3. controllers \in [Ids -> Controllers \cup {None}] /\ status \in [Controllers -> Status]
  BY <1>2 DEF Status
<1>4. todo = <<>> /\ todo \in Seq(CallType) /\ queue = <<>> /\ queue \in Seq(JobType)
  BY EmptyTyped DEF Init, ReaperInit
<1> QED BY <1>1, <1>2, <1>3, <1>4 DEF Init, ReaperInit, TypeOK, Status

-----------------------------------------------------------------------------
(* The calls an event leaves to make.                                      *)

LEMMA OneCall ==
    ASSUME NEW a \in CallType
    PROVE  /\ <<a>> \in Seq(CallType) /\ DOMAIN <<a>> = {1} /\ Len(<<a>>) = 1 /\ <<a>>[1] = a
           /\ <<a>> # <<>>
OBVIOUS

LEMMA TwoCalls ==
    ASSUME NEW a \in CallType, NEW b \in CallType
    PROVE  /\ <<a, b>> \in Seq(CallType) /\ DOMAIN <<a, b>> = {1, 2} /\ Len(<<a, b>>) = 2
           /\ <<a, b>>[1] = a /\ <<a, b>>[2] = b
OBVIOUS

(* A sequence and one more element. *)
LEMMA OneMore ==
    ASSUME NEW S, NEW u \in Seq(S), NEW v \in Seq(S), Len(v) = 1
    PROVE  /\ u \o v \in Seq(S) /\ Len(u \o v) = Len(u) + 1
           /\ DOMAIN (u \o v) = 1..(Len(u) + 1)
           /\ \A i \in 1..Len(u) : (u \o v)[i] = u[i]
           /\ (u \o v)[Len(u) + 1] = v[1]
<1>1. Len(u) \in Nat /\ DOMAIN u = 1..Len(u)
  OBVIOUS
<1>2. /\ u \o v \in Seq(S) /\ Len(u \o v) = Len(u) + Len(v)
      /\ \A i \in 1..(Len(u) + Len(v)) : (u \o v)[i] = IF i <= Len(u) THEN u[i] ELSE v[i - Len(u)]
  BY ConcatProperties
<1>3. PICK w : w = u \o v
  OBVIOUS
<1>4. /\ w \in Seq(S) /\ Len(w) = Len(u) + 1
      /\ \A i \in 1..(Len(u) + 1) : w[i] = IF i <= Len(u) THEN u[i] ELSE v[i - Len(u)]
  BY <1>2, <1>3
<1>5. DOMAIN w = 1..(Len(u) + 1)
  BY <1>4
<1>6. ASSUME NEW i \in 1..Len(u) PROVE w[i] = u[i]
  BY <1>1, <1>4
<1>7. w[Len(u) + 1] = v[1]
  <2>1. Len(u) + 1 \in 1..(Len(u) + 1) /\ ~(Len(u) + 1 <= Len(u)) /\ (Len(u) + 1) - Len(u) = 1
    BY <1>1
  <2> QED BY <1>4, <2>1
<1> QED BY <1>3, <1>4, <1>5, <1>6, <1>7

LEMMA PairOfCalls ==
    ASSUME NEW a \in CallType, NEW b \in CallType
    PROVE  /\ <<a>> \o <<b>> \in Seq(CallType)
           /\ Len(<<a>> \o <<b>>) = 2 /\ DOMAIN (<<a>> \o <<b>>) = 1..2
           /\ (<<a>> \o <<b>>)[1] = a /\ (<<a>> \o <<b>>)[2] = b
<1>1. PICK u, v : u = <<a>> /\ v = <<b>>
  OBVIOUS
<1>2. /\ u \in Seq(CallType) /\ Len(u) = 1 /\ u[1] = a
      /\ v \in Seq(CallType) /\ Len(v) = 1 /\ v[1] = b
  BY <1>1, OneCall
<1>3. /\ u \o v \in Seq(CallType) /\ Len(u \o v) = Len(u) + 1 /\ DOMAIN (u \o v) = 1..(Len(u) + 1)
      /\ \A i \in 1..Len(u) : (u \o v)[i] = u[i]
      /\ (u \o v)[Len(u) + 1] = v[1]
  BY <1>2, OneMore
<1>4. /\ u \o v \in Seq(CallType) /\ Len(u \o v) = 2 /\ DOMAIN (u \o v) = 1..2
      /\ (u \o v)[1] = a /\ (u \o v)[2] = b
  BY <1>2, <1>3
<1> QED BY <1>1, <1>4

LEMMA TripleOfCalls ==
    ASSUME NEW a \in CallType, NEW b \in CallType, NEW c \in CallType
    PROVE  /\ <<a>> \o <<b>> \o <<c>> \in Seq(CallType)
           /\ Len(<<a>> \o <<b>> \o <<c>>) = 3 /\ DOMAIN (<<a>> \o <<b>> \o <<c>>) = 1..3
           /\ (<<a>> \o <<b>> \o <<c>>)[1] = a /\ (<<a>> \o <<b>> \o <<c>>)[2] = b
           /\ (<<a>> \o <<b>> \o <<c>>)[3] = c
<1>1. PICK u, v : u = <<a>> \o <<b>> /\ v = <<c>>
  OBVIOUS
<1>2. /\ u \in Seq(CallType) /\ Len(u) = 2 /\ u[1] = a /\ u[2] = b
  BY <1>1, PairOfCalls
<1>3. v \in Seq(CallType) /\ Len(v) = 1 /\ v[1] = c
  BY <1>1, OneCall
<1>4. /\ u \o v \in Seq(CallType) /\ Len(u \o v) = Len(u) + 1 /\ DOMAIN (u \o v) = 1..(Len(u) + 1)
      /\ \A i \in 1..Len(u) : (u \o v)[i] = u[i]
      /\ (u \o v)[Len(u) + 1] = v[1]
  <2>1. u \in Seq(CallType) /\ v \in Seq(CallType) /\ Len(v) = 1
    BY <1>2, <1>3
  <2> QED BY <2>1, OneMore
<1>5. /\ u \o v \in Seq(CallType) /\ Len(u \o v) = 3 /\ DOMAIN (u \o v) = 1..3
      /\ (u \o v)[1] = a /\ (u \o v)[2] = b /\ (u \o v)[3] = c
  BY <1>2, <1>3, <1>4
<1> QED BY <1>1, <1>5

LEMMA ForAllTyped ==
    ASSUME TypeOK, NEW do \in Do
    PROVE  /\ ForAll(do) \in Seq(CallType) /\ Len(ForAll(do)) = Len(endpoints)
           /\ Len(endpoints) \in Nat /\ DOMAIN endpoints = 1..Len(endpoints)
           /\ DOMAIN ForAll(do) = 1..Len(endpoints)
           /\ \A i \in 1..Len(endpoints) :
                 /\ ForAll(do)[i] \in CallType
                 /\ ForAll(do)[i].do = do /\ ForAll(do)[i].ctrl = controllers[endpoints[i].id]
<1>1. Len(endpoints) \in Nat /\ DOMAIN endpoints = 1..Len(endpoints)
  BY DEF TypeOK
<1>2. ASSUME NEW i \in DOMAIN endpoints
      PROVE  LET call == Call(do, controllers[endpoints[i].id], None) IN
             call \in CallType /\ call.do = do /\ call.ctrl = controllers[endpoints[i].id]
  <2>1. endpoints[i].id \in Ids
    <3>1. endpoints \in Seq(Endpoint)
      BY DEF TypeOK
    <3>2. endpoints[i] \in Endpoint
      BY <3>1
    <3> QED BY <3>2 DEF Endpoint
  <2>2. controllers[endpoints[i].id] \in Controllers \cup {None}
    BY <2>1 DEF TypeOK
  <2> QED BY <2>2, CallTyped
<1>3. ForAll(do) \in Seq(CallType)
  BY <1>1, <1>2 DEF ForAll
<1> QED BY <1>1, <1>2, <1>3 DEF ForAll

LEMMA AddCalls ==
    ASSUME TypeOK, Event(<<Call("persist", None, None)>>)
    PROVE  /\ todo' \in Seq(CallType) /\ DOMAIN todo' = {1} /\ Len(todo') = 1
           /\ todo'[1].do = "persist"
BY OneCall, CallTyped DEF Event, Do

LEMMA EditCalls ==
    ASSUME TypeOK, NEW ep \in Endpoint, Edit(ep)
    PROVE  /\ todo' \in Seq(CallType) /\ DOMAIN todo' = {1} /\ Len(todo') = 1
           /\ todo'[1].do = "update" /\ todo'[1].ep = ep
<1>1. Call("update", None, ep) \in CallType /\ Call("update", None, ep).do = "update"
      /\ Call("update", None, ep).ep = ep
  BY CallTyped DEF Do
<1> QED BY <1>1, OneCall DEF Edit, Event

LEMMA OneOrTwo == \A i \in 1..2 : i = 1 \/ i = 2
OBVIOUS

LEMMA ToggleCalls ==
    ASSUME TypeOK, DistinctIds, NEW id \in Ids, Toggle(id)
    PROVE  /\ todo' \in Seq(CallType) /\ Len(todo') \in {1, 2} /\ DOMAIN todo' = 1..Len(todo')
           /\ todo'[Len(todo')].do = "update" /\ todo'[Len(todo')].ep.id = id
           /\ todo'[Len(todo')].ep \in Endpoint
           /\ \A i \in DOMAIN todo' : i = Len(todo') \/ (i # Len(todo') /\ todo'[i].do = "stop_running")
<1> DEFINE ep == EndpointOf(id)
           new == [ep EXCEPT !.enabled = ~ep.enabled]
           a == Call("stop_running", controllers[id], None)
           b == Call("update", None, new)
<1>1. ep \in Endpoint /\ ep.id = id
  BY Found DEF Toggle, TypeOK
<1>2. new \in Endpoint /\ new.id = id
  BY <1>1 DEF Endpoint
<1>3. a \in CallType /\ a.do = "stop_running"
  <2>1. controllers[id] \in Controllers \cup {None}
    BY DEF TypeOK
  <2> QED BY <2>1, CallTyped DEF Do
<1>4. b \in CallType /\ b.do = "update" /\ b.ep = new
  BY <1>2, CallTyped DEF Do
<1>5. todo' = (IF ep.enabled THEN <<a>> ELSE <<>>) \o <<b>>
  BY DEF Toggle, Event
<1> HIDE DEF ep, new, a, b
<1>6. CASE ep.enabled
  <2>1. todo' = <<a>> \o <<b>>
    BY <1>5, <1>6
  <2>2. /\ todo' \in Seq(CallType) /\ Len(todo') = 2 /\ DOMAIN todo' = 1..2
        /\ todo'[1] = a /\ todo'[2] = b
    BY <1>3, <1>4, <2>1, PairOfCalls
  <2>3. \A i \in DOMAIN todo' : i = 1 \/ i = 2
    BY <2>2, OneOrTwo
  <2> QED BY <1>2, <1>3, <1>4, <2>2, <2>3
<1>7. CASE ~ep.enabled
  <2>1. todo' = <<b>>
    <3>1. <<b>> \in Seq(CallType)
      BY <1>4, OneCall
    <3> QED BY <1>5, <1>7, <3>1, ConcatEmptySeq
  <2> QED BY <1>2, <1>4, <2>1, OneCall
<1> QED BY <1>6, <1>7

LEMMA DeleteCalls ==
    ASSUME TypeOK, NEW id \in Ids, Delete(id)
    PROVE  /\ todo' \in Seq(CallType) /\ DOMAIN todo' = {1, 2} /\ Len(todo') = 2
           /\ todo'[1].do = "hand_over" /\ todo'[1].ctrl = controllers[id]
           /\ todo'[2].do = "persist"
<1>1. controllers[id] \in Controllers \cup {None}
  BY DEF TypeOK
<1>2. /\ Call("hand_over", controllers[id], None) \in CallType
      /\ Call("hand_over", controllers[id], None).do = "hand_over"
      /\ Call("hand_over", controllers[id], None).ctrl = controllers[id]
  BY <1>1, CallTyped DEF Do
<1>3. Call("persist", None, None) \in CallType /\ Call("persist", None, None).do = "persist"
  BY CallTyped DEF Do
<1> QED BY <1>2, <1>3, TwoCalls DEF Delete, Event

LEMMA StartCalls ==
    ASSUME TypeOK, NEW main, MainStarts(main)
    PROVE  /\ todo' \in Seq(CallType)
           /\ \A i \in DOMAIN todo' : todo'[i].do = "start" /\ todo'[i].ep \in Endpoint
                                      /\ todo'[i].ep.id \in Known
           /\ \A i, j \in DOMAIN todo' :
                 IsDuplicateTarget(todo'[i].ep.target, todo'[j].ep.target) => i = j
<1> DEFINE plan == PlanLinkedStart(main)
<1>1. Planned(plan)
  BY PlanOK DEF TypeOK
<1>2. todo' = [i \in DOMAIN plan |-> Call("start", None, plan[i])]
  BY DEF MainStarts, Event
<1> HIDE DEF plan
<1>3. plan \in Seq(Endpoint) /\ Len(plan) \in Nat /\ DOMAIN plan = 1..Len(plan)
      /\ \A i \in DOMAIN plan : plan[i] \in Endpoint
  BY <1>1 DEF Planned
<1>4. \A i \in DOMAIN plan : /\ Call("start", None, plan[i]) \in CallType
                             /\ Call("start", None, plan[i]).do = "start"
                             /\ Call("start", None, plan[i]).ep = plan[i]
  BY <1>3, CallTyped DEF Do
<1>5. todo' \in Seq(CallType)
  BY <1>2, <1>3, <1>4
<1> QED BY <1>1, <1>2, <1>3, <1>4, <1>5 DEF Planned

LEMMA StopCalls ==
    ASSUME TypeOK, MainStops \/ OBSExit
    PROVE  /\ todo' \in Seq(CallType) /\ \A i \in DOMAIN todo' : todo'[i].do = "stop_running"
<1>1. /\ ForAll("stop_running") \in Seq(CallType) /\ Len(endpoints) \in Nat
      /\ DOMAIN endpoints = 1..Len(endpoints) /\ DOMAIN ForAll("stop_running") = 1..Len(endpoints)
      /\ \A i \in 1..Len(endpoints) : ForAll("stop_running")[i] \in CallType
                                      /\ ForAll("stop_running")[i].do = "stop_running"
  BY ForAllTyped DEF Do
<1>2. Call("stop_running", None, None) \in CallType
      /\ Call("stop_running", None, None).do = "stop_running"
  BY CallTyped DEF Do
<1>3. CASE MainStops
  <2>1. todo' = [i \in DOMAIN endpoints |->
                    IF endpoints[i].linked THEN ForAll("stop_running")[i]
                    ELSE Call("stop_running", None, None)]
    BY <1>3 DEF MainStops, Event
  <2> QED BY <1>1, <1>2, <2>1
<1>4. CASE OBSExit
  BY <1>1, <1>4 DEF OBSExit, Event
<1> QED BY <1>3, <1>4

(* The stop of each endpoint's controller, the hand-over of each, and the end. *)
LEMMA UnloadCalls ==
    ASSUME TypeOK, Unload
    PROVE  LET n == Len(endpoints) IN
           /\ todo' \in Seq(CallType) /\ n \in Nat /\ Len(todo') = n + n + 2
           /\ DOMAIN endpoints = 1..n /\ DOMAIN todo' = 1..(n + n + 2)
           /\ \A i \in 1..n :
                 /\ todo'[i].do = "stop" /\ todo'[i].ctrl = controllers[endpoints[i].id]
                 /\ todo'[n + i].do = "hand_over" /\ todo'[n + i].ctrl = controllers[endpoints[i].id]
           /\ todo'[n + n + 1].do = "shutdown" /\ todo'[n + n + 2].do = "join"
<1> DEFINE n == Len(endpoints)
           s == ForAll("stop")
           h == ForAll("hand_over")
           e == <<Call("shutdown", None, None), Call("join", None, None)>>
<1>1. /\ n \in Nat /\ DOMAIN endpoints = 1..n
      /\ s \in Seq(CallType) /\ Len(s) = n
      /\ \A i \in 1..n : s[i].do = "stop" /\ s[i].ctrl = controllers[endpoints[i].id]
  BY ForAllTyped DEF Do
<1>2. /\ h \in Seq(CallType) /\ Len(h) = n
      /\ \A i \in 1..n : h[i].do = "hand_over" /\ h[i].ctrl = controllers[endpoints[i].id]
  BY ForAllTyped DEF Do
<1>3. e \in Seq(CallType) /\ Len(e) = 2 /\ e[1].do = "shutdown" /\ e[2].do = "join"
  BY CallTyped, TwoCalls DEF Do
<1>4. todo' = s \o h \o e
  BY DEF Unload
<1> HIDE DEF n, s, h, e
<1>5. PICK a : a = s \o h
  OBVIOUS
<1>6. /\ a \in Seq(CallType) /\ Len(a) = n + n
      /\ \A i \in 1..n : a[i] = s[i] /\ a[n + i] = h[i]
  <2>1. s \in Seq(CallType) /\ h \in Seq(CallType)
    BY <1>1, <1>2
  <2>2. /\ a \in Seq(CallType) /\ Len(a) = Len(s) + Len(h)
        /\ \A i \in 1..Len(s) : a[i] = s[i]
        /\ \A i \in 1..Len(h) : a[Len(s) + i] = h[i]
    BY <1>5, <2>1, ConcatTyped
  <2> QED BY <1>1, <1>2, <2>2
<1>7. /\ todo' \in Seq(CallType) /\ Len(todo') = n + n + 2 /\ DOMAIN todo' = 1..(n + n + 2)
      /\ \A i \in 1..(n + n) : todo'[i] = a[i]
      /\ todo'[n + n + 1] = e[1] /\ todo'[n + n + 2] = e[2]
  <2>1. a \in Seq(CallType) /\ e \in Seq(CallType) /\ todo' = a \o e
    BY <1>3, <1>4, <1>5, <1>6
  <2>2. /\ todo' \in Seq(CallType) /\ Len(todo') = Len(a) + Len(e)
        /\ DOMAIN todo' = 1..(Len(a) + Len(e))
        /\ \A i \in 1..Len(a) : todo'[i] = a[i]
        /\ \A i \in 1..Len(e) : todo'[Len(a) + i] = e[i]
    BY <2>1, ConcatTyped
  <2> QED BY <1>3, <1>6, <2>2
<1>8. \A i \in 1..n : i \in 1..(n + n) /\ n + i \in 1..(n + n)
  BY <1>1
<1>9. \A i \in 1..n : todo'[i] = s[i] /\ todo'[n + i] = h[i]
  BY <1>6, <1>7, <1>8
<1> QED BY <1>1, <1>2, <1>3, <1>7, <1>9 DEF n

(* update() is the last call of its event. *)
LEMMA UpdateCalls ==
    ASSUME TypeOK, Script, Update
    PROVE  LET ep == todo[1].ep
               old == controllers[ep.id] IN
           /\ 1 \in DOMAIN todo /\ ep \in Endpoint /\ ep.id \in Known /\ module = "loaded"
           /\ NewController(ep) /\ endpoints' = Replace(ep)
           /\ todo' \in Seq(CallType) /\ Len(todo') \in {2, 3} /\ DOMAIN todo' = 1..Len(todo')
           /\ todo'[1].do = "hand_over" /\ todo'[1].ctrl = old
           /\ Len(todo') = 3 => todo'[2].do = "start" /\ todo'[2].ep = ep
           /\ todo'[Len(todo')].do = "persist"
<1> DEFINE ep == todo[1].ep
           old == controllers[ep.id]
           h == Call("hand_over", old, None)
           s == Call("start", None, ep)
           p == Call("persist", None, None)
<1>1. /\ todo \in Seq(CallType) /\ todo # <<>> /\ Head(todo) = todo[1] /\ todo[1].do = "update"
      /\ 1 \in DOMAIN todo /\ todo[1] \in CallType
  <2>1. todo \in Seq(CallType) /\ todo # <<>> /\ Head(todo).do = "update"
    BY DEF Update, Calls, TypeOK
  <2> QED BY <2>1, TailAt, TailTyped
<1>2. CallFits(1)
  BY <1>1 DEF Script
<1>3. ep \in Endpoint /\ ep.id \in Known /\ module = "loaded" /\ Len(todo) = 1
  BY <1>1, <1>2 DEF CallFits, CallType
<1>4. Tail(todo) = <<>>
  <2>1. Tail(todo) \in Seq(CallType) /\ Len(Tail(todo)) = 0
    BY <1>1, <1>3, HeadTailProperties
  <2> QED BY <2>1, EmptySeq
<1>5. NewController(ep) /\ endpoints' = Replace(ep) /\ todo' = RestartCalls(old, ep) \o Tail(todo)
  BY <1>1 DEF Update, Then
<1>6. old \in Controllers \cup {None}
  BY <1>3 DEF TypeOK, Endpoint
<1>7. h \in CallType /\ h.do = "hand_over" /\ h.ctrl = old
  BY <1>6, CallTyped DEF Do
<1>8. s \in CallType /\ s.do = "start" /\ s.ep = ep
  BY <1>3, CallTyped DEF Do
<1>9. p \in CallType /\ p.do = "persist"
  BY CallTyped DEF Do
<1>10. RestartCalls(old, ep) = <<h>> \o (IF IsRunning(old) THEN <<s>> ELSE <<>>) \o <<p>>
  BY DEF RestartCalls
<1> HIDE DEF h, s, p
<1>11. CASE IsRunning(old)
  <2>1. RestartCalls(old, ep) = <<h>> \o <<s>> \o <<p>>
    BY <1>10, <1>11
  <2>2. RestartCalls(old, ep) \in Seq(CallType)
    <3>1. h \in CallType /\ s \in CallType /\ p \in CallType
      BY <1>7, <1>8, <1>9
    <3>2. <<h>> \o <<s>> \o <<p>> \in Seq(CallType)
      BY <3>1, TripleOfCalls
    <3> QED BY <2>1, <3>2
  <2>3. todo' = <<h>> \o <<s>> \o <<p>>
    BY <1>4, <1>5, <2>1, <2>2, ConcatEmptySeq
  <2>4. /\ todo' \in Seq(CallType) /\ Len(todo') = 3 /\ DOMAIN todo' = 1..3
        /\ todo'[1] = h /\ todo'[2] = s /\ todo'[3] = p
    <3>1. /\ <<h>> \o <<s>> \o <<p>> \in Seq(CallType)
          /\ Len(<<h>> \o <<s>> \o <<p>>) = 3 /\ DOMAIN (<<h>> \o <<s>> \o <<p>>) = 1..3
          /\ (<<h>> \o <<s>> \o <<p>>)[1] = h /\ (<<h>> \o <<s>> \o <<p>>)[2] = s
          /\ (<<h>> \o <<s>> \o <<p>>)[3] = p
      <4>1. h \in CallType /\ s \in CallType /\ p \in CallType
        BY <1>7, <1>8, <1>9
      <4> QED BY <4>1, TripleOfCalls
    <3> QED BY <2>3, <3>1, Zenon
  <2>5. todo'[Len(todo')] = p /\ Len(todo') \in {2, 3} /\ DOMAIN todo' = 1..Len(todo')
    BY <2>4
  <2>6. /\ todo'[1].do = "hand_over" /\ todo'[1].ctrl = old /\ todo'[Len(todo')].do = "persist"
        /\ todo'[2].do = "start" /\ todo'[2].ep = ep
    BY <1>7, <1>8, <1>9, <2>4, <2>5
  <2> QED BY <1>1, <1>3, <1>5, <2>4, <2>5, <2>6
<1>12. CASE ~IsRunning(old)
  <2>1. RestartCalls(old, ep) = <<h>> \o <<p>>
    <3>1. <<h>> \in Seq(CallType)
      BY <1>7, OneCall
    <3>2. <<h>> \o <<>> = <<h>>
      BY <3>1, ConcatEmptySeq
    <3> QED BY <1>10, <1>12, <3>2
  <2>2. RestartCalls(old, ep) \in Seq(CallType)
    <3>1. h \in CallType /\ p \in CallType
      BY <1>7, <1>9
    <3>2. <<h>> \o <<p>> \in Seq(CallType)
      BY <3>1, PairOfCalls
    <3> QED BY <2>1, <3>2
  <2>3. todo' = <<h>> \o <<p>>
    BY <1>4, <1>5, <2>1, <2>2, ConcatEmptySeq
  <2>4. /\ todo' \in Seq(CallType) /\ Len(todo') = 2 /\ DOMAIN todo' = 1..2
        /\ todo'[1] = h /\ todo'[2] = p
    BY <1>7, <1>9, <2>3, PairOfCalls
  <2>5. todo'[Len(todo')] = p /\ Len(todo') \in {2, 3} /\ DOMAIN todo' = 1..Len(todo') /\ Len(todo') # 3
    BY <2>4
  <2>6. todo'[1].do = "hand_over" /\ todo'[1].ctrl = old /\ todo'[Len(todo')].do = "persist"
    BY <1>7, <1>9, <2>4, <2>5
  <2> QED BY <1>1, <1>3, <1>5, <2>4, <2>5, <2>6
<1> QED BY <1>11, <1>12

-----------------------------------------------------------------------------
(* What does not change.                                                   *)

Phase == {"absent", "idle", "connecting", "active", "closing"}

LEMMA RegistryFrame ==
    ASSUME UNCHANGED <<endpoints, controllers, module>>
    PROVE  \A c \in Controllers : Registered(c)' <=> Registered(c)
BY DEF Registered, InRegistry

LEMMA TodoFrame ==
    ASSUME UNCHANGED todo
    PROVE  \A c \in Controllers : (Moving(c)' <=> Moving(c)) /\ (MovesOnce(c)' <=> MovesOnce(c))
BY DEF Moving, MovesOnce, HandsOver

LEMMA QueueFrame ==
    ASSUME UNCHANGED queue
    PROVE  /\ \A c \in Controllers :
                 (Queued(c)' <=> Queued(c)) /\ (QueuedOnce(c)' <=> QueuedOnce(c))
           /\ \A o \in Outputs :
                 (OutputQueued(o)' <=> OutputQueued(o)) /\ (OutputQueuedOnce(o)' <=> OutputQueuedOnce(o))
BY DEF Queued, QueuedOnce, OutputQueued, OutputQueuedOnce

LEMMA RunningFrame ==
    ASSUME UNCHANGED running
    PROVE  /\ \A c \in Controllers : Runs(c)' <=> Runs(c)
           /\ \A o \in Outputs : OutputRuns(o)' <=> OutputRuns(o)
BY DEF Runs, OutputRuns, Working

LEMMA OutputFrame ==
    ASSUME UNCHANGED output
    PROVE  \A o \in Outputs : (Owned(o)' <=> Owned(o)) /\ (OwnedOnce(o)' <=> OwnedOnce(o))
BY DEF Owned, OwnedOnce

LEMMA HeldKept ==
    ASSUME ControllersHeld,
           \A c \in Controllers :
              /\ status'[c] = "free" <=> status[c] = "free"
              /\ Registered(c)' <=> Registered(c)
              /\ Moving(c)' <=> Moving(c)
              /\ Queued(c)' <=> Queued(c)
              /\ Runs(c)' <=> Runs(c)
              /\ MovesOnce(c) => MovesOnce(c)'
              /\ QueuedOnce(c) => QueuedOnce(c)'
    PROVE  ControllersHeld'
BY DEF ControllersHeld, OneHolder

LEMMA OutputsKept ==
    ASSUME OutputsHeld,
           \A o \in Outputs :
              /\ phase'[o] = "absent" <=> phase[o] = "absent"
              /\ Owned(o)' <=> Owned(o)
              /\ OutputQueued(o)' <=> OutputQueued(o)
              /\ OutputRuns(o)' <=> OutputRuns(o)
              /\ OwnedOnce(o) => OwnedOnce(o)'
              /\ OutputQueuedOnce(o) => OutputQueuedOnce(o)'
    PROVE  OutputsHeld'
BY DEF OutputsHeld, OneOwner

(* An enqueue to come finds its controller as the stop left it. *)
LEMMA ScriptFrame ==
    ASSUME Script, UNCHANGED <<todo, endpoints, module>>,
           \A c \in Controllers :
              Moving(c) /\ status[c] = "Idle" /\ output[c] = None
              => status'[c] = "Idle" /\ output'[c] = None
    PROVE  Script'
<1>1. Known' = Known
  BY DEF Known
<1> SUFFICES ASSUME NEW i \in DOMAIN todo PROVE CallFits(i)'
  BY DEF Script
<1>2. CallFits(i)
  BY DEF Script
<1>3. todo[i].do = "enqueue" => status'[todo[i].ctrl] = "Idle" /\ output'[todo[i].ctrl] = None
  <2> SUFFICES ASSUME todo[i].do = "enqueue"
               PROVE  status'[todo[i].ctrl] = "Idle" /\ output'[todo[i].ctrl] = None
    OBVIOUS
  <2>1. /\ todo[i].ctrl \in Controllers /\ Moving(todo[i].ctrl)
        /\ status[todo[i].ctrl] = "Idle" /\ output[todo[i].ctrl] = None
    BY <1>2 DEF CallFits, HandsOver, Moving
  <2> QED BY <2>1
<1> QED BY <1>1, <1>2, <1>3 DEF CallFits, HandsOver

(* What the registry, the calls and the schedule have in common: nothing of them changes. *)
LEMMA RegistryStays ==
    ASSUME RegistryInv, UNCHANGED <<registryVars, todo, module, settings>>
    PROVE  DistinctIds' /\ Matched' /\ Scheduling' /\ LinkedStartsDistinct'
<1> USE DEF RegistryInv
<1>1. DistinctIds' /\ Scheduling'
  BY DEF DistinctIds, Scheduling
<1>2. Matched'
  BY DEF Matched, InRegistry, Known
<1>3. LinkedStartsDistinct'
  BY DEF LinkedStartsDistinct
<1> QED BY <1>1, <1>2, <1>3

(* A step of an output, or of a reconnect thread. *)
LEMMA OutputStep ==
    ASSUME RegistryInv,
           UNCHANGED <<registryVars, todo, events, streaming, module, settings, output, service,
                       reaperVars>>,
           status' \in [Controllers -> Status], phase' \in [Outputs -> Phase],
           \A c \in Controllers :
              /\ status'[c] = "free" <=> status[c] = "free"
              /\ status[c] = "Idle" /\ output[c] = None => status'[c] = "Idle",
           \A o \in Outputs : phase'[o] = "absent" <=> phase[o] = "absent"
    PROVE  RegistryInv'
<1>1. TypeOK'
  BY DEF RegistryInv, TypeOK, Status, Phase
<1>2. DistinctIds' /\ Matched' /\ Scheduling' /\ LinkedStartsDistinct'
  BY RegistryStays
<1>3. Script'
  BY ScriptFrame DEF RegistryInv
<1>4. Closing'
  BY DEF RegistryInv, Closing
<1>5. ControllersHeld'
  BY RegistryFrame, TodoFrame, QueueFrame, RunningFrame, HeldKept DEF RegistryInv
<1>6. OutputsHeld'
  BY OutputFrame, QueueFrame, RunningFrame, OutputsKept DEF RegistryInv
<1>7. Served'
  BY DEF RegistryInv, Served
<1>8. NothingLeft'
  BY QueueFrame, RunningFrame DEF RegistryInv, NothingLeft, Left
<1> QED BY <1>1, <1>2, <1>3, <1>4, <1>5, <1>6, <1>7, <1>8 DEF RegistryInv

-----------------------------------------------------------------------------
(* Outputs and reconnect threads.                                          *)

LEMMA ShowsStatus ==
    ASSUME RegistryInv, NEW o \in Outputs, NEW s \in Status \ {"free"}, Shows(o, s)
    PROVE  /\ status' \in [Controllers -> Status]
           /\ \A c \in Controllers :
                 /\ status'[c] = "free" <=> status[c] = "free"
                 /\ status[c] = "Idle" /\ output[c] = None => status'[c] = "Idle"
<1>1. status \in [Controllers -> Status] /\ None \notin Outputs
  BY RegistryConstants DEF RegistryInv, TypeOK, Status
<1>2. \A c \in Controllers : status[c] = "free" => output[c] = None
  BY DEF RegistryInv, NothingLeft, Left
<1>3. \A c \in Controllers : c \in Owner(o) <=> output[c] = o
  BY DEF Owner
<1>4. status' = [c \in Controllers |-> IF c \in Owner(o) THEN s ELSE status[c]]
  BY DEF Shows
<1> QED BY <1>1, <1>2, <1>3, <1>4

LEMMA MovesPhase ==
    ASSUME TypeOK, NEW o \in Outputs, NEW from \in Phase \ {"absent"}, NEW to \in Phase \ {"absent"},
           OutputMoves(o, from, to)
    PROVE  /\ phase' \in [Outputs -> Phase]
           /\ \A x \in Outputs : phase'[x] = "absent" <=> phase[x] = "absent"
BY DEF TypeOK, OutputMoves, Phase

LEMMA SameStatus ==
    ASSUME RegistryInv, UNCHANGED status
    PROVE  /\ status' \in [Controllers -> Status]
           /\ \A c \in Controllers :
                 /\ status'[c] = "free" <=> status[c] = "free"
                 /\ status[c] = "Idle" /\ output[c] = None => status'[c] = "Idle"
BY DEF RegistryInv, TypeOK, Status

LEMMA ConnectedStep == ASSUME RegistryInv, NEW o \in Outputs, Connected(o) PROVE RegistryInv'
<1>1. phase' \in [Outputs -> Phase] /\ \A x \in Outputs : phase'[x] = "absent" <=> phase[x] = "absent"
  BY MovesPhase DEF Connected, RegistryInv, Phase
<1>2. Shows(o, "Live") /\ "Live" \in Status \ {"free"}
  BY DEF Connected, Status
<1>3. OnlyOutputs
  BY DEF Connected
<1> QED BY <1>1, <1>2, <1>3, ShowsStatus, OutputStep DEF OnlyOutputs

LEMMA StopsStep == ASSUME RegistryInv, NEW o \in Outputs, Stops(o) PROVE RegistryInv'
<1>1. phase' \in [Outputs -> Phase] /\ \A x \in Outputs : phase'[x] = "absent" <=> phase[x] = "absent"
  BY MovesPhase DEF Stops, RegistryInv, Phase
<1>2. PICK s \in Status \ {"free"} : Shows(o, s)
  BY DEF Stops, Status
<1>3. OnlyOutputs
  BY DEF Stops
<1> QED BY <1>1, <1>2, <1>3, ShowsStatus, OutputStep DEF OnlyOutputs

LEMMA ActiveClearsStep == ASSUME RegistryInv, NEW o \in Outputs, ActiveClears(o) PROVE RegistryInv'
<1>1. phase' \in [Outputs -> Phase] /\ \A x \in Outputs : phase'[x] = "absent" <=> phase[x] = "absent"
  BY MovesPhase DEF ActiveClears, RegistryInv, Phase
<1>2. UNCHANGED status /\ OnlyOutputs
  BY DEF ActiveClears
<1> QED BY <1>1, <1>2, SameStatus, OutputStep DEF OnlyOutputs

LEMMA ReconnectsStep == ASSUME RegistryInv, NEW c \in Controllers, Reconnects(c) PROVE RegistryInv'
<1>1. PICK o \in Outputs : OutputMoves(o, "idle", "connecting")
  BY DEF Reconnects
<1>2. phase' \in [Outputs -> Phase] /\ \A x \in Outputs : phase'[x] = "absent" <=> phase[x] = "absent"
  BY <1>1, MovesPhase DEF RegistryInv, Phase
<1>3. UNCHANGED status /\ OnlyOutputs
  BY DEF Reconnects
<1> QED BY <1>2, <1>3, SameStatus, OutputStep DEF OnlyOutputs

LEMMA GivesUpStep == ASSUME RegistryInv, NEW c \in Controllers, GivesUp(c) PROVE RegistryInv'
<1>1. phase' \in [Outputs -> Phase] /\ \A x \in Outputs : phase'[x] = "absent" <=> phase[x] = "absent"
  BY DEF GivesUp, RegistryInv, TypeOK, Phase
<1>2. /\ status' \in [Controllers -> Status]
      /\ \A d \in Controllers :
            /\ status'[d] = "free" <=> status[d] = "free"
            /\ status[d] = "Idle" /\ output[d] = None => status'[d] = "Idle"
  BY DEF GivesUp, RegistryInv, TypeOK, Status
<1>3. OnlyOutputs
  BY DEF GivesUp
<1> QED BY <1>1, <1>2, <1>3, OutputStep DEF OnlyOutputs

LEMMA ForceStopStep == ASSUME RegistryInv, ForceStop PROVE RegistryInv'
<1>1. /\ running \in JobType /\ running.output \in Outputs
      /\ phase \in [Outputs -> Phase]
  BY DEF ForceStop, Working, RegistryInv, TypeOK, JobType, Phase
<1>2. phase' \in [Outputs -> Phase] /\ \A x \in Outputs : phase'[x] = "absent" <=> phase[x] = "absent"
  BY <1>1 DEF ForceStop, Phase
<1>3. UNCHANGED <<registryVars, todo, events, streaming, module, settings, output, service, reaperVars>>
      /\ UNCHANGED status
  BY DEF ForceStop, OnlyReaper
<1> QED BY <1>2, <1>3, SameStatus, OutputStep

-----------------------------------------------------------------------------
(* The reaper.                                                             *)

LEMMA TakeEffect ==
    ASSUME TypeOK, Take
    PROVE  /\ \A c \in Controllers :
                 /\ ~Runs(c) /\ (Queued(c) <=> Queued(c)' \/ Runs(c)')
                 /\ QueuedOnce(c) => QueuedOnce(c)' /\ ~(Queued(c)' /\ Runs(c)')
           /\ \A o \in Outputs :
                 /\ ~OutputRuns(o) /\ (OutputQueued(o) <=> OutputQueued(o)' \/ OutputRuns(o)')
                 /\ OutputQueuedOnce(o) =>
                       OutputQueuedOnce(o)' /\ ~(OutputQueued(o)' /\ OutputRuns(o)')
<1>1. /\ queue' \in Seq(JobType) /\ running' # NoJob /\ running = NoJob
      /\ 1 \in DOMAIN queue /\ running' = queue[1]
      /\ \A i \in DOMAIN queue' : i \in Nat /\ i + 1 \in DOMAIN queue /\ i + 1 # 1
                                  /\ queue'[i] = queue[i + 1]
      /\ \A i \in DOMAIN queue : i # 1 => i - 1 \in DOMAIN queue' /\ queue'[i - 1] = queue[i]
  BY QueueTaken DEF TypeOK
<1>2. ASSUME NEW c \in Controllers
      PROVE  /\ ~Runs(c) /\ (Runs(c)' <=> queue[1].ctrl = c)
             /\ (Queued(c) <=> Queued(c)' \/ queue[1].ctrl = c)
  BY <1>1 DEF Runs, Working, Queued
<1>3. ASSUME NEW c \in Controllers, QueuedOnce(c)
      PROVE  QueuedOnce(c)' /\ ~(Queued(c)' /\ queue[1].ctrl = c)
  <2>1. ASSUME NEW i \in DOMAIN queue', NEW j \in DOMAIN queue', queue'[i].ctrl = c, queue'[j].ctrl = c
        PROVE  i = j
    <3>1. i + 1 = j + 1
      BY <1>1, <1>3, <2>1 DEF QueuedOnce
    <3> QED BY <1>1, <3>1
  <2>2. ASSUME NEW i \in DOMAIN queue', queue'[i].ctrl = c, queue[1].ctrl = c PROVE FALSE
    BY <1>1, <1>3, <2>2 DEF QueuedOnce
  <2> QED BY <2>1, <2>2 DEF QueuedOnce, Queued
<1>4. ASSUME NEW o \in Outputs
      PROVE  /\ ~OutputRuns(o) /\ (OutputRuns(o)' <=> queue[1].output = o)
             /\ (OutputQueued(o) <=> OutputQueued(o)' \/ queue[1].output = o)
  BY <1>1 DEF OutputRuns, Working, OutputQueued
<1>5. ASSUME NEW o \in Outputs, OutputQueuedOnce(o)
      PROVE  OutputQueuedOnce(o)' /\ ~(OutputQueued(o)' /\ queue[1].output = o)
  <2>1. ASSUME NEW i \in DOMAIN queue', NEW j \in DOMAIN queue', queue'[i].output = o, queue'[j].output = o
        PROVE  i = j
    <3>1. i + 1 = j + 1
      BY <1>1, <1>5, <2>1 DEF OutputQueuedOnce
    <3> QED BY <1>1, <3>1
  <2>2. ASSUME NEW i \in DOMAIN queue', queue'[i].output = o, queue[1].output = o PROVE FALSE
    BY <1>1, <1>5, <2>2 DEF OutputQueuedOnce
  <2> QED BY <2>1, <2>2 DEF OutputQueuedOnce, OutputQueued
<1> QED BY <1>2, <1>3, <1>4, <1>5

LEMMA TakeJobStep == ASSUME RegistryInv, TakeJob PROVE RegistryInv'
<1>1. Take /\ OnlyReaper /\ UNCHANGED <<controllerVars, outputVars>>
  BY DEF TakeJob
<1>2. /\ queue' \in Seq(JobType) /\ running' \in JobType /\ ~exited
      /\ UNCHANGED <<shuttingDown, exited>>
  BY <1>1, QueueTaken DEF RegistryInv, TypeOK
<1>3. TypeOK'
  BY <1>1, <1>2 DEF RegistryInv, TypeOK, OnlyReaper
<1>4. DistinctIds' /\ Matched' /\ Scheduling' /\ LinkedStartsDistinct'
  BY <1>1, RegistryStays DEF OnlyReaper
<1>5. Script'
  BY <1>1, ScriptFrame DEF RegistryInv, OnlyReaper
<1>6. Closing'
  BY <1>1, <1>2 DEF RegistryInv, Closing, OnlyReaper
<1>7. /\ \A c \in Controllers : Registered(c)' <=> Registered(c)
      /\ \A c \in Controllers : (Moving(c)' <=> Moving(c)) /\ (MovesOnce(c)' <=> MovesOnce(c))
      /\ \A o \in Outputs : (Owned(o)' <=> Owned(o)) /\ (OwnedOnce(o)' <=> OwnedOnce(o))
  BY <1>1, RegistryFrame, TodoFrame, OutputFrame DEF OnlyReaper
<1>8. /\ \A c \in Controllers :
            /\ ~Runs(c) /\ (Queued(c) <=> Queued(c)' \/ Runs(c)')
            /\ QueuedOnce(c) => QueuedOnce(c)' /\ ~(Queued(c)' /\ Runs(c)')
      /\ \A o \in Outputs :
            /\ ~OutputRuns(o) /\ (OutputQueued(o) <=> OutputQueued(o)' \/ OutputRuns(o)')
            /\ OutputQueuedOnce(o) =>
                  OutputQueuedOnce(o)' /\ ~(OutputQueued(o)' /\ OutputRuns(o)')
  BY <1>1, TakeEffect DEF RegistryInv
<1>9. UNCHANGED <<status, output, settings, service, phase>>
  BY <1>1
<1>10. ControllersHeld'
  BY <1>7, <1>8, <1>9 DEF RegistryInv, ControllersHeld, OneHolder
<1>11. OutputsHeld'
  BY <1>7, <1>8, <1>9 DEF RegistryInv, OutputsHeld, OneOwner
<1>12. Served'
  BY <1>9 DEF RegistryInv, Served
<1>13. NothingLeft'
  BY <1>8, <1>9 DEF RegistryInv, NothingLeft, Left
<1> QED BY <1>3, <1>4, <1>5, <1>6, <1>10, <1>11, <1>12, <1>13 DEF RegistryInv

LEMMA ReleaseOutputStep == ASSUME RegistryInv, ReleaseOutput PROVE RegistryInv'
<1>1. PICK o \in Outputs : running.output = o
  BY DEF ReleaseOutput, Working, RegistryInv, TypeOK, JobType
<1>2. /\ running \in JobType /\ running # NoJob /\ phase[o] = "idle"
      /\ phase' = [phase EXCEPT ![o] = "absent"] /\ service' = [service EXCEPT ![o] = None]
      /\ UNCHANGED <<status, settings, output, queue, shuttingDown, exited>> /\ OnlyReaper
  BY <1>1 DEF ReleaseOutput, Working, RegistryInv, TypeOK, Finish
<1>3. /\ running' \in JobType \cup {NoJob}
      /\ \A c \in Controllers : Runs(c)' <=> Runs(c)
      /\ \A x \in Outputs : (OutputRuns(x) <=> x = o) /\ ~OutputRuns(x)'
  <2>1. \A x \in Outputs : OutputRuns(x) <=> x = o
    BY <1>1, <1>2 DEF OutputRuns, Working
  <2>2. running.ctrl \in Controllers \cup {None} /\ None \notin Controllers \cup Outputs
    BY <1>2, RegistryConstants DEF JobType
  <2>3. CASE running.ctrl = None
    <3>1. running' = NoJob
      BY <2>3 DEF ReleaseOutput, Finish
    <3> QED BY <2>1, <2>2, <2>3, <3>1 DEF Runs, OutputRuns, Working
  <2>4. CASE running.ctrl # None
    <3>1. running' = Job(running.ctrl, None)
      BY <2>4 DEF ReleaseOutput
    <3>2. running' \in JobType /\ running' # NoJob /\ running'.ctrl = running.ctrl
          /\ running'.output = None
      BY <2>2, <3>1, JobTyped
    <3> QED BY <1>2, <2>1, <2>2, <3>2 DEF Runs, OutputRuns, Working
  <2> QED BY <2>3, <2>4
<1>4. TypeOK'
  BY <1>2, <1>3 DEF RegistryInv, TypeOK, OnlyReaper
<1>5. DistinctIds' /\ Matched' /\ Scheduling' /\ LinkedStartsDistinct'
  BY <1>2, RegistryStays DEF OnlyReaper
<1>6. Script'
  BY <1>2, ScriptFrame DEF RegistryInv, OnlyReaper
<1>7. Closing'
  BY <1>2 DEF RegistryInv, Closing, OnlyReaper
<1>8. ControllersHeld'
  <2>1. \A c \in Controllers : Registered(c)' <=> Registered(c)
    BY <1>2, RegistryFrame DEF OnlyReaper
  <2>2. \A c \in Controllers : (Moving(c)' <=> Moving(c)) /\ (MovesOnce(c)' <=> MovesOnce(c))
    BY <1>2, TodoFrame DEF OnlyReaper
  <2>3. \A c \in Controllers : (Queued(c)' <=> Queued(c)) /\ (QueuedOnce(c)' <=> QueuedOnce(c))
    BY <1>2, QueueFrame
  <2> QED BY <1>2, <1>3, <2>1, <2>2, <2>3, HeldKept DEF RegistryInv
<1>9. ~Owned(o) /\ ~OutputQueued(o)
  BY <1>3 DEF RegistryInv, OutputsHeld, OneOwner
<1>10. OutputsHeld'
  <2>1. \A x \in Outputs : phase'[x] # "absent" <=> phase[x] # "absent" /\ x # o
    BY <1>2 DEF RegistryInv, TypeOK
  <2>2. \A x \in Outputs : (Owned(x)' <=> Owned(x)) /\ (OwnedOnce(x)' <=> OwnedOnce(x))
    BY <1>2, OutputFrame
  <2>3. \A x \in Outputs :
           (OutputQueued(x)' <=> OutputQueued(x)) /\ (OutputQueuedOnce(x)' <=> OutputQueuedOnce(x))
    BY <1>2, QueueFrame
  <2> QED BY <1>3, <1>9, <2>1, <2>2, <2>3 DEF RegistryInv, OutputsHeld, OneOwner
<1>11. Served'
  BY <1>2, <1>9 DEF RegistryInv, Served, Owned, TypeOK
<1>12. NothingLeft'
  BY <1>2, <1>3, QueueFrame DEF RegistryInv, NothingLeft, Left
<1> QED BY <1>4, <1>5, <1>6, <1>7, <1>8, <1>10, <1>11, <1>12 DEF RegistryInv

LEMMA ExitWorkerStep == ASSUME RegistryInv, ExitWorker PROVE RegistryInv'
<1>1. /\ shuttingDown /\ running = NoJob /\ queue = <<>> /\ exited' = TRUE
      /\ UNCHANGED <<queue, running, shuttingDown>> /\ OnlyReaper
      /\ UNCHANGED <<status, settings, output, service, phase>>
  BY DEF ExitWorker, Exit
<1>2. TypeOK'
  BY <1>1 DEF RegistryInv, TypeOK, OnlyReaper
<1>3. DistinctIds' /\ Matched' /\ Scheduling' /\ LinkedStartsDistinct'
  BY <1>1, RegistryStays DEF OnlyReaper
<1>4. Script'
  BY <1>1, ScriptFrame DEF RegistryInv, OnlyReaper
<1>5. Closing'
  BY <1>1 DEF RegistryInv, Closing, OnlyReaper
<1>6. ControllersHeld'
  BY <1>1, RegistryFrame, TodoFrame, QueueFrame, RunningFrame, HeldKept DEF RegistryInv, OnlyReaper
<1>7. OutputsHeld'
  BY <1>1, OutputFrame, QueueFrame, RunningFrame, OutputsKept DEF RegistryInv
<1>8. Served'
  BY <1>1 DEF RegistryInv, Served
<1>9. NothingLeft'
  BY <1>1, QueueFrame, RunningFrame DEF RegistryInv, NothingLeft, Left
<1> QED BY <1>2, <1>3, <1>4, <1>5, <1>6, <1>7, <1>8, <1>9 DEF RegistryInv

(* A handed-over controller has no session left: only the destructor is to run. *)
LEMMA ShutdownControllerStep == ASSUME RegistryInv, ShutdownController PROVE RegistryInv'
<1>1. PICK c \in Controllers : running.ctrl = c
  BY DEF ShutdownController, Working, RegistryInv, TypeOK, JobType
<1>2. running \in JobType /\ running # NoJob /\ running.output = None /\ Runs(c)
  BY <1>1 DEF ShutdownController, Working, RegistryInv, TypeOK, Runs
<1>3. output[c] = None
  BY <1>2 DEF RegistryInv, NothingLeft, Left
<1>4. /\ status' = [status EXCEPT ![c] = "free"] /\ settings' = [settings EXCEPT ![c] = None]
      /\ running' = NoJob /\ UNCHANGED <<queue, shuttingDown, exited, output, service, phase>>
      /\ OnlyReaper
  BY <1>1, <1>3 DEF ShutdownController, Finish
<1>5. /\ \A d \in Controllers : (Runs(d) <=> d = c) /\ ~Runs(d)'
      /\ \A o \in Outputs : OutputRuns(o)' <=> OutputRuns(o)
  BY <1>1, <1>2, <1>4, RegistryConstants DEF Runs, OutputRuns, Working
<1>6. ~Registered(c) /\ ~Moving(c) /\ ~Queued(c) /\ status[c] # "free"
  BY <1>5 DEF RegistryInv, ControllersHeld, OneHolder
<1>7. \A d \in Controllers : Registered(d)' <=> Registered(d)
  BY <1>4, RegistryFrame DEF OnlyReaper
<1>8. \A d \in Controllers : (Moving(d)' <=> Moving(d)) /\ (MovesOnce(d)' <=> MovesOnce(d))
  BY <1>4, TodoFrame DEF OnlyReaper
<1>9. /\ \A d \in Controllers : (Queued(d)' <=> Queued(d)) /\ (QueuedOnce(d)' <=> QueuedOnce(d))
      /\ \A o \in Outputs :
            (OutputQueued(o)' <=> OutputQueued(o)) /\ (OutputQueuedOnce(o)' <=> OutputQueuedOnce(o))
  BY <1>4, QueueFrame
<1>10. \A d \in Controllers : /\ status'[d] = IF d = c THEN "free" ELSE status[d]
                              /\ d # c => settings'[d] = settings[d]
  BY <1>4 DEF RegistryInv, TypeOK
<1>11. TypeOK'
  BY <1>4 DEF RegistryInv, TypeOK, OnlyReaper
<1>12. DistinctIds' /\ Scheduling' /\ LinkedStartsDistinct'
  BY <1>4 DEF RegistryInv, DistinctIds, Scheduling, LinkedStartsDistinct, OnlyReaper
<1>13. Matched'
  <2>1. UNCHANGED <<module, endpoints, controllers>> /\ Known' = Known /\ InRegistry' = InRegistry
    BY <1>4 DEF OnlyReaper, Known, InRegistry
  <2> SUFFICES ASSUME InRegistry
               PROVE  \A i \in DOMAIN endpoints :
                         settings'[controllers[endpoints[i].id]] = endpoints[i]
    BY <2>1 DEF RegistryInv, Matched
  <2> TAKE i \in DOMAIN endpoints
  <2>2. controllers[endpoints[i].id] \in Controllers /\ settings[controllers[endpoints[i].id]] = endpoints[i]
    <3>1. endpoints[i].id \in Known \cap Ids
      BY Found DEF RegistryInv, TypeOK
    <3> QED BY <3>1 DEF RegistryInv, Matched, TypeOK
  <2>3. controllers[endpoints[i].id] # c
    BY <1>6 DEF Registered
  <2> QED BY <1>10, <2>2, <2>3
<1>14. Script'
  BY <1>4, <1>6, <1>10, ScriptFrame DEF RegistryInv, OnlyReaper
<1>15. Closing'
  BY <1>2, <1>4 DEF RegistryInv, Closing, OnlyReaper
<1>16. ControllersHeld'
  BY <1>5, <1>6, <1>7, <1>8, <1>9, <1>10 DEF RegistryInv, ControllersHeld, OneHolder
<1>17. OutputsHeld'
  BY <1>4, <1>5, <1>9, OutputFrame, OutputsKept DEF RegistryInv
<1>18. Served'
  BY <1>3, <1>4, <1>10 DEF RegistryInv, Served
<1>19. NothingLeft'
  BY <1>3, <1>4, <1>5, <1>6, <1>9, <1>10 DEF RegistryInv, NothingLeft, Left
<1> QED BY <1>11, <1>12, <1>13, <1>14, <1>15, <1>16, <1>17, <1>18, <1>19 DEF RegistryInv

-----------------------------------------------------------------------------
(* The events of the UI thread.                                            *)

LEMMA EventBegins ==
    ASSUME TypeOK, NEW calls, Event(calls)
    PROVE  /\ InRegistry /\ todo = <<>> /\ DOMAIN todo = {} /\ events' \in Nat /\ todo' = calls
           /\ \A c \in Controllers : ~Moving(c)
<1>1. todo = <<>> /\ events' = events + 1 /\ todo' = calls /\ InRegistry
  BY DEF Event, InRegistry
<1>2. DOMAIN todo = {}
  BY <1>1, EmptyTyped
<1> QED BY <1>1, <1>2 DEF TypeOK, Moving

LEMMA NothingMoves ==
    ASSUME \A i \in DOMAIN todo' : ~HandsOver(todo'[i])
    PROVE  \A c \in Controllers : ~Moving(c)' /\ MovesOnce(c)'
BY DEF Moving, MovesOnce, HandsOver

(* Nothing is closing while the registry is there. *)
LEMMA StaysOpen ==
    ASSUME RegistryInv, InRegistry, InRegistry', UNCHANGED <<shuttingDown, exited>>
    PROVE  Closing' /\ ~shuttingDown /\ ~exited
BY DEF RegistryInv, Closing, InRegistry

(* An event that changes nothing by itself and whose calls hand nothing over. *)
LEMMA QuietEvent ==
    ASSUME RegistryInv, InRegistry, InRegistry', todo = <<>>, \A c \in Controllers : ~Moving(c),
           UNCHANGED <<registryVars, controllerVars, outputVars, reaperVars>>,
           streaming' \in Targets \cup {None}, events' \in Nat, todo' \in Seq(CallType),
           \A i \in DOMAIN todo' : ~HandsOver(todo'[i]),
           Script', LinkedStartsDistinct'
    PROVE  RegistryInv'
<1>1. TypeOK'
  BY DEF RegistryInv, TypeOK, InRegistry
<1>2. Closing'
  BY StaysOpen
<1>3. DistinctIds' /\ Matched'
  BY DEF RegistryInv, DistinctIds, Matched, Known
<1>4. Scheduling'
  <2>1. scheduled = endpoints
    BY EmptyTyped DEF RegistryInv, Scheduling
  <2> QED BY <2>1 DEF Scheduling
<1>5. ControllersHeld'
  <2>1. \A c \in Controllers : Registered(c)' <=> Registered(c)
    BY DEF Registered
  <2>2. \A c \in Controllers : ~Moving(c)' /\ MovesOnce(c)'
    BY NothingMoves
  <2> QED BY <2>1, <2>2, QueueFrame, RunningFrame, HeldKept DEF RegistryInv
<1>6. OutputsHeld'
  BY OutputFrame, QueueFrame, RunningFrame, OutputsKept DEF RegistryInv
<1>7. Served'
  BY DEF RegistryInv, Served
<1>8. NothingLeft'
  BY QueueFrame, RunningFrame DEF RegistryInv, NothingLeft, Left
<1> QED BY <1>1, <1>2, <1>3, <1>4, <1>5, <1>6, <1>7, <1>8 DEF RegistryInv

LEMMA EditStep == ASSUME RegistryInv, NEW ep \in Endpoint, Edit(ep) PROVE RegistryInv'
<1>1. /\ todo' \in Seq(CallType) /\ DOMAIN todo' = {1} /\ Len(todo') = 1
      /\ todo'[1].do = "update" /\ todo'[1].ep = ep
  BY EditCalls DEF RegistryInv
<1>2. PICK calls : Event(calls)
  BY DEF Edit
<1>3. /\ module = "loaded" /\ ep.id \in Known
      /\ UNCHANGED <<registryVars, streaming, module, controllerVars, outputVars, reaperVars>>
  BY DEF Edit
<1>4. /\ InRegistry /\ todo = <<>> /\ events' \in Nat /\ \A c \in Controllers : ~Moving(c)
  BY <1>2, EventBegins DEF RegistryInv
<1>5. \A i \in DOMAIN todo' : ~HandsOver(todo'[i])
  BY <1>1 DEF HandsOver
<1>6. Script'
  <2>1. Known' = Known
    BY <1>3 DEF Known
  <2> QED BY <1>1, <1>3, <2>1 DEF Script, CallFits, HandsOver
<1>7. LinkedStartsDistinct'
  BY <1>1 DEF LinkedStartsDistinct
<1> QED BY <1>1, <1>3, <1>4, <1>5, <1>6, <1>7, QuietEvent DEF RegistryInv, TypeOK, InRegistry

LEMMA ToggleStep == ASSUME RegistryInv, NEW id \in Ids, Toggle(id) PROVE RegistryInv'
<1>1. /\ todo' \in Seq(CallType) /\ Len(todo') \in {1, 2} /\ DOMAIN todo' = 1..Len(todo')
      /\ todo'[Len(todo')].do = "update" /\ todo'[Len(todo')].ep.id = id
      /\ todo'[Len(todo')].ep \in Endpoint
  BY ToggleCalls DEF RegistryInv
<1>2. PICK calls : Event(calls)
  BY DEF Toggle
<1>3. /\ module = "loaded" /\ id \in Known
      /\ UNCHANGED <<registryVars, streaming, module, controllerVars, outputVars, reaperVars>>
  BY DEF Toggle
<1>4. /\ InRegistry /\ todo = <<>> /\ events' \in Nat /\ \A c \in Controllers : ~Moving(c)
  BY <1>2, EventBegins DEF RegistryInv
<1>5. \A i \in DOMAIN todo' : i = Len(todo') \/ (i # Len(todo') /\ todo'[i].do = "stop_running")
  BY ToggleCalls DEF RegistryInv
<1>6. \A i \in DOMAIN todo' : ~HandsOver(todo'[i])
  BY <1>1, <1>5 DEF HandsOver
<1>7. Script'
  <2>1. Known' = Known
    BY <1>3 DEF Known
  <2> SUFFICES ASSUME NEW i \in DOMAIN todo' PROVE CallFits(i)'
    BY DEF Script
  <2>2. CASE i = Len(todo')
    BY <1>1, <1>3, <2>1, <2>2 DEF CallFits, HandsOver
  <2>3. CASE todo'[i].do = "stop_running"
    BY <2>3 DEF CallFits, HandsOver
  <2> QED BY <1>5, <2>2, <2>3
<1>8. LinkedStartsDistinct'
  BY <1>1, <1>5 DEF LinkedStartsDistinct
<1> QED BY <1>1, <1>3, <1>4, <1>6, <1>7, <1>8, QuietEvent DEF RegistryInv, TypeOK, InRegistry

LEMMA MainStartsStep == ASSUME RegistryInv, NEW main \in Targets, MainStarts(main) PROVE RegistryInv'
<1>1. /\ todo' \in Seq(CallType)
      /\ \A i \in DOMAIN todo' : todo'[i].do = "start" /\ todo'[i].ep \in Endpoint
                                 /\ todo'[i].ep.id \in Known
      /\ \A i, j \in DOMAIN todo' :
            IsDuplicateTarget(todo'[i].ep.target, todo'[j].ep.target) => i = j
  BY StartCalls DEF RegistryInv
<1>2. PICK calls : Event(calls)
  BY DEF MainStarts
<1>3. /\ module = "loaded" /\ streaming' = main
      /\ UNCHANGED <<registryVars, module, controllerVars, outputVars, reaperVars>>
  BY DEF MainStarts
<1>4. /\ InRegistry /\ todo = <<>> /\ events' \in Nat /\ \A c \in Controllers : ~Moving(c)
  BY <1>2, EventBegins DEF RegistryInv
<1>5. \A i \in DOMAIN todo' : ~HandsOver(todo'[i])
  BY <1>1 DEF HandsOver
<1>6. Script'
  <2>1. Known' = Known
    BY <1>3 DEF Known
  <2> QED BY <1>1, <1>3, <2>1 DEF Script, CallFits, HandsOver
<1>7. LinkedStartsDistinct'
  BY <1>1 DEF LinkedStartsDistinct
<1> QED BY <1>1, <1>3, <1>4, <1>5, <1>6, <1>7, QuietEvent DEF InRegistry

LEMMA StopAllStep == ASSUME RegistryInv, MainStops \/ OBSExit PROVE RegistryInv'
<1>1. todo' \in Seq(CallType) /\ \A i \in DOMAIN todo' : todo'[i].do = "stop_running"
  BY StopCalls DEF RegistryInv
<1>2. PICK calls : Event(calls)
  BY DEF MainStops, OBSExit
<1>3. /\ module' \in {"loaded", "exited"} /\ streaming' \in Targets \cup {None}
      /\ UNCHANGED <<registryVars, controllerVars, outputVars, reaperVars>>
  BY DEF MainStops, OBSExit, RegistryInv, TypeOK
<1>4. /\ InRegistry /\ todo = <<>> /\ events' \in Nat /\ \A c \in Controllers : ~Moving(c)
  BY <1>2, EventBegins DEF RegistryInv
<1>5. \A i \in DOMAIN todo' : ~HandsOver(todo'[i])
  BY <1>1 DEF HandsOver
<1>6. Script'
  BY <1>1 DEF Script, CallFits, HandsOver
<1>7. LinkedStartsDistinct'
  BY <1>1 DEF LinkedStartsDistinct
<1> QED BY <1>1, <1>3, <1>4, <1>5, <1>6, <1>7, QuietEvent DEF InRegistry

-----------------------------------------------------------------------------
(* The events that change the list.                                        *)

(* The endpoints that stay keep what they had, wherever they move to. *)
LEMMA Rearranged ==
    ASSUME RegistryInv, InRegistry, UNCHANGED <<module, settings>>,
           endpoints' \in Seq(Endpoint), NEW pos \in [DOMAIN endpoints' -> DOMAIN endpoints],
           \A i, j \in DOMAIN endpoints' : pos[i] = pos[j] => i = j,
           \A i \in DOMAIN endpoints' : endpoints'[i] = endpoints[pos[i]],
           controllers' \in [Ids -> Controllers \cup {None}],
           \A id \in Ids : controllers'[id] = IF id \in Known' THEN controllers[id] ELSE None
    PROVE  /\ DistinctIds' /\ Matched'
           /\ \A c \in Controllers :
                 Registered(c)' <=> \E i \in DOMAIN endpoints' : controllers[endpoints[pos[i]].id] = c
<1>1. /\ \A i \in DOMAIN endpoints :
            endpoints[i] \in Endpoint /\ endpoints[i].id \in Ids /\ endpoints[i].id \in Known
  BY Found DEF RegistryInv, TypeOK
<1>2. DistinctIds'
  BY DEF RegistryInv, DistinctIds
<1>3. \A i \in DOMAIN endpoints' : endpoints'[i].id \in Known'
  BY DEF Known
<1>4. \A i \in DOMAIN endpoints' :
         controllers'[endpoints'[i].id] = controllers[endpoints[pos[i]].id]
  BY <1>1, <1>3
<1>5. Known' \subseteq Known /\ Known \subseteq Ids
  <2>1. ASSUME NEW id \in Known' PROVE id \in Known
    <3>1. PICK i \in DOMAIN endpoints' : endpoints'[i].id = id
      BY DEF Known
    <3> QED BY <1>1, <3>1
  <2> QED BY <2>1, Found DEF RegistryInv, TypeOK
<1>6. Matched'
  <2>1. \A id \in Ids : controllers'[id] # None <=> id \in Known'
    BY <1>5 DEF RegistryInv, Matched
  <2>2. \A i \in DOMAIN endpoints' : settings'[controllers'[endpoints'[i].id]] = endpoints'[i]
    BY <1>4 DEF RegistryInv, Matched
  <2>3. \A i, j \in DOMAIN endpoints' :
           controllers'[endpoints'[i].id] = controllers'[endpoints'[j].id] => i = j
    BY <1>4 DEF RegistryInv, Matched
  <2> QED BY <2>1, <2>2, <2>3 DEF Matched
<1>7. InRegistry'
  BY DEF InRegistry
<1> QED BY <1>2, <1>4, <1>6, <1>7 DEF Registered

(* Events that leave outputs, settings and the reaper alone. *)
LEMMA ListEvent ==
    ASSUME RegistryInv, InRegistry, todo = <<>>, UNCHANGED <<status, settings, outputVars, output, reaperVars>>,
           TypeOK', DistinctIds', Matched', Script', Closing', Scheduling', LinkedStartsDistinct',
           \A c \in Controllers :
              /\ Registered(c) <=> Registered(c)' \/ Moving(c)'
              /\ ~(Registered(c)' /\ Moving(c)') /\ MovesOnce(c)'
    PROVE  RegistryInv'
<1>1. \A c \in Controllers : ~Moving(c)
  BY EmptyTyped DEF Moving
<1>2. ControllersHeld'
  <2>1. \A c \in Controllers : (Queued(c)' <=> Queued(c)) /\ (QueuedOnce(c)' <=> QueuedOnce(c))
                               /\ (Runs(c)' <=> Runs(c))
    BY QueueFrame, RunningFrame
  <2> QED BY <1>1, <2>1 DEF RegistryInv, ControllersHeld, OneHolder
<1>3. OutputsHeld'
  BY OutputFrame, QueueFrame, RunningFrame, OutputsKept DEF RegistryInv
<1>4. Served'
  BY DEF RegistryInv, Served
<1>5. NothingLeft'
  BY QueueFrame, RunningFrame DEF RegistryInv, NothingLeft, Left
<1> QED BY <1>2, <1>3, <1>4, <1>5 DEF RegistryInv

LEMMA ReorderStep == ASSUME RegistryInv, Reorder PROVE RegistryInv'
<1>1. /\ endpoints' = Reverse(endpoints) /\ Event(<<Call("persist", None, None)>>)
      /\ UNCHANGED <<controllers, scheduled, streaming, module, controllerVars, outputVars, reaperVars>>
  BY DEF Reorder
<1>2. /\ InRegistry /\ todo = <<>> /\ events' \in Nat
  BY <1>1, EventBegins DEF RegistryInv
<1>3. /\ todo' \in Seq(CallType) /\ DOMAIN todo' = {1} /\ Len(todo') = 1 /\ todo'[1].do = "persist"
  BY <1>1, AddCalls DEF RegistryInv
<1>4. /\ endpoints \in Seq(Endpoint)
      /\ endpoints' \in Seq(Endpoint) /\ DOMAIN endpoints' = DOMAIN endpoints
      /\ \A i \in DOMAIN endpoints :
            /\ (Len(endpoints) - i) + 1 \in DOMAIN endpoints
            /\ endpoints'[i] = endpoints[(Len(endpoints) - i) + 1]
            /\ i \in Nat /\ (Len(endpoints) - ((Len(endpoints) - i) + 1)) + 1 = i
  BY <1>1, ReverseTyped DEF RegistryInv, TypeOK
<1> DEFINE pos == [i \in DOMAIN endpoints' |-> (Len(endpoints) - i) + 1]
<1>5. /\ pos \in [DOMAIN endpoints' -> DOMAIN endpoints]
      /\ \A i, j \in DOMAIN endpoints' : pos[i] = pos[j] => i = j
      /\ \A i \in DOMAIN endpoints' : endpoints'[i] = endpoints[pos[i]]
      /\ \A i \in DOMAIN endpoints : \E j \in DOMAIN endpoints' : pos[j] = i
  <2>1. pos \in [DOMAIN endpoints' -> DOMAIN endpoints]
        /\ \A i \in DOMAIN endpoints' : endpoints'[i] = endpoints[pos[i]]
    BY <1>4
  <2>2. \A i \in DOMAIN endpoints : pos[(Len(endpoints) - i) + 1] = i
    BY <1>4
  <2>3. \A i, j \in DOMAIN endpoints' : pos[i] = pos[j] => i = j
    <3>1. \A i \in DOMAIN endpoints' : pos[i] = (Len(endpoints) - i) + 1
      OBVIOUS
    <3> QED BY <1>4, <2>2, <3>1
  <2> QED BY <1>4, <2>1, <2>2, <2>3
<1> HIDE DEF pos
<1>6. Known' = Known
  <2>1. ASSUME NEW id \in Known PROVE id \in Known'
    <3>1. PICK i \in DOMAIN endpoints : endpoints[i].id = id
      BY DEF Known
    <3>2. PICK j \in DOMAIN endpoints' : pos[j] = i
      BY <1>5
    <3>3. endpoints'[j].id = id
      BY <1>5, <3>1, <3>2
    <3> QED BY <3>3 DEF Known
  <2>2. ASSUME NEW id \in Known' PROVE id \in Known
    <3>1. PICK j \in DOMAIN endpoints' : endpoints'[j].id = id
      BY DEF Known
    <3>2. pos[j] \in DOMAIN endpoints /\ endpoints[pos[j]].id = id
      BY <1>5, <3>1
    <3> QED BY <3>2 DEF Known
  <2> QED BY <2>1, <2>2
<1>7. /\ controllers' \in [Ids -> Controllers \cup {None}]
      /\ \A id \in Ids : controllers'[id] = IF id \in Known' THEN controllers[id] ELSE None
  BY <1>1, <1>2, <1>6 DEF RegistryInv, TypeOK, Matched
<1>8. /\ DistinctIds' /\ Matched'
      /\ \A c \in Controllers :
            Registered(c)' <=> \E i \in DOMAIN endpoints' : controllers[endpoints[pos[i]].id] = c
  BY <1>1, <1>2, <1>4, <1>5, <1>7, Rearranged
<1>9. \A c \in Controllers : Registered(c)' <=> Registered(c)
  BY <1>2, <1>5, <1>8 DEF Registered
<1>10. \A c \in Controllers : ~Moving(c)' /\ MovesOnce(c)'
  BY <1>3, NothingMoves DEF HandsOver
<1>11. TypeOK'
  BY <1>1, <1>2, <1>3, <1>4 DEF RegistryInv, TypeOK
<1>12. Script'
  BY <1>3 DEF Script, CallFits, HandsOver
<1>13. Closing' /\ InRegistry'
  BY <1>1, <1>2, StaysOpen DEF InRegistry
<1>14. Scheduling' /\ LinkedStartsDistinct'
  BY <1>3 DEF Scheduling, LinkedStartsDistinct
<1> QED BY <1>1, <1>2, <1>8, <1>9, <1>10, <1>11, <1>12, <1>13, <1>14, ListEvent

LEMMA DeleteStep == ASSUME RegistryInv, NEW id \in Ids, Delete(id) PROVE RegistryInv'
<1>1. /\ id \in Known /\ controllers' = [controllers EXCEPT ![id] = None]
      /\ UNCHANGED <<scheduled, streaming, module, controllerVars, outputVars, reaperVars>>
  BY DEF Delete
<1>2. PICK k \in DOMAIN endpoints : endpoints[k].id = id /\ endpoints' = RemoveAt(endpoints, k)
  BY DEF Delete
<1>3. /\ InRegistry /\ todo = <<>> /\ events' \in Nat
  BY EventBegins DEF RegistryInv, Delete
<1>4. /\ todo' \in Seq(CallType) /\ DOMAIN todo' = {1, 2} /\ Len(todo') = 2
      /\ todo'[1].do = "hand_over" /\ todo'[1].ctrl = controllers[id]
      /\ todo'[2].do = "persist"
  BY DeleteCalls DEF RegistryInv
<1>5. /\ endpoints \in Seq(Endpoint) /\ endpoints' \in Seq(Endpoint)
      /\ Len(endpoints) \in Nat /\ DOMAIN endpoints = 1..Len(endpoints)
      /\ DOMAIN endpoints' = 1..(Len(endpoints) - 1)
      /\ \A i \in 1..(Len(endpoints) - 1) :
            endpoints'[i] = IF i < k THEN endpoints[i] ELSE endpoints[i + 1]
  BY <1>2, RemoveAtTyped DEF RegistryInv, TypeOK
<1> DEFINE pos == [i \in DOMAIN endpoints' |-> IF i < k THEN i ELSE i + 1]
<1>6. /\ pos \in [DOMAIN endpoints' -> DOMAIN endpoints]
      /\ \A i, j \in DOMAIN endpoints' : pos[i] = pos[j] => i = j
      /\ \A i \in DOMAIN endpoints' : endpoints'[i] = endpoints[pos[i]] /\ pos[i] # k
      /\ \A i \in DOMAIN endpoints : i # k => \E j \in DOMAIN endpoints' : pos[j] = i
  <2>1. \A i \in DOMAIN endpoints' :
           /\ pos[i] \in DOMAIN endpoints /\ pos[i] # k /\ endpoints'[i] = endpoints[pos[i]]
    BY <1>5
  <2>2. \A i, j \in DOMAIN endpoints' : pos[i] = pos[j] => i = j
    BY <1>5
  <2>3. ASSUME NEW i \in DOMAIN endpoints, i # k PROVE \E j \in DOMAIN endpoints' : pos[j] = i
    <3>1. CASE i < k
      BY <1>5, <3>1
    <3>2. CASE ~(i < k)
      <4>1. i - 1 \in DOMAIN endpoints' /\ ~(i - 1 < k) /\ (i - 1) + 1 = i
        BY <1>5, <2>3, <3>2
      <4>2. pos[i - 1] = i
        BY <4>1
      <4> QED BY <4>1, <4>2
    <3> QED BY <3>1, <3>2
  <2> QED BY <2>1, <2>2, <2>3
<1> HIDE DEF pos
<1>7. \A x \in Ids : x \in Known' <=> x \in Known /\ x # id
  <2>1. \A x : x \in Known' => x \in Known /\ x # id
    BY <1>2, <1>6 DEF Known, RegistryInv, DistinctIds
  <2>2. \A x : x \in Known /\ x # id => x \in Known'
    BY <1>2, <1>6 DEF Known
  <2> QED BY <2>1, <2>2
<1>8. /\ controllers \in [Ids -> Controllers \cup {None}]
      /\ controllers' \in [Ids -> Controllers \cup {None}]
      /\ \A x \in Ids : controllers'[x] = IF x \in Known' THEN controllers[x] ELSE None
  BY <1>1, <1>3, <1>7 DEF RegistryInv, TypeOK, Matched
<1>9. /\ DistinctIds' /\ Matched'
      /\ \A c \in Controllers :
            Registered(c)' <=> \E i \in DOMAIN endpoints' : controllers[endpoints[pos[i]].id] = c
  <2>1. UNCHANGED <<module, settings>> /\ endpoints' \in Seq(Endpoint)
    BY <1>1, <1>5
  <2>2. /\ pos \in [DOMAIN endpoints' -> DOMAIN endpoints]
        /\ \A i, j \in DOMAIN endpoints' : pos[i] = pos[j] => i = j
        /\ \A i \in DOMAIN endpoints' : endpoints'[i] = endpoints[pos[i]]
    BY <1>6
  <2> QED BY <1>3, <1>8, <2>1, <2>2, Rearranged
<1>10. \A i, j \in DOMAIN endpoints :
          controllers[endpoints[i].id] = controllers[endpoints[j].id] => i = j
  BY <1>3 DEF RegistryInv, Matched
<1>11. controllers[id] \in Controllers
  BY <1>1, <1>3, <1>8 DEF RegistryInv, Matched
<1>12. \A c \in Controllers : Moving(c)' <=> c = controllers[id]
  BY <1>4 DEF Moving, HandsOver
<1>13. \A c \in Controllers : MovesOnce(c)'
  BY <1>4 DEF MovesOnce, HandsOver
<1>14. \A c \in Controllers : /\ Registered(c) <=> Registered(c)' \/ Moving(c)'
                              /\ ~(Registered(c)' /\ Moving(c)')
  <2>1. \A c \in Controllers : Registered(c) <=> \E i \in DOMAIN endpoints : controllers[endpoints[i].id] = c
    BY <1>3 DEF Registered
  <2>2. \A c \in Controllers : Registered(c)' => Registered(c) /\ c # controllers[id]
    BY <1>2, <1>6, <1>9, <1>10, <2>1
  <2>3. \A c \in Controllers : Registered(c) => Registered(c)' \/ c = controllers[id]
    BY <1>2, <1>6, <1>9, <2>1
  <2>4. Registered(controllers[id])
    BY <1>2, <1>11, <2>1
  <2> QED BY <1>12, <2>2, <2>3, <2>4
<1>15. TypeOK'
  BY <1>1, <1>3, <1>4, <1>5, <1>8 DEF RegistryInv, TypeOK
<1>16. Script'
  BY <1>4, <1>11 DEF Script, CallFits, HandsOver
<1>17. Closing' /\ InRegistry'
  BY <1>1, <1>3, StaysOpen DEF InRegistry
<1>18. Scheduling' /\ LinkedStartsDistinct'
  BY <1>4 DEF Scheduling, LinkedStartsDistinct
<1> QED BY <1>1, <1>3, <1>9, <1>13, <1>14, <1>15, <1>16, <1>17, <1>18, ListEvent

(* The destructor of the registry hands every controller over, each once. *)
LEMMA UnloadStep == ASSUME RegistryInv, Unload PROVE RegistryInv'
<1> DEFINE n == Len(endpoints)
           held(i) == controllers[endpoints[i].id]
<1>1. /\ module = "exited" /\ module' = "unloading" /\ todo = <<>>
      /\ UNCHANGED <<registryVars, events, streaming, controllerVars, outputVars, reaperVars>>
  BY DEF Unload
<1>2. /\ todo' \in Seq(CallType) /\ n \in Nat /\ Len(todo') = n + n + 2
      /\ DOMAIN endpoints = 1..n /\ DOMAIN todo' = 1..(n + n + 2)
      /\ \A i \in 1..n :
            /\ todo'[i].do = "stop" /\ todo'[i].ctrl = held(i)
            /\ todo'[n + i].do = "hand_over" /\ todo'[n + i].ctrl = held(i)
      /\ todo'[n + n + 1].do = "shutdown" /\ todo'[n + n + 2].do = "join"
  BY UnloadCalls DEF RegistryInv
<1>3. InRegistry /\ ~InRegistry' /\ Known' = Known
  BY <1>1 DEF InRegistry, Known
<1>4. ASSUME NEW i \in 1..n PROVE held(i) \in Controllers
  <2>1. endpoints[i].id \in Known \cap Ids
    BY <1>2, Found DEF RegistryInv, TypeOK
  <2> QED BY <1>3, <2>1 DEF RegistryInv, TypeOK, Matched
<1>5. \A i, j \in 1..n : held(i) = held(j) => i = j
  BY <1>2, <1>3 DEF RegistryInv, Matched
<1>6. \A c \in Controllers : Registered(c) <=> \E i \in 1..n : held(i) = c
  BY <1>2, <1>3 DEF Registered
<1> HIDE DEF n, held
<1>7. ASSUME NEW i \in DOMAIN todo'
      PROVE  \/ i \in 1..n
             \/ \E j \in 1..n : i = n + j
             \/ i = n + n + 1 \/ i = n + n + 2
  <2>1. \/ i \in 1..n
        \/ i - n \in 1..n /\ i = n + (i - n)
        \/ i = n + n + 1 \/ i = n + n + 2
    <3>1. i \in 1..(n + n + 2)
      BY <1>2
    <3> QED BY <1>2, <3>1
  <2> QED BY <2>1
<1>8. ASSUME NEW i \in DOMAIN todo', HandsOver(todo'[i])
      PROVE  \E j \in 1..n : i = n + j /\ todo'[i].do = "hand_over" /\ todo'[i].ctrl = held(j)
  <2>1. ~(i \in 1..n) /\ i # n + n + 1 /\ i # n + n + 2
    BY <1>2, <1>8 DEF HandsOver
  <2>2. PICK j \in 1..n : i = n + j
    BY <1>7, <2>1
  <2> QED BY <1>2, <2>2
<1>9. \A j \in 1..n : n + j \in DOMAIN todo' /\ HandsOver(todo'[n + j]) /\ todo'[n + j].ctrl = held(j)
  BY <1>2 DEF HandsOver
<1>10. \A c \in Controllers : Moving(c)' <=> Registered(c)
  <2>1. \A c \in Controllers : Moving(c)' <=> \E i \in DOMAIN todo' : HandsOver(todo'[i]) /\ todo'[i].ctrl = c
    BY DEF Moving, HandsOver
  <2>2. ASSUME NEW c \in Controllers, Moving(c)' PROVE Registered(c)
    <3>1. PICK i \in DOMAIN todo' : HandsOver(todo'[i]) /\ todo'[i].ctrl = c
      BY <2>1, <2>2
    <3> QED BY <1>6, <1>8, <3>1
  <2>3. ASSUME NEW c \in Controllers, Registered(c) PROVE Moving(c)'
    <3>1. PICK j \in 1..n : held(j) = c
      BY <1>6, <2>3
    <3> QED BY <1>9, <2>1, <3>1
  <2> QED BY <2>2, <2>3
<1>11. \A c \in Controllers : MovesOnce(c)' /\ ~Registered(c)'
  <2>1. ASSUME NEW i \in DOMAIN todo', NEW j \in DOMAIN todo', HandsOver(todo'[i]),
               HandsOver(todo'[j]), todo'[i].ctrl = todo'[j].ctrl
        PROVE  i = j
    <3>1. PICK a \in 1..n : i = n + a /\ todo'[i].ctrl = held(a)
      BY <1>8, <2>1
    <3>2. PICK b \in 1..n : j = n + b /\ todo'[j].ctrl = held(b)
      BY <1>8, <2>1
    <3>3. a = b
      BY <1>5, <2>1, <3>1, <3>2
    <3> QED BY <3>1, <3>2, <3>3
  <2>2. \A c \in Controllers : MovesOnce(c)'
    BY <2>1 DEF MovesOnce, HandsOver
  <2> QED BY <1>3, <2>2 DEF Registered
<1>12. DistinctIds' /\ Matched'
  BY <1>1, <1>3 DEF RegistryInv, DistinctIds, Matched
<1>13. Script'
  <2> SUFFICES ASSUME NEW i \in DOMAIN todo' PROVE CallFits(i)'
    BY DEF Script
  <2>1. CASE i \in 1..n
    <3>1. todo'[i].do = "stop" /\ todo'[i].ctrl = held(i)
      BY <1>2, <2>1
    <3>2. n + i \in DOMAIN todo' /\ i < n + i /\ HandsOver(todo'[n + i]) /\ todo'[n + i].ctrl = held(i)
      <4>1. i < n + i
        BY <1>2, <2>1
      <4> QED BY <1>9, <2>1, <4>1
    <3>3. \E j \in DOMAIN todo' : i < j /\ HandsOver(todo'[j]) /\ todo'[j].ctrl = todo'[i].ctrl
      BY <3>1, <3>2
    <3> QED BY <3>1, <3>3 DEF CallFits, HandsOver
  <2>2. CASE \E j \in 1..n : i = n + j
    <3>1. PICK j \in 1..n : i = n + j
      BY <2>2
    <3>2. todo'[i].do = "hand_over" /\ todo'[i].ctrl \in Controllers
      BY <1>2, <1>4, <3>1
    <3> QED BY <1>1, <3>2 DEF CallFits, HandsOver
  <2>3. CASE i = n + n + 1
    <3>1. todo'[i].do = "shutdown" /\ i = Len(todo') - 1
      BY <1>2, <2>3
    <3> QED BY <1>1, <3>1 DEF CallFits, HandsOver
  <2>4. CASE i = n + n + 2
    <3>1. todo'[i].do = "join" /\ i = Len(todo')
      BY <1>2, <2>4
    <3> QED BY <1>1, <3>1 DEF CallFits, HandsOver
  <2> QED BY <1>7, <2>1, <2>2, <2>3, <2>4
<1>14. Closing'
  <2>1. ~shuttingDown /\ ~exited
    BY <1>1 DEF RegistryInv, Closing
  <2>2. Len(todo') >= 2 /\ Len(todo') - 1 = n + n + 1
    BY <1>2
  <2>3. todo' # <<>>
    BY <1>2, <2>2, EmptyTyped
  <2> QED BY <1>1, <1>2, <2>1, <2>2, <2>3 DEF Closing
<1>15. Scheduling'
  <2>1. scheduled = endpoints
    BY <1>1, EmptyTyped DEF RegistryInv, Scheduling
  <2> QED BY <1>1, <2>1 DEF Scheduling
<1>16. LinkedStartsDistinct'
  <2>1. \A i \in DOMAIN todo' : todo'[i].do # "start"
    BY <1>2, <1>7
  <2> QED BY <2>1 DEF LinkedStartsDistinct
<1>17. TypeOK'
  BY <1>1, <1>2 DEF RegistryInv, TypeOK
<1> QED BY <1>1, <1>3, <1>10, <1>11, <1>12, <1>13, <1>14, <1>15, <1>16, <1>17, ListEvent

LEMMA AddStep == ASSUME RegistryInv, NEW ep \in Endpoint, Add(ep) PROVE RegistryInv'
<1>1. /\ module = "loaded" /\ ep.id \notin Known /\ endpoints' = Append(endpoints, ep)
      /\ Event(<<Call("persist", None, None)>>) /\ NewController(ep)
      /\ UNCHANGED <<scheduled, streaming, module, output, outputVars, reaperVars>>
  BY DEF Add
<1>2. InRegistry /\ InRegistry' /\ todo = <<>> /\ events' \in Nat /\ \A d \in Controllers : ~Moving(d)
  BY <1>1, EventBegins DEF RegistryInv, InRegistry
<1>3. /\ todo' \in Seq(CallType) /\ DOMAIN todo' = {1} /\ Len(todo') = 1 /\ todo'[1].do = "persist"
  BY <1>1, AddCalls DEF RegistryInv
<1>4. /\ controllers' \in [Ids -> Controllers \cup {None}]
      /\ status' \in [Controllers -> Status] /\ settings' \in [Controllers -> Endpoint \cup {None}]
  BY <1>1, NewTyped DEF RegistryInv
<1>5. PICK c \in Controllers :
         /\ status[c] = "free"
         /\ controllers' = [controllers EXCEPT ![ep.id] = c]
         /\ status' = [status EXCEPT ![c] = "Idle"]
         /\ settings' = [settings EXCEPT ![c] = ep]
  BY <1>1, NewTyped DEF RegistryInv
<1>6. /\ ep.id \in Ids
      /\ \A x \in Ids : controllers'[x] = IF x = ep.id THEN c ELSE controllers[x]
      /\ \A d \in Controllers : /\ status'[d] = IF d = c THEN "Idle" ELSE status[d]
                                /\ settings'[d] = IF d = c THEN ep ELSE settings[d]
  BY <1>5 DEF RegistryInv, TypeOK, Endpoint
<1>7. ~Registered(c) /\ ~Moving(c) /\ ~Queued(c) /\ ~Runs(c) /\ output[c] = None
  BY <1>5 DEF RegistryInv, ControllersHeld, OneHolder, NothingLeft, Left
<1>8. /\ endpoints' \in Seq(Endpoint)
      /\ DOMAIN endpoints' = DOMAIN endpoints \cup {Len(endpoints) + 1}
      /\ Len(endpoints) + 1 \notin DOMAIN endpoints
      /\ \A i \in DOMAIN endpoints : endpoints'[i] = endpoints[i]
      /\ endpoints'[Len(endpoints) + 1] = ep
  BY <1>1, AppendTyped, AppendAt DEF RegistryInv, TypeOK
<1>9. PICK last : /\ DOMAIN endpoints' = DOMAIN endpoints \cup {last} /\ last \notin DOMAIN endpoints
                  /\ endpoints'[last] = ep
  BY <1>8
<1>10. \A i \in DOMAIN endpoints :
          /\ endpoints'[i] = endpoints[i] /\ endpoints[i].id # ep.id
          /\ endpoints[i].id \in Ids /\ endpoints[i].id \in Known
          /\ controllers'[endpoints[i].id] = controllers[endpoints[i].id]
          /\ controllers[endpoints[i].id] \in Controllers
  <2>1. ASSUME NEW i \in DOMAIN endpoints PROVE endpoints[i].id \in Known /\ endpoints[i].id \in Ids
    BY Found DEF RegistryInv, TypeOK
  <2>2. \A id \in Known : id \in Ids => controllers[id] \in Controllers
    BY <1>2 DEF RegistryInv, TypeOK, Matched
  <2> QED BY <1>1, <1>6, <1>8, <2>1, <2>2
<1>11. \A i \in DOMAIN endpoints : controllers[endpoints[i].id] # c
  BY <1>2, <1>7 DEF Registered
<1>12. \A x \in Ids : x \in Known' <=> x \in Known \/ x = ep.id
  BY <1>9, <1>10 DEF Known
<1>13. DistinctIds'
  BY <1>9, <1>10 DEF RegistryInv, DistinctIds
<1>14. Matched'
  <2>1. \A x \in Ids : controllers'[x] # None <=> x \in Known'
    BY <1>2, <1>6, <1>12, RegistryConstants DEF RegistryInv, Matched
  <2>2. \A i \in DOMAIN endpoints' : settings'[controllers'[endpoints'[i].id]] = endpoints'[i]
    <3>1. settings'[controllers'[ep.id]] = ep
      BY <1>6
    <3>2. \A i \in DOMAIN endpoints : settings'[controllers[endpoints[i].id]] = endpoints[i]
      BY <1>2, <1>6, <1>10, <1>11 DEF RegistryInv, Matched
    <3> QED BY <1>9, <1>10, <3>1, <3>2
  <2>3. \A i, j \in DOMAIN endpoints' :
           controllers'[endpoints'[i].id] = controllers'[endpoints'[j].id] => i = j
    <3>1. \A i, j \in DOMAIN endpoints :
             controllers[endpoints[i].id] = controllers[endpoints[j].id] => i = j
      BY <1>2 DEF RegistryInv, Matched
    <3>2. controllers'[endpoints'[last].id] = c
      BY <1>6, <1>9
    <3> QED BY <1>9, <1>10, <1>11, <3>1, <3>2
  <2> QED BY <2>1, <2>2, <2>3 DEF Matched
<1>15. \A d \in Controllers : Registered(d)' <=> Registered(d) \/ d = c
  <2>1. \A d \in Controllers : Registered(d) <=> \E i \in DOMAIN endpoints : controllers[endpoints[i].id] = d
    BY <1>2 DEF Registered
  <2>2. \A d \in Controllers :
           Registered(d)' <=> \E i \in DOMAIN endpoints' : controllers'[endpoints'[i].id] = d
    BY <1>2 DEF Registered
  <2>3. controllers'[endpoints'[last].id] = c
    BY <1>6, <1>9
  <2>4. \A d \in Controllers : (\E i \in DOMAIN endpoints' : controllers'[endpoints'[i].id] = d)
                               <=> (\E i \in DOMAIN endpoints : controllers[endpoints[i].id] = d) \/ d = c
    BY <1>9, <1>10, <2>3
  <2> QED BY <2>1, <2>2, <2>4
<1>16. /\ \A d \in Controllers : (Queued(d)' <=> Queued(d)) /\ (QueuedOnce(d)' <=> QueuedOnce(d))
                                 /\ (Runs(d)' <=> Runs(d))
       /\ \A d \in Controllers : ~Moving(d)' /\ MovesOnce(d)'
  BY <1>1, <1>3, QueueFrame, RunningFrame, NothingMoves DEF HandsOver
<1>17. ControllersHeld'
  BY <1>2, <1>6, <1>7, <1>15, <1>16 DEF RegistryInv, ControllersHeld, OneHolder
<1>18. OutputsHeld'
  BY <1>1, OutputFrame, QueueFrame, RunningFrame, OutputsKept DEF RegistryInv
<1>19. Served'
  BY <1>1, <1>6, <1>7 DEF RegistryInv, Served
<1>20. NothingLeft'
  BY <1>1, <1>6, <1>7, <1>16 DEF RegistryInv, NothingLeft, Left
<1>21. TypeOK'
  BY <1>1, <1>2, <1>3, <1>4, <1>8 DEF RegistryInv, TypeOK, Status
<1>22. Script'
  BY <1>3 DEF Script, CallFits, HandsOver
<1>23. Closing'
  BY <1>1, <1>2, StaysOpen
<1>24. Scheduling' /\ LinkedStartsDistinct'
  BY <1>3 DEF Scheduling, LinkedStartsDistinct
<1> QED BY <1>13, <1>14, <1>17, <1>18, <1>19, <1>20, <1>21, <1>22, <1>23, <1>24 DEF RegistryInv

-----------------------------------------------------------------------------
(* The calls.                                                              *)

(* A call returns: the others move up. *)
LEMMA CallReturns ==
    ASSUME RegistryInv, todo # <<>>, Return
    PROVE  /\ todo' \in Seq(CallType)
           /\ \A c \in Controllers :
                 /\ Moving(c) <=> Moving(c)' \/ (HandsOver(todo[1]) /\ todo[1].ctrl = c)
                 /\ MovesOnce(c) => MovesOnce(c)'
                 /\ MovesOnce(c) /\ HandsOver(todo[1]) /\ todo[1].ctrl = c => ~Moving(c)'
           /\ UNCHANGED <<module, endpoints>> => Script'
           /\ LinkedStartsDistinct'
           /\ (todo[1].do # "persist" /\ UNCHANGED <<scheduled, endpoints>>) => Scheduling'
           /\ (todo[1].do \notin {"shutdown", "join"} /\ UNCHANGED <<module, shuttingDown>>
               /\ (exited => UNCHANGED <<queue, running>>) /\ UNCHANGED exited) => Closing'
<1>1. /\ todo' \in Seq(CallType) /\ 1 \in DOMAIN todo /\ Len(todo) \in Nat /\ Len(todo') = Len(todo) - 1
      /\ \A i \in DOMAIN todo' : i \in Nat /\ i + 1 \in DOMAIN todo /\ i + 1 # 1
                                 /\ todo'[i] = todo[i + 1]
      /\ \A i \in DOMAIN todo : i # 1 => i - 1 \in DOMAIN todo' /\ todo'[i - 1] = todo[i]
  BY Returned DEF RegistryInv, TypeOK
<1>2. ASSUME NEW c \in Controllers
      PROVE  Moving(c) <=> Moving(c)' \/ (HandsOver(todo[1]) /\ todo[1].ctrl = c)
  <2>1. ASSUME Moving(c) PROVE Moving(c)' \/ (HandsOver(todo[1]) /\ todo[1].ctrl = c)
    <3>1. PICK i \in DOMAIN todo : HandsOver(todo[i]) /\ todo[i].ctrl = c
      BY <2>1 DEF Moving
    <3>2. CASE i = 1
      BY <3>1, <3>2
    <3>3. CASE i # 1
      <4>1. PICK j \in DOMAIN todo' : todo'[j] = todo[i]
        BY <1>1, <3>3
      <4> QED BY <3>1, <4>1 DEF Moving, HandsOver
    <3> QED BY <3>2, <3>3
  <2>2. ASSUME Moving(c)' PROVE Moving(c)
    <3>1. PICK i \in DOMAIN todo' : HandsOver(todo'[i]) /\ todo'[i].ctrl = c
      BY <2>2 DEF Moving, HandsOver
    <3>2. i + 1 \in DOMAIN todo /\ HandsOver(todo[i + 1]) /\ todo[i + 1].ctrl = c
      BY <1>1, <3>1
    <3> QED BY <3>2 DEF Moving
  <2> QED BY <1>1, <2>1, <2>2 DEF Moving
<1>3. ASSUME NEW c \in Controllers, MovesOnce(c) PROVE MovesOnce(c)'
  <2>1. ASSUME NEW i \in DOMAIN todo', NEW j \in DOMAIN todo', HandsOver(todo'[i]), HandsOver(todo'[j]),
               todo'[i].ctrl = c, todo'[j].ctrl = c
        PROVE  i = j
    <3>1. i + 1 = j + 1
      BY <1>1, <1>3, <2>1 DEF MovesOnce
    <3> QED BY <1>1, <3>1
  <2> QED BY <2>1 DEF MovesOnce, HandsOver
<1>4. ASSUME NEW c \in Controllers, MovesOnce(c), HandsOver(todo[1]), todo[1].ctrl = c, Moving(c)'
      PROVE  FALSE
  <2>1. PICK i \in DOMAIN todo' : HandsOver(todo'[i]) /\ todo'[i].ctrl = c
    BY <1>4 DEF Moving, HandsOver
  <2>2. i + 1 \in DOMAIN todo /\ HandsOver(todo[i + 1]) /\ todo[i + 1].ctrl = c /\ i + 1 # 1
    BY <1>1, <2>1
  <2> QED BY <1>1, <1>4, <2>2 DEF MovesOnce
<1>5. ASSUME UNCHANGED <<module, endpoints>> PROVE Script'
  <2> SUFFICES ASSUME NEW i \in DOMAIN todo' PROVE CallFits(i)'
    BY DEF Script
  <2>1. Known' = Known
    BY <1>5 DEF Known
  <2>2. /\ i \in Nat /\ i + 1 \in DOMAIN todo /\ i + 1 # 1 /\ todo'[i] = todo[i + 1]
        /\ CallFits(i + 1)
    BY <1>1 DEF RegistryInv, Script
  <2>3. todo[i + 1].do = "stop" =>
           \E j \in DOMAIN todo' : i < j /\ HandsOver(todo'[j]) /\ todo'[j].ctrl = todo'[i].ctrl
    <3> SUFFICES ASSUME todo[i + 1].do = "stop"
                 PROVE  \E j \in DOMAIN todo' : i < j /\ HandsOver(todo'[j]) /\ todo'[j].ctrl = todo'[i].ctrl
      OBVIOUS
    <3>1. PICK k \in DOMAIN todo : i + 1 < k /\ HandsOver(todo[k]) /\ todo[k].ctrl = todo[i + 1].ctrl
      BY <2>2 DEF CallFits
    <3>2. k \in Nat
      BY <1>1 DEF RegistryInv, TypeOK
    <3>3. k # 1 /\ i < k - 1
      BY <2>2, <3>1, <3>2
    <3> QED BY <1>1, <2>2, <3>1, <3>3
  <2>4. /\ i = Len(todo') <=> i + 1 = Len(todo)
        /\ i = Len(todo') - 1 <=> i + 1 = Len(todo) - 1
    BY <1>1, <2>2
  <2>5. todo[i + 1].do # "enqueue"
    BY <2>2 DEF CallFits
  <2>6. HandsOver(todo[i + 1]) => todo[i + 1].ctrl \in Controllers /\ module = "unloading"
    BY <2>2 DEF CallFits
  <2>7. /\ todo[i + 1].do \in {"update", "start"} =>
              module = "loaded" /\ todo[i + 1].ep \in Endpoint /\ todo[i + 1].ep.id \in Known
        /\ todo[i + 1].do = "update" => i + 1 = Len(todo)
        /\ todo[i + 1].do = "shutdown" => module = "unloading" /\ i + 1 = Len(todo) - 1
        /\ todo[i + 1].do = "join" => module = "unloading" /\ i + 1 = Len(todo)
    BY <2>2 DEF CallFits
  <2> QED BY <1>5, <2>1, <2>2, <2>3, <2>4, <2>5, <2>6, <2>7 DEF CallFits, HandsOver
<1>6. LinkedStartsDistinct'
  <2>1. ASSUME NEW i \in DOMAIN todo', NEW j \in DOMAIN todo', todo'[i].do = "start",
               todo'[j].do = "start", IsDuplicateTarget(todo'[i].ep.target, todo'[j].ep.target)
        PROVE  i = j
    <3>1. i + 1 = j + 1
      BY <1>1, <2>1 DEF RegistryInv, LinkedStartsDistinct
    <3> QED BY <1>1, <3>1
  <2> QED BY <2>1 DEF LinkedStartsDistinct, IsDuplicateTarget
<1>7. ASSUME todo[1].do # "persist", UNCHANGED <<scheduled, endpoints>> PROVE Scheduling'
  BY <1>1, <1>7 DEF RegistryInv, Scheduling
<1>8. ASSUME todo[1].do \notin {"shutdown", "join"}, UNCHANGED <<module, shuttingDown, exited>>,
             exited => UNCHANGED <<queue, running>>
      PROVE  Closing'
  <2>1. ASSUME module = "unloading"
        PROVE  /\ ~shuttingDown /\ todo' # <<>> /\ todo'[Len(todo')].do = "join"
               /\ Len(todo') >= 2 /\ todo'[Len(todo') - 1].do = "shutdown"
    <3>1. todo[Len(todo)].do = "join" /\ (shuttingDown => Len(todo) = 1)
          /\ (~shuttingDown => Len(todo) >= 2 /\ todo[Len(todo) - 1].do = "shutdown")
      BY <2>1 DEF RegistryInv, Closing
    <3>2. Len(todo) # 1 /\ Len(todo) # 2
      BY <1>1, <1>8, <3>1
    <3>3. ~shuttingDown /\ Len(todo) >= 3
      BY <1>1, <3>1, <3>2
    <3>4. DOMAIN todo = 1..Len(todo)
      BY DEF RegistryInv, TypeOK
    <3>5. todo'[Len(todo) - 1] = todo[Len(todo)] /\ todo'[(Len(todo) - 1) - 1] = todo[Len(todo) - 1]
      BY <1>1, <3>3, <3>4
    <3> QED BY <1>1, <3>1, <3>3, <3>5, EmptyTyped
  <2>2. module # "unloaded"
    BY <1>1, EmptyTyped DEF RegistryInv, Closing
  <2> QED BY <1>8, <2>1, <2>2 DEF RegistryInv, Closing
<1> QED BY <1>1, <1>2, <1>3, <1>4, <1>5, <1>6, <1>7, <1>8

LEMMA HeadCall ==
    ASSUME RegistryInv, NEW do, Calls(do)
    PROVE  /\ todo # <<>> /\ 1 \in DOMAIN todo /\ Head(todo) = todo[1] /\ todo[1].do = do
           /\ todo[1] \in CallType /\ CallFits(1)
<1>1. todo \in Seq(CallType) /\ todo # <<>> /\ Head(todo).do = do
  BY DEF Calls, RegistryInv, TypeOK
<1>2. 1 \in DOMAIN todo /\ Head(todo) = todo[1] /\ Head(todo) \in CallType
  BY <1>1, TailAt, TailTyped
<1> QED BY <1>1, <1>2 DEF RegistryInv, Script

LEMMA EnqueueEffect ==
    ASSUME TypeOK, NEW job \in JobType, Enqueue(job)
    PROVE  /\ queue' \in Seq(JobType) /\ ~shuttingDown /\ UNCHANGED <<running, shuttingDown, exited>>
           /\ \A c \in Controllers :
                 /\ Queued(c)' <=> Queued(c) \/ job.ctrl = c
                 /\ QueuedOnce(c) /\ (job.ctrl = c => ~Queued(c)) => QueuedOnce(c)'
           /\ \A o \in Outputs :
                 /\ OutputQueued(o)' <=> OutputQueued(o) \/ job.output = o
                 /\ OutputQueuedOnce(o) /\ (job.output = o => ~OutputQueued(o)) => OutputQueuedOnce(o)'
<1>1. /\ queue' \in Seq(JobType) /\ ~shuttingDown
      /\ DOMAIN queue' = DOMAIN queue \cup {Len(queue) + 1} /\ Len(queue) + 1 \notin DOMAIN queue
      /\ \A i \in DOMAIN queue : queue'[i] = queue[i]
      /\ queue'[Len(queue) + 1] = job
      /\ UNCHANGED <<running, shuttingDown, exited>>
  BY QueueGrown DEF TypeOK
<1>2. PICK last : /\ DOMAIN queue' = DOMAIN queue \cup {last} /\ last \notin DOMAIN queue
                  /\ queue'[last] = job
  BY <1>1
<1>3. \A c \in Controllers : Queued(c)' <=> Queued(c) \/ job.ctrl = c
  BY <1>1, <1>2 DEF Queued
<1>4. \A c \in Controllers : QueuedOnce(c) /\ (job.ctrl = c => ~Queued(c)) => QueuedOnce(c)'
  BY <1>1, <1>2 DEF Queued, QueuedOnce
<1>5. \A o \in Outputs : OutputQueued(o)' <=> OutputQueued(o) \/ job.output = o
  BY <1>1, <1>2 DEF OutputQueued
<1>6. \A o \in Outputs :
         OutputQueuedOnce(o) /\ (job.output = o => ~OutputQueued(o)) => OutputQueuedOnce(o)'
  BY <1>1, <1>2 DEF OutputQueued, OutputQueuedOnce
<1> QED BY <1>1, <1>3, <1>4, <1>5, <1>6

LEMMA PersistStep == ASSUME RegistryInv, Persist PROVE RegistryInv'
<1>1. /\ todo # <<>> /\ todo[1].do = "persist"
  BY HeadCall DEF Persist
<1>2. /\ Return /\ scheduled' = endpoints
      /\ UNCHANGED <<endpoints, controllers, events, streaming, module, controllerVars, outputVars, reaperVars>>
  BY DEF Persist
<1>3. /\ todo' \in Seq(CallType) /\ Script' /\ LinkedStartsDistinct' /\ Closing'
      /\ \A c \in Controllers : (Moving(c)' <=> Moving(c)) /\ (MovesOnce(c) => MovesOnce(c)')
  BY <1>1, <1>2, CallReturns DEF HandsOver
<1>4. TypeOK'
  BY <1>2, <1>3 DEF RegistryInv, TypeOK
<1>5. DistinctIds' /\ Matched'
  BY <1>2 DEF RegistryInv, DistinctIds, Matched, Known, InRegistry
<1>6. ControllersHeld'
  BY <1>2, <1>3, RegistryFrame, QueueFrame, RunningFrame, HeldKept DEF RegistryInv
<1>7. OutputsHeld'
  BY <1>2, OutputFrame, QueueFrame, RunningFrame, OutputsKept DEF RegistryInv
<1>8. Served' /\ Scheduling'
  BY <1>2 DEF RegistryInv, Served, Scheduling
<1>9. NothingLeft'
  BY <1>2, QueueFrame, RunningFrame DEF RegistryInv, NothingLeft, Left
<1> QED BY <1>3, <1>4, <1>5, <1>6, <1>7, <1>8, <1>9 DEF RegistryInv

LEMMA EnqueueControllerStep == ASSUME RegistryInv, EnqueueController PROVE RegistryInv'
<1> DEFINE c == todo[1].ctrl
<1>1. /\ todo # <<>> /\ todo[1].do = "enqueue" /\ Head(todo) = todo[1] /\ CallFits(1)
      /\ 1 \in DOMAIN todo
  BY HeadCall DEF EnqueueController
<1>2. /\ c \in Controllers /\ HandsOver(todo[1]) /\ status[c] = "Idle" /\ output[c] = None
  BY <1>1 DEF CallFits, HandsOver
<1>3. /\ Return /\ Enqueue(Job(c, None))
      /\ UNCHANGED <<registryVars, events, streaming, module, controllerVars, outputVars>>
  BY <1>1 DEF EnqueueController
<1>4. /\ Job(c, None) \in JobType /\ Job(c, None).ctrl = c /\ Job(c, None).output = None
  BY <1>2, JobTyped
<1> HIDE DEF c
<1>5. Moving(c)
  BY <1>1, <1>2 DEF Moving, c
<1>6. ~Registered(c) /\ ~Queued(c) /\ ~Runs(c)
  BY <1>2, <1>5 DEF RegistryInv, ControllersHeld, OneHolder
<1>7. /\ queue' \in Seq(JobType) /\ ~shuttingDown /\ UNCHANGED <<running, shuttingDown, exited>>
      /\ \A d \in Controllers :
            /\ Queued(d)' <=> Queued(d) \/ c = d
            /\ QueuedOnce(d) /\ (c = d => ~Queued(d)) => QueuedOnce(d)'
      /\ \A o \in Outputs :
            /\ OutputQueued(o)' <=> OutputQueued(o)
            /\ OutputQueuedOnce(o) => OutputQueuedOnce(o)'
  BY <1>3, <1>4, EnqueueEffect, RegistryConstants DEF RegistryInv
<1>8. ~exited
  BY <1>7 DEF RegistryInv, Closing
<1>9. /\ todo' \in Seq(CallType) /\ Script' /\ LinkedStartsDistinct' /\ Closing' /\ Scheduling'
      /\ \A d \in Controllers :
            /\ Moving(d) <=> Moving(d)' \/ c = d
            /\ MovesOnce(d) => MovesOnce(d)' /\ (c = d => ~Moving(d)')
  <2>1. /\ Return /\ UNCHANGED <<module, endpoints, scheduled, shuttingDown, exited>>
        /\ todo[1].do \notin {"shutdown", "join", "persist"}
    BY <1>1, <1>3, <1>7
  <2> QED BY <1>1, <1>2, <1>8, <2>1, CallReturns DEF c
<1>10. TypeOK'
  BY <1>3, <1>7, <1>9 DEF RegistryInv, TypeOK
<1>11. DistinctIds' /\ Matched'
  BY <1>3 DEF RegistryInv, DistinctIds, Matched, Known, InRegistry
<1>12. ControllersHeld'
  <2>1. \A d \in Controllers : (Registered(d)' <=> Registered(d)) /\ (Runs(d)' <=> Runs(d))
    BY <1>3, <1>7, RegistryFrame, RunningFrame
  <2> QED BY <1>3, <1>6, <1>7, <1>9, <2>1 DEF RegistryInv, ControllersHeld, OneHolder
<1>13. OutputsHeld'
  BY <1>3, <1>7, OutputFrame, RunningFrame, OutputsKept DEF RegistryInv
<1>14. Served'
  BY <1>3 DEF RegistryInv, Served
<1>15. NothingLeft'
  <2>1. \A d \in Controllers : Runs(d)' <=> Runs(d)
    BY <1>7, RunningFrame
  <2> QED BY <1>2, <1>3, <1>7, <2>1 DEF RegistryInv, NothingLeft, Left, c
<1> QED BY <1>9, <1>10, <1>11, <1>12, <1>13, <1>14, <1>15 DEF RegistryInv

LEMMA ShutdownReaperStep == ASSUME RegistryInv, ShutdownReaper PROVE RegistryInv'
<1>1. /\ todo # <<>> /\ todo[1].do = "shutdown" /\ CallFits(1)
  BY HeadCall DEF ShutdownReaper
<1>2. /\ Return /\ shuttingDown' = TRUE /\ UNCHANGED <<queue, running, exited>>
      /\ UNCHANGED <<registryVars, events, streaming, module, controllerVars, outputVars>>
  BY DEF ShutdownReaper, RequestShutdown
<1>3. /\ todo' \in Seq(CallType) /\ Script' /\ LinkedStartsDistinct' /\ Scheduling'
      /\ \A c \in Controllers : (Moving(c)' <=> Moving(c)) /\ (MovesOnce(c) => MovesOnce(c)')
  BY <1>1, <1>2, CallReturns DEF HandsOver
<1>4. TypeOK'
  BY <1>2, <1>3 DEF RegistryInv, TypeOK
<1>5. DistinctIds' /\ Matched'
  BY <1>2 DEF RegistryInv, DistinctIds, Matched, Known, InRegistry
<1>6. Closing'
  <2>1. module = "unloading" /\ 1 = Len(todo) - 1
    BY <1>1 DEF CallFits
  <2>2. todo[Len(todo)].do = "join" /\ Len(todo) = 2
    BY <2>1 DEF RegistryInv, Closing, TypeOK
  <2>3. Len(todo') = 1 /\ todo'[1] = todo[2] /\ todo' # <<>>
    <3>1. /\ Len(todo') = Len(todo) - 1 /\ DOMAIN todo = 1..Len(todo)
          /\ \A i \in DOMAIN todo : i # 1 => i - 1 \in DOMAIN todo' /\ todo'[i - 1] = todo[i]
      BY <1>1, <1>2, Returned DEF RegistryInv, TypeOK
    <3>2. 2 \in DOMAIN todo /\ 2 - 1 = 1
      BY <2>2, <3>1
    <3>3. 1 \in DOMAIN todo' /\ todo'[1] = todo[2]
      BY <3>1, <3>2
    <3> QED BY <2>2, <3>1, <3>3, EmptyTyped
  <2>4. ~exited \/ (queue = <<>> /\ running = NoJob)
    BY DEF RegistryInv, Closing
  <2> QED BY <1>2, <2>1, <2>2, <2>3, <2>4 DEF Closing
<1>7. ControllersHeld'
  BY <1>2, <1>3, RegistryFrame, QueueFrame, RunningFrame, HeldKept DEF RegistryInv
<1>8. OutputsHeld'
  BY <1>2, OutputFrame, QueueFrame, RunningFrame, OutputsKept DEF RegistryInv
<1>9. Served'
  BY <1>2 DEF RegistryInv, Served
<1>10. NothingLeft'
  BY <1>2, QueueFrame, RunningFrame DEF RegistryInv, NothingLeft, Left
<1> QED BY <1>3, <1>4, <1>5, <1>6, <1>7, <1>8, <1>9, <1>10 DEF RegistryInv

LEMMA JoinReaperStep == ASSUME RegistryInv, JoinReaper PROVE RegistryInv'
<1>1. /\ todo # <<>> /\ todo[1].do = "join" /\ CallFits(1)
  BY HeadCall DEF JoinReaper
<1>2. /\ Return /\ exited /\ module' = "unloaded"
      /\ UNCHANGED <<registryVars, events, streaming, controllerVars, outputVars, reaperVars>>
  BY DEF JoinReaper
<1>3. /\ todo' \in Seq(CallType) /\ LinkedStartsDistinct' /\ Scheduling'
      /\ \A c \in Controllers : (Moving(c)' <=> Moving(c)) /\ (MovesOnce(c) => MovesOnce(c)')
  BY <1>1, <1>2, CallReturns DEF HandsOver
<1>4. module = "unloading" /\ todo' = <<>>
  <2>1. module = "unloading" /\ Len(todo) = 1
    BY <1>1 DEF CallFits
  <2>2. Len(todo') = 0
    BY <1>1, <1>2, <2>1, Returned DEF RegistryInv, TypeOK
  <2> QED BY <1>3, <2>1, <2>2, EmptySeq
<1>5. TypeOK'
  BY <1>2, <1>3 DEF RegistryInv, TypeOK
<1>6. DistinctIds' /\ Matched'
  BY <1>2 DEF RegistryInv, DistinctIds, Matched, InRegistry
<1>7. Script'
  BY <1>4, EmptyTyped DEF Script
<1>8. Closing'
  BY <1>2, <1>4 DEF RegistryInv, Closing
<1>9. ControllersHeld'
  <2>1. \A c \in Controllers : ~Registered(c)' /\ ~Registered(c)
    BY <1>2, <1>4 DEF Registered, InRegistry
  <2> QED BY <1>2, <1>3, <2>1, QueueFrame, RunningFrame, HeldKept DEF RegistryInv
<1>10. OutputsHeld'
  BY <1>2, OutputFrame, QueueFrame, RunningFrame, OutputsKept DEF RegistryInv
<1>11. Served'
  BY <1>2 DEF RegistryInv, Served
<1>12. NothingLeft'
  BY <1>2, QueueFrame, RunningFrame DEF RegistryInv, NothingLeft, Left
<1> QED BY <1>3, <1>5, <1>6, <1>7, <1>8, <1>9, <1>10, <1>11, <1>12 DEF RegistryInv

(* stop() as the first half of a hand-over leaves the enqueue() in its place. *)
LEMMA StopReturns ==
    ASSUME RegistryInv, todo # <<>>, todo[1].do \in {"stop", "stop_running", "hand_over"},
           UNCHANGED <<registryVars, module, shuttingDown, exited>>,
           exited => UNCHANGED <<queue, running>>,
           Then(IF todo[1].do = "hand_over" THEN <<Call("enqueue", todo[1].ctrl, None)>> ELSE <<>>),
           todo[1].do = "hand_over" => status'[todo[1].ctrl] = "Idle" /\ output'[todo[1].ctrl] = None
    PROVE  /\ todo' \in Seq(CallType)
           /\ \A c \in Controllers : (Moving(c)' <=> Moving(c)) /\ (MovesOnce(c) => MovesOnce(c)')
           /\ Script' /\ LinkedStartsDistinct' /\ Scheduling' /\ Closing'
<1>1. CASE todo[1].do # "hand_over"
  <2>1. Return /\ ~HandsOver(todo[1]) /\ todo[1].do \notin {"shutdown", "join", "persist"}
    BY <1>1 DEF Return, HandsOver
  <2> QED BY <2>1, CallReturns
<1>2. CASE todo[1].do = "hand_over"
  <2> DEFINE c == todo[1].ctrl
             call == Call("enqueue", c, None)
  <2>1. /\ 1 \in DOMAIN todo /\ CallFits(1) /\ HandsOver(todo[1]) /\ todo \in Seq(CallType)
    <3>1. 1 \in DOMAIN todo /\ todo \in Seq(CallType)
      BY TailAt DEF RegistryInv, TypeOK
    <3> QED BY <1>2, <3>1 DEF RegistryInv, Script, HandsOver
  <2>2. c \in Controllers
    BY <2>1 DEF CallFits
  <2>3. call \in CallType /\ call.do = "enqueue" /\ call.ctrl = c
    BY <2>2, CallTyped DEF Do
  <2>4. todo' = <<call>> \o Tail(todo)
    BY <1>2 DEF Then
  <2> HIDE DEF c, call
  <2>5. /\ todo' \in Seq(CallType) /\ DOMAIN todo' = DOMAIN todo /\ Len(todo') = Len(todo)
        /\ todo'[1] = call /\ \A i \in DOMAIN todo : i # 1 => todo'[i] = todo[i]
    <3>1. PICK u, v : u = <<call>> /\ v = Tail(todo)
      OBVIOUS
    <3>2. u \in Seq(CallType) /\ Len(u) = 1 /\ u[1] = call
      BY <2>3, <3>1, OneCall
    <3>3. /\ v \in Seq(CallType) /\ Len(v) = Len(todo) - 1 /\ Len(todo) \in Nat
          /\ DOMAIN todo = 1..Len(todo) /\ DOMAIN v = 1..(Len(todo) - 1)
          /\ \A i \in DOMAIN v : v[i] = todo[i + 1]
      <4>1. v \in Seq(CallType)
        BY <2>1, <3>1, TailTyped
      <4>2. \A i \in DOMAIN v : v[i] = todo[i + 1]
        BY <2>1, <3>1, TailAt
      <4>3. Len(v) = Len(todo) - 1 /\ Len(todo) \in Nat /\ DOMAIN todo = 1..Len(todo)
        BY <2>1, <3>1, HeadTailProperties
      <4>4. DOMAIN v = 1..(Len(todo) - 1)
        BY <4>1, <4>3
      <4> QED BY <4>1, <4>2, <4>3, <4>4
    <3>4. /\ u \o v \in Seq(CallType) /\ Len(u \o v) = Len(u) + Len(v)
          /\ \A i \in 1..(Len(u) + Len(v)) : (u \o v)[i] = IF i <= Len(u) THEN u[i] ELSE v[i - Len(u)]
      <4>1. u \in Seq(CallType) /\ v \in Seq(CallType)
        BY <3>2, <3>3
      <4> QED BY <4>1, ConcatProperties, Zenon
    <3>5. PICK w : w = u \o v
      OBVIOUS
    <3>6. /\ w \in Seq(CallType) /\ Len(w) = Len(todo)
          /\ \A i \in 1..Len(todo) : w[i] = IF i <= 1 THEN u[i] ELSE v[i - 1]
      BY <3>2, <3>3, <3>4, <3>5
    <3>7. DOMAIN w = DOMAIN todo /\ w[1] = call
      BY <2>1, <3>2, <3>3, <3>6
    <3>8. ASSUME NEW i \in DOMAIN todo, i # 1 PROVE w[i] = todo[i]
      <4>1. i - 1 \in DOMAIN v /\ (i - 1) + 1 = i /\ ~(i <= 1) /\ i \in 1..Len(todo)
        BY <3>3, <3>8
      <4> QED BY <3>3, <3>6, <4>1
    <3>9. todo' = w
      BY <2>4, <3>1, <3>5
    <3> QED BY <3>6, <3>7, <3>8, <3>9
  <2>6. \A i \in DOMAIN todo : /\ HandsOver(todo'[i]) <=> HandsOver(todo[i])
                               /\ HandsOver(todo[i]) => todo'[i].ctrl = todo[i].ctrl
    <3>1. HandsOver(todo'[1]) /\ todo'[1].ctrl = todo[1].ctrl
      BY <2>3, <2>5 DEF HandsOver, c
    <3> QED BY <2>1, <2>5, <3>1
  <2>7. \A d \in Controllers : (Moving(d)' <=> Moving(d)) /\ (MovesOnce(d) => MovesOnce(d)')
    <3>1. ASSUME NEW d \in Controllers
          PROVE  /\ Moving(d)' <=> \E i \in DOMAIN todo' : HandsOver(todo'[i]) /\ todo'[i].ctrl = d
                 /\ MovesOnce(d)' <=> \A i, j \in DOMAIN todo' :
                       HandsOver(todo'[i]) /\ HandsOver(todo'[j]) /\ todo'[i].ctrl = d
                       /\ todo'[j].ctrl = d => i = j
      BY DEF Moving, MovesOnce, HandsOver
    <3> QED BY <2>5, <2>6, <3>1 DEF Moving, MovesOnce
  <2>8. Script'
    <3> SUFFICES ASSUME NEW i \in DOMAIN todo PROVE CallFits(i)'
      BY <2>5 DEF Script
    <3>1. CASE i = 1
      BY <1>2, <2>2, <2>3, <2>5, <3>1 DEF CallFits, HandsOver, c
    <3>2. CASE i # 1
      <4>1. CallFits(i) /\ todo'[i] = todo[i] /\ Known' = Known
        BY <2>5, <3>2 DEF RegistryInv, Script, Known
      <4>2. todo[i].do = "stop" =>
               \E j \in DOMAIN todo' : i < j /\ HandsOver(todo'[j]) /\ todo'[j].ctrl = todo'[i].ctrl
        BY <2>5, <2>6, <4>1 DEF CallFits
      <4>3. todo[i].do # "enqueue"
        BY <3>2, <4>1 DEF CallFits
      <4> QED BY <2>5, <4>1, <4>2, <4>3 DEF CallFits, HandsOver
    <3> QED BY <3>1, <3>2
  <2>9. LinkedStartsDistinct'
    <3>1. ASSUME NEW i \in DOMAIN todo', todo'[i].do = "start" PROVE i # 1
      BY <2>3, <2>5, <3>1
    <3>2. ASSUME NEW i \in DOMAIN todo', NEW j \in DOMAIN todo', todo'[i].do = "start",
                 todo'[j].do = "start", IsDuplicateTarget(todo'[i].ep.target, todo'[j].ep.target)
          PROVE  i = j
      BY <2>5, <3>1, <3>2 DEF RegistryInv, LinkedStartsDistinct
    <3> QED BY <3>2 DEF LinkedStartsDistinct, IsDuplicateTarget
  <2>10. Scheduling'
    <3>1. \A i \in DOMAIN todo : todo[i].do = "persist" => i # 1
      BY <1>2
    <3> QED BY <2>5, <3>1 DEF RegistryInv, Scheduling
  <2>11. Closing'
    <3>1. ASSUME module = "unloading" PROVE todo' # <<>> /\ todo'[Len(todo')].do = "join"
      <4>1. todo[Len(todo)].do = "join"
        BY <3>1 DEF RegistryInv, Closing
      <4>2. Len(todo) \in DOMAIN todo /\ Len(todo) # 1
        BY <1>2, <2>1, <4>1
      <4>3. DOMAIN todo' # {}
        BY <2>1, <2>5
      <4> QED BY <2>5, <4>1, <4>2, <4>3, EmptyTyped
    <3>2. ASSUME module = "unloading", ~shuttingDown
          PROVE  Len(todo') >= 2 /\ todo'[Len(todo') - 1].do = "shutdown"
      <4>1. Len(todo) >= 2 /\ todo[Len(todo) - 1].do = "shutdown"
        BY <3>2 DEF RegistryInv, Closing
      <4>2. Len(todo) - 1 \in DOMAIN todo
        BY <2>1, <4>1
      <4>3. Len(todo) - 1 # 1
        BY <1>2, <4>1
      <4> QED BY <2>5, <4>1, <4>2, <4>3
    <3>3. module # "unloaded"
      BY DEF RegistryInv, Closing
    <3> QED BY <2>5, <3>1, <3>2, <3>3 DEF RegistryInv, Closing
  <2> QED BY <2>5, <2>7, <2>8, <2>9, <2>10, <2>11
<1> QED BY <1>1, <1>2

(* The session of a stopped controller goes to the reaper. *)
LEMMA DetachEffect ==
    ASSUME RegistryInv, NEW c \in Controllers, status[c] # "free", Detach(c),
           UNCHANGED <<registryVars, module, settings, service, phase>>,
           IF output[c] = None THEN UNCHANGED reaperVars ELSE Enqueue(Job(None, output[c])),
           \A d \in Controllers : (Moving(d)' <=> Moving(d)) /\ (MovesOnce(d) => MovesOnce(d)')
    PROVE  /\ status' \in [Controllers -> Status] /\ output' \in [Controllers -> Outputs \cup {None}]
           /\ queue' \in Seq(JobType)
           /\ ControllersHeld' /\ OutputsHeld' /\ Served' /\ NothingLeft'
<1>1. /\ status' \in [Controllers -> Status] /\ output' \in [Controllers -> Outputs \cup {None}]
      /\ \A d \in Controllers : /\ status'[d] = IF d = c THEN "Idle" ELSE status[d]
                                /\ output'[d] = IF d = c THEN None ELSE output[d]
  BY DEF Detach, RegistryInv, TypeOK, Status
<1>2. /\ queue' \in Seq(JobType) /\ UNCHANGED <<running, shuttingDown, exited>>
      /\ \A d \in Controllers : (Queued(d)' <=> Queued(d)) /\ (QueuedOnce(d) => QueuedOnce(d)')
      /\ \A o \in Outputs :
            /\ OutputQueued(o)' <=> OutputQueued(o) \/ output[c] = o
            /\ OutputQueuedOnce(o) /\ (output[c] = o => ~OutputQueued(o)) => OutputQueuedOnce(o)'
  <2>1. CASE output[c] = None
    BY <2>1, QueueFrame, RegistryConstants DEF RegistryInv, TypeOK
  <2>2. CASE output[c] # None
    <3>1. output[c] \in Outputs /\ Enqueue(Job(None, output[c]))
      BY <2>2 DEF RegistryInv, TypeOK
    <3>2. /\ Job(None, output[c]) \in JobType /\ Job(None, output[c]).ctrl = None
          /\ Job(None, output[c]).output = output[c]
      BY <3>1, JobTyped
    <3> QED BY <3>1, <3>2, EnqueueEffect, RegistryConstants DEF RegistryInv
  <2> QED BY <2>1, <2>2
<1>3. ControllersHeld'
  <2>1. \A d \in Controllers : /\ (Registered(d)' <=> Registered(d)) /\ (Runs(d)' <=> Runs(d))
                               /\ status'[d] = "free" <=> status[d] = "free"
    BY <1>1, <1>2, RegistryFrame, RunningFrame
  <2> QED BY <1>2, <2>1, HeldKept DEF RegistryInv
<1>4. OutputsHeld'
  <2>1. \A o \in Outputs : OwnedOnce(o) => OwnedOnce(o)' /\ (output[c] = o => ~Owned(o)')
    BY <1>1, RegistryConstants DEF Owned, OwnedOnce
  <2>2. \A o \in Outputs : Owned(o) <=> Owned(o)' \/ output[c] = o
    BY <1>1, RegistryConstants DEF Owned
  <2>3. \A o \in Outputs : OutputRuns(o)' <=> OutputRuns(o)
    BY <1>2, RunningFrame
  <2> QED BY <1>2, <2>1, <2>2, <2>3 DEF RegistryInv, OutputsHeld, OneOwner
<1>5. Served'
  BY <1>1 DEF RegistryInv, Served
<1>6. NothingLeft'
  BY <1>1, <1>2, RunningFrame DEF RegistryInv, NothingLeft, Left
<1> QED BY <1>1, <1>2, <1>3, <1>4, <1>5, <1>6

LEMMA StopControllerStep == ASSUME RegistryInv, StopController PROVE RegistryInv'
<1> DEFINE c == todo[1].ctrl
<1>1. /\ todo # <<>> /\ todo[1].do \in {"stop", "stop_running", "hand_over"}
      /\ 1 \in DOMAIN todo /\ Head(todo) = todo[1] /\ todo[1] \in CallType /\ CallFits(1)
  BY HeadCall DEF StopController
<1>2. /\ Then(IF todo[1].do = "hand_over" THEN <<Call("enqueue", todo[1].ctrl, None)>> ELSE <<>>)
      /\ UNCHANGED <<registryVars, events, streaming, module, settings, outputVars>>
      /\ IF todo[1].do = "stop_running" /\ (c = None \/ ~IsRunning(c))
         THEN UNCHANGED <<status, output, reaperVars>>
         ELSE /\ Detach(c)
              /\ IF output[c] = None THEN UNCHANGED reaperVars ELSE Enqueue(Job(None, output[c]))
  BY <1>1 DEF StopController
<1>3. DistinctIds' /\ Matched'
  BY <1>2 DEF RegistryInv, DistinctIds, Matched, Known, InRegistry
<1>4. CASE todo[1].do = "stop_running" /\ (c = None \/ ~IsRunning(c))
  <2>1. UNCHANGED <<status, output, reaperVars>>
    BY <1>2, <1>4
  <2>2. /\ todo' \in Seq(CallType)
        /\ \A d \in Controllers : (Moving(d)' <=> Moving(d)) /\ (MovesOnce(d) => MovesOnce(d)')
        /\ Script' /\ LinkedStartsDistinct' /\ Scheduling' /\ Closing'
    BY <1>1, <1>2, <1>4, <2>1, StopReturns
  <2>3. TypeOK'
    BY <1>2, <2>1, <2>2 DEF RegistryInv, TypeOK
  <2>4. ControllersHeld'
    BY <1>2, <2>1, <2>2, RegistryFrame, QueueFrame, RunningFrame, HeldKept DEF RegistryInv
  <2>5. OutputsHeld'
    BY <1>2, <2>1, OutputFrame, QueueFrame, RunningFrame, OutputsKept DEF RegistryInv
  <2>6. Served'
    BY <1>2, <2>1 DEF RegistryInv, Served
  <2>7. NothingLeft'
    BY <2>1, QueueFrame, RunningFrame DEF RegistryInv, NothingLeft, Left
  <2> QED BY <1>3, <2>2, <2>3, <2>4, <2>5, <2>6, <2>7 DEF RegistryInv
<1>5. CASE ~(todo[1].do = "stop_running" /\ (c = None \/ ~IsRunning(c)))
  <2>1. /\ Detach(c)
        /\ IF output[c] = None THEN UNCHANGED reaperVars ELSE Enqueue(Job(None, output[c]))
    BY <1>2, <1>5
  <2>2. c \in Controllers /\ status[c] # "free"
    <3>1. CASE todo[1].do = "stop_running"
      <4>1. c \in Controllers \cup {None} /\ c # None /\ IsRunning(c)
        BY <1>1, <1>5, <3>1 DEF CallType
      <4> QED BY <4>1 DEF IsRunning
    <3>2. CASE todo[1].do # "stop_running"
      <4>1. c \in Controllers /\ Moving(c)
        <5>1. CASE todo[1].do = "hand_over"
          BY <1>1, <5>1 DEF CallFits, HandsOver, Moving
        <5>2. CASE todo[1].do = "stop"
          <6>1. PICK j \in DOMAIN todo : HandsOver(todo[j]) /\ todo[j].ctrl = c
            BY <1>1, <5>2 DEF CallFits
          <6>2. CallFits(j)
            BY DEF RegistryInv, Script
          <6> QED BY <6>1, <6>2 DEF CallFits, Moving
        <5> QED BY <1>1, <3>2, <5>1, <5>2
      <4> QED BY <4>1 DEF RegistryInv, ControllersHeld, OneHolder
    <3> QED BY <3>1, <3>2
  <2>3. status'[c] = "Idle" /\ output'[c] = None
    BY <2>1, <2>2 DEF Detach, RegistryInv, TypeOK
  <2>4. UNCHANGED <<running, shuttingDown, exited>> /\ (exited => UNCHANGED queue)
    <3>1. CASE output[c] = None
      BY <2>1, <3>1
    <3>2. CASE output[c] # None
      BY <2>1, <3>2 DEF Enqueue, RegistryInv, Closing
    <3> QED BY <3>1, <3>2
  <2>5. /\ todo' \in Seq(CallType)
        /\ \A d \in Controllers : (Moving(d)' <=> Moving(d)) /\ (MovesOnce(d) => MovesOnce(d)')
        /\ Script' /\ LinkedStartsDistinct' /\ Scheduling' /\ Closing'
    BY <1>1, <1>2, <2>3, <2>4, StopReturns
  <2> HIDE DEF c
  <2>6. /\ status' \in [Controllers -> Status] /\ output' \in [Controllers -> Outputs \cup {None}]
        /\ queue' \in Seq(JobType)
        /\ ControllersHeld' /\ OutputsHeld' /\ Served' /\ NothingLeft'
    BY <1>2, <2>1, <2>2, <2>5, DetachEffect
  <2>7. TypeOK'
    BY <1>2, <2>4, <2>5, <2>6 DEF RegistryInv, TypeOK, Status
  <2> QED BY <1>3, <2>5, <2>6, <2>7 DEF RegistryInv
<1> QED BY <1>4, <1>5

(* start(): refused, failed, or an output of its own begins to connect. *)
LEMMA StartControllerStep == ASSUME RegistryInv, StartController PROVE RegistryInv'
<1> DEFINE c == controllers[todo[1].ep.id]
<1>1. /\ todo # <<>> /\ todo[1].do = "start" /\ Head(todo) = todo[1] /\ CallFits(1)
  BY HeadCall DEF StartController
<1>2. /\ Return /\ UNCHANGED <<registryVars, events, streaming, module, settings, reaperVars>>
      /\ \/ UNCHANGED <<status, output, outputVars>>
         \/ /\ ~IsRunning(c)
            /\ status' = [status EXCEPT ![c] = "FailedHard"]
            /\ UNCHANGED <<output, outputVars>>
         \/ \E o \in Outputs :
              /\ \/ /\ output[c] = None /\ AbsentOutputs # {} /\ o = Fresh(AbsentOutputs)
                    /\ service' = [service EXCEPT ![o] = settings[c]]
                 \/ output[c] = o /\ phase[o] = "idle" /\ UNCHANGED service
              /\ status' = [status EXCEPT ![c] = "Starting"]
              /\ output' = [output EXCEPT ![c] = o]
              /\ phase' = [phase EXCEPT ![o] = "connecting"]
  BY <1>1 DEF StartController
<1>3. c \in Controllers /\ Registered(c)
  <2>1. module = "loaded" /\ todo[1].ep.id \in Known
    BY <1>1 DEF CallFits
  <2>2. PICK i \in DOMAIN endpoints : endpoints[i].id = todo[1].ep.id
    BY <2>1 DEF Known
  <2>3. todo[1].ep.id \in Ids /\ InRegistry
    BY <2>1, <2>2, Found DEF RegistryInv, TypeOK, InRegistry
  <2>4. c \in Controllers
    BY <2>1, <2>3 DEF RegistryInv, TypeOK, Matched
  <2> QED BY <2>2, <2>3, <2>4 DEF Registered
<1>4. status[c] # "free" /\ ~Queued(c) /\ ~Runs(c)
  BY <1>3 DEF RegistryInv, ControllersHeld, OneHolder
<1>5. /\ todo' \in Seq(CallType) /\ Script' /\ LinkedStartsDistinct' /\ Scheduling' /\ Closing'
      /\ \A d \in Controllers : (Moving(d)' <=> Moving(d)) /\ (MovesOnce(d) => MovesOnce(d)')
  BY <1>1, <1>2, CallReturns DEF HandsOver
<1>6. DistinctIds' /\ Matched'
  <2>1. UNCHANGED <<endpoints, controllers, settings, module>> /\ DistinctIds /\ Matched
    BY <1>2 DEF registryVars, RegistryInv
  <2> QED BY <2>1 DEF DistinctIds, Matched, Known, InRegistry
<1> HIDE DEF c
<1>7. /\ \A d \in Controllers : (Queued(d)' <=> Queued(d)) /\ (QueuedOnce(d)' <=> QueuedOnce(d))
                                /\ (Runs(d)' <=> Runs(d)) /\ (Registered(d)' <=> Registered(d))
      /\ \A o \in Outputs :
            (OutputQueued(o)' <=> OutputQueued(o)) /\ (OutputQueuedOnce(o)' <=> OutputQueuedOnce(o))
            /\ (OutputRuns(o)' <=> OutputRuns(o))
  BY <1>2, QueueFrame, RunningFrame, RegistryFrame
<1>8. ASSUME status' \in [Controllers -> Status] /\ \A d \in Controllers : d # c => status'[d] = status[d],
             status'[c] # "free"
      PROVE  ControllersHeld'
  <2>1. \A d \in Controllers : status'[d] = "free" <=> status[d] = "free"
    BY <1>3, <1>4, <1>8
  <2> QED BY <1>5, <1>7, <2>1, HeldKept DEF RegistryInv
<1>9. CASE UNCHANGED <<status, output, outputVars>>
  <2>1. TypeOK'
    BY <1>2, <1>5, <1>9 DEF RegistryInv, TypeOK
  <2>2. ControllersHeld'
    BY <1>3, <1>4, <1>8, <1>9 DEF RegistryInv, TypeOK, Status
  <2>3. OutputsHeld'
    BY <1>7, <1>9, OutputFrame, OutputsKept DEF RegistryInv
  <2>4. Served'
    BY <1>2, <1>9 DEF RegistryInv, Served
  <2>5. NothingLeft'
    BY <1>7, <1>9 DEF RegistryInv, NothingLeft, Left
  <2> QED BY <1>5, <1>6, <2>1, <2>2, <2>3, <2>4, <2>5 DEF RegistryInv
<1>10. CASE status' = [status EXCEPT ![c] = "FailedHard"] /\ UNCHANGED <<output, outputVars>>
  <2>0. status' \in [Controllers -> Status] /\ \A d \in Controllers : status'[d] = IF d = c THEN "FailedHard" ELSE status[d]
    BY <1>10 DEF RegistryInv, TypeOK, Status
  <2>1. TypeOK'
    BY <1>2, <1>5, <1>10, <2>0 DEF RegistryInv, TypeOK, Status
  <2>2. ControllersHeld'
    BY <1>3, <1>8, <2>0
  <2>3. OutputsHeld'
    BY <1>7, <1>10, OutputFrame, OutputsKept DEF RegistryInv
  <2>4. Served'
    BY <1>2, <1>10 DEF RegistryInv, Served
  <2>5. NothingLeft'
    BY <1>4, <1>7, <1>10, <2>0 DEF RegistryInv, NothingLeft, Left
  <2> QED BY <1>5, <1>6, <2>1, <2>2, <2>3, <2>4, <2>5 DEF RegistryInv
<1>11. ASSUME NEW o \in Outputs,
              \/ /\ output[c] = None /\ AbsentOutputs # {} /\ o = Fresh(AbsentOutputs)
                 /\ service' = [service EXCEPT ![o] = settings[c]]
              \/ output[c] = o /\ phase[o] = "idle" /\ UNCHANGED service,
              status' = [status EXCEPT ![c] = "Starting"],
              output' = [output EXCEPT ![c] = o],
              phase' = [phase EXCEPT ![o] = "connecting"]
       PROVE  RegistryInv'
  <2>1. /\ status' \in [Controllers -> Status]
        /\ \A d \in Controllers : status'[d] = IF d = c THEN "Starting" ELSE status[d]
        /\ output' \in [Controllers -> Outputs \cup {None}]
        /\ \A d \in Controllers : output'[d] = IF d = c THEN o ELSE output[d]
        /\ phase' \in [Outputs -> Phase]
        /\ \A x \in Outputs : phase'[x] = IF x = o THEN "connecting" ELSE phase[x]
    BY <1>11 DEF RegistryInv, TypeOK, Status, Phase
  <2>2. \/ /\ output[c] = None /\ phase[o] = "absent"
           /\ service' = [service EXCEPT ![o] = settings[c]]
        \/ output[c] = o /\ UNCHANGED service
    BY <1>11, FreshIn DEF AbsentOutputs
  <2>3. service' \in [Outputs -> Endpoint \cup {None}]
    BY <1>3, <2>2 DEF RegistryInv, TypeOK
  <2>4. TypeOK'
    BY <1>2, <1>5, <2>1, <2>3 DEF RegistryInv, TypeOK, Status, Phase
  <2>5. ControllersHeld'
    BY <1>3, <1>8, <2>1
  <2>6. /\ \A d \in Controllers : d # c => output[d] # o
        /\ ~OutputQueued(o) /\ ~OutputRuns(o)
    <3>1. OneOwner(o)
      BY DEF RegistryInv, OutputsHeld
    <3>2. CASE phase[o] = "absent"
      BY <3>1, <3>2 DEF OneOwner, Owned
    <3>3. CASE output[c] = o
      BY <1>3, <3>1, <3>3 DEF OneOwner, Owned, OwnedOnce
    <3> QED BY <2>2, <3>2, <3>3
  <2>7. OutputsHeld'
    <3>1. \A x \in Outputs : Owned(x)' <=> Owned(x) \/ x = o
      BY <1>3, <2>1, <2>2, RegistryConstants DEF Owned
    <3>2. \A x \in Outputs : OwnedOnce(x) => OwnedOnce(x)'
      BY <1>3, <2>1, <2>2, <2>6 DEF OwnedOnce
    <3>3. \A x \in Outputs : phase'[x] # "absent" <=> phase[x] # "absent" \/ x = o
      BY <2>1
    <3> QED BY <1>7, <2>6, <3>1, <3>2, <3>3 DEF RegistryInv, OutputsHeld, OneOwner
  <2>8. Served'
    <3> SUFFICES ASSUME NEW d \in Controllers, output'[d] # None
                 PROVE  service'[output'[d]] = settings[d]
      BY <1>2 DEF Served
    <3>1. CASE d = c
      BY <2>1, <2>2, <3>1, RegistryConstants DEF RegistryInv, TypeOK, Served
    <3>2. CASE d # c
      <4>1. output'[d] = output[d] /\ output[d] # o /\ output[d] \in Outputs
        BY <2>1, <2>6, <3>2 DEF RegistryInv, TypeOK
      <4>2. service'[output[d]] = service[output[d]]
        BY <2>2, <4>1 DEF RegistryInv, TypeOK
      <4> QED BY <4>1, <4>2 DEF RegistryInv, Served
    <3> QED BY <3>1, <3>2
  <2>9. NothingLeft'
    BY <1>4, <1>7, <2>1 DEF RegistryInv, NothingLeft, Left
  <2> QED BY <1>5, <1>6, <2>4, <2>5, <2>7, <2>8, <2>9 DEF RegistryInv
<1> QED BY <1>2, <1>9, <1>10, <1>11

(* update() swaps the controller of one endpoint: the old one is handed over next. *)
LEMMA UpdateStep == ASSUME RegistryInv, Update PROVE RegistryInv'
<1> DEFINE ep == todo[1].ep
           old == controllers[ep.id]
<1>1. /\ 1 \in DOMAIN todo /\ ep \in Endpoint /\ ep.id \in Known /\ module = "loaded"
      /\ NewController(ep) /\ endpoints' = Replace(ep)
      /\ todo' \in Seq(CallType) /\ Len(todo') \in {2, 3} /\ DOMAIN todo' = 1..Len(todo')
      /\ todo'[1].do = "hand_over" /\ todo'[1].ctrl = old
      /\ Len(todo') = 3 => todo'[2].do = "start" /\ todo'[2].ep = ep
      /\ todo'[Len(todo')].do = "persist"
  BY UpdateCalls DEF RegistryInv
<1>2. /\ todo[1].do = "update" /\ Len(todo) = 1 /\ DOMAIN todo = {1}
  <2>1. todo[1].do = "update" /\ CallFits(1)
    BY HeadCall DEF Update
  <2>2. Len(todo) = 1
    BY <2>1 DEF CallFits
  <2> QED BY <2>1, <2>2 DEF RegistryInv, TypeOK
<1>3. UNCHANGED <<scheduled, events, streaming, module, output, outputVars, reaperVars>>
  BY DEF Update
<1>4. InRegistry /\ InRegistry' /\ \A d \in Controllers : ~Moving(d)
  BY <1>1, <1>2, <1>3 DEF InRegistry, Moving, HandsOver
<1> HIDE DEF ep
<1>5. /\ controllers' \in [Ids -> Controllers \cup {None}]
      /\ status' \in [Controllers -> Status] /\ settings' \in [Controllers -> Endpoint \cup {None}]
  BY <1>1, NewTyped DEF RegistryInv
<1>6. PICK c \in Controllers :
         /\ status[c] = "free"
         /\ controllers' = [controllers EXCEPT ![ep.id] = c]
         /\ status' = [status EXCEPT ![c] = "Idle"]
         /\ settings' = [settings EXCEPT ![c] = ep]
  BY <1>1, NewTyped DEF RegistryInv
<1>7. /\ ep.id \in Ids
      /\ \A x \in Ids : controllers'[x] = IF x = ep.id THEN c ELSE controllers[x]
      /\ \A d \in Controllers : /\ status'[d] = IF d = c THEN "Idle" ELSE status[d]
                                /\ settings'[d] = IF d = c THEN ep ELSE settings[d]
  BY <1>1, <1>6 DEF RegistryInv, TypeOK, Endpoint
<1>8. ~Registered(c) /\ ~Moving(c) /\ ~Queued(c) /\ ~Runs(c) /\ output[c] = None
  BY <1>6 DEF RegistryInv, ControllersHeld, OneHolder, NothingLeft, Left
<1>9. PICK k \in DOMAIN endpoints : endpoints[k].id = ep.id
  BY <1>1 DEF Known
<1>10. \A i \in DOMAIN endpoints :
          /\ endpoints[i] \in Endpoint /\ endpoints[i].id \in Ids /\ endpoints[i].id \in Known
          /\ controllers[endpoints[i].id] \in Controllers
          /\ controllers[endpoints[i].id] # c
          /\ endpoints[i].id = ep.id => i = k
  <2>1. ASSUME NEW i \in DOMAIN endpoints
        PROVE  endpoints[i] \in Endpoint /\ endpoints[i].id \in Known /\ endpoints[i].id \in Ids
    BY Found DEF RegistryInv, TypeOK
  <2>2. \A id \in Known : id \in Ids => controllers[id] \in Controllers
    BY <1>4 DEF RegistryInv, TypeOK, Matched
  <2>3. \A i \in DOMAIN endpoints : controllers[endpoints[i].id] # c
    BY <1>4, <1>8 DEF Registered
  <2>4. \A i \in DOMAIN endpoints : endpoints[i].id = ep.id => i = k
    BY <1>9 DEF RegistryInv, DistinctIds
  <2> QED BY <2>1, <2>2, <2>3, <2>4
<1>11. /\ endpoints' \in Seq(Endpoint) /\ DOMAIN endpoints' = DOMAIN endpoints
       /\ \A i \in DOMAIN endpoints :
             /\ endpoints'[i] = IF i = k THEN ep ELSE endpoints[i]
             /\ endpoints'[i].id = endpoints[i].id
  <2>1. endpoints' = [i \in DOMAIN endpoints |-> IF endpoints[i].id = ep.id THEN ep ELSE endpoints[i]]
    BY <1>1 DEF Replace
  <2>2. endpoints' = [i \in DOMAIN endpoints |-> IF i = k THEN ep ELSE endpoints[i]]
    BY <1>9, <1>10, <2>1
  <2>3. Len(endpoints) \in Nat /\ DOMAIN endpoints = 1..Len(endpoints)
    BY DEF RegistryInv, TypeOK
  <2>4. endpoints' \in Seq(Endpoint)
    BY <1>1, <1>10, <2>2, <2>3
  <2> QED BY <1>9, <2>2, <2>4
<1>12. Known' = Known
  BY <1>11 DEF Known
<1>13. /\ \A i \in DOMAIN endpoints :
             controllers'[endpoints'[i].id] = IF i = k THEN c ELSE controllers[endpoints[i].id]
       /\ old = controllers[endpoints[k].id] /\ old \in Controllers /\ old # c
  BY <1>7, <1>9, <1>10, <1>11
<1> HIDE DEF old
<1>14. DistinctIds'
  BY <1>11 DEF RegistryInv, DistinctIds
<1>15. \A i, j \in DOMAIN endpoints :
          controllers[endpoints[i].id] = controllers[endpoints[j].id] => i = j
  BY <1>4 DEF RegistryInv, Matched
<1>16. Matched'
  <2>1. \A x \in Ids : controllers'[x] # None <=> x \in Known'
    BY <1>1, <1>4, <1>7, <1>12, RegistryConstants DEF RegistryInv, Matched
  <2>2. \A i \in DOMAIN endpoints' : settings'[controllers'[endpoints'[i].id]] = endpoints'[i]
    <3>1. \A i \in DOMAIN endpoints : settings[controllers[endpoints[i].id]] = endpoints[i]
      BY <1>4 DEF RegistryInv, Matched
    <3> QED BY <1>7, <1>10, <1>11, <1>13, <3>1
  <2>3. \A i, j \in DOMAIN endpoints' :
           controllers'[endpoints'[i].id] = controllers'[endpoints'[j].id] => i = j
    BY <1>10, <1>11, <1>13, <1>15
  <2> QED BY <2>1, <2>2, <2>3 DEF Matched
<1>17. \A i \in DOMAIN todo' : /\ i = 1 \/ (i = 2 /\ todo'[i].do = "start" /\ todo'[i].ep = ep)
                                   \/ todo'[i].do = "persist"
                               /\ HandsOver(todo'[i]) <=> i = 1
  <2>1. CASE Len(todo') = 2
    <3>1. DOMAIN todo' = 1..2 /\ todo'[2].do = "persist"
      BY <1>1, <2>1
    <3>2. \A i \in DOMAIN todo' : i = 1 \/ i = 2
      BY <3>1, OneOrTwo
    <3> QED BY <1>1, <3>1, <3>2 DEF HandsOver
  <2>2. CASE Len(todo') = 3
    <3>1. DOMAIN todo' = 1..3 /\ todo'[3].do = "persist" /\ todo'[2].do = "start" /\ todo'[2].ep = ep
      BY <1>1, <2>2
    <3>2. \A i \in 1..3 : i = 1 \/ i = 2 \/ i = 3
      OBVIOUS
    <3> QED BY <1>1, <3>1, <3>2 DEF HandsOver
  <2> QED BY <1>1, <2>1, <2>2
<1>18. 1 \in DOMAIN todo' /\ todo'[1].do = "hand_over" /\ todo'[1].ctrl = old
       /\ \E i \in DOMAIN todo' : todo'[i].do = "persist"
  <2>1. Len(todo') \in DOMAIN todo' /\ 1 \in DOMAIN todo'
    BY <1>1
  <2> QED BY <1>1, <2>1
<1>19. /\ \A d \in Controllers : (Moving(d)' <=> d = old) /\ MovesOnce(d)'
  BY <1>17, <1>18 DEF Moving, MovesOnce, HandsOver
<1>20. \A d \in Controllers : /\ Registered(d)' <=> (Registered(d) /\ d # old) \/ d = c
  <2>1. \A d \in Controllers : Registered(d) <=> \E i \in DOMAIN endpoints : controllers[endpoints[i].id] = d
    BY <1>4 DEF Registered
  <2>2. \A d \in Controllers :
           Registered(d)' <=> \E i \in DOMAIN endpoints : controllers'[endpoints'[i].id] = d
    BY <1>4, <1>11 DEF Registered
  <2>3. ASSUME NEW d \in Controllers, Registered(d)' PROVE (Registered(d) /\ d # old) \/ d = c
    <3>1. PICK i \in DOMAIN endpoints : controllers'[endpoints'[i].id] = d
      BY <2>2, <2>3
    <3>2. CASE i = k
      BY <1>13, <3>1, <3>2
    <3>3. CASE i # k
      BY <1>13, <1>15, <2>1, <3>1, <3>3
    <3> QED BY <3>2, <3>3
  <2>4. ASSUME NEW d \in Controllers, Registered(d), d # old PROVE Registered(d)'
    <3>1. PICK i \in DOMAIN endpoints : controllers[endpoints[i].id] = d
      BY <2>1, <2>4
    <3> QED BY <1>13, <2>2, <2>4, <3>1
  <2>5. Registered(c)'
    BY <1>13, <2>2
  <2> QED BY <2>3, <2>4, <2>5
<1>21. Registered(old)
  BY <1>4, <1>13 DEF Registered
<1>22. \A d \in Controllers : (Queued(d)' <=> Queued(d)) /\ (QueuedOnce(d)' <=> QueuedOnce(d))
                              /\ (Runs(d)' <=> Runs(d))
  BY <1>3, QueueFrame, RunningFrame
<1>23. ControllersHeld'
  BY <1>4, <1>7, <1>8, <1>13, <1>19, <1>20, <1>21, <1>22 DEF RegistryInv, ControllersHeld, OneHolder
<1>24. OutputsHeld'
  BY <1>3, OutputFrame, QueueFrame, RunningFrame, OutputsKept DEF RegistryInv
<1>25. Served'
  BY <1>3, <1>7, <1>8 DEF RegistryInv, Served
<1>26. NothingLeft'
  BY <1>3, <1>7, <1>8, <1>22 DEF RegistryInv, NothingLeft, Left
<1>27. TypeOK'
  BY <1>1, <1>3, <1>5, <1>11 DEF RegistryInv, TypeOK, Status
<1>28. Script'
  <2> SUFFICES ASSUME NEW i \in DOMAIN todo' PROVE CallFits(i)'
    BY DEF Script
  <2>1. CASE i = 1
    BY <1>13, <1>18, <2>1 DEF CallFits, HandsOver
  <2>2. CASE todo'[i].do = "start" /\ todo'[i].ep = ep
    BY <1>1, <1>3, <1>12, <2>2 DEF CallFits, HandsOver
  <2>3. CASE todo'[i].do = "persist"
    BY <2>3 DEF CallFits, HandsOver
  <2> QED BY <1>17, <2>1, <2>2, <2>3
<1>29. Closing'
  BY <1>3, <1>4, StaysOpen
<1>30. Scheduling'
  BY <1>18 DEF Scheduling
<1>31. LinkedStartsDistinct'
  <2>1. \A i \in DOMAIN todo' : todo'[i].do = "start" => i = 2
    BY <1>17, <1>18
  <2> QED BY <2>1 DEF LinkedStartsDistinct
<1> QED BY <1>14, <1>16, <1>23, <1>24, <1>25, <1>26, <1>27, <1>28, <1>29, <1>30, <1>31 DEF RegistryInv

-----------------------------------------------------------------------------
(* The invariant.                                                          *)

LEMMA InitRegistryInv == Init => RegistryInv
<1> SUFFICES ASSUME Init PROVE RegistryInv
  OBVIOUS
<1>1. TypeOK /\ DistinctIds
  BY InitTyped
<1>2. /\ scheduled = endpoints /\ todo = <<>> /\ module = "loaded" /\ queue = <<>> /\ running = NoJob
      /\ shuttingDown = FALSE /\ exited = FALSE /\ output = [c \in Controllers |-> None]
      /\ phase = [o \in Outputs |-> "absent"]
  BY DEF Init, ReaperInit
<1>3. DOMAIN todo = {} /\ DOMAIN queue = {} /\ InRegistry
  BY <1>2, EmptyTyped DEF InRegistry
<1>4. PICK f \in [Known -> Controllers] :
         /\ \A id, other \in Known : f[id] = f[other] => id = other
         /\ controllers = [id \in Ids |-> IF id \in Known THEN f[id] ELSE None]
         /\ \A id \in Known : settings[f[id]] = EndpointOf(id)
         /\ \A c \in Controllers : status[c] # "free" <=> \E id \in Known : f[id] = c
  BY InitGives
<1>5. \A i \in DOMAIN endpoints :
         /\ endpoints[i].id \in Known /\ EndpointOf(endpoints[i].id) = endpoints[i]
         /\ controllers[endpoints[i].id] = f[endpoints[i].id]
  <2>1. ASSUME NEW i \in DOMAIN endpoints
        PROVE  endpoints[i].id \in Known \cap Ids /\ EndpointOf(endpoints[i].id) = endpoints[i]
    BY <1>1, Found DEF TypeOK
  <2> QED BY <1>4, <2>1
<1>6. Script /\ Scheduling /\ LinkedStartsDistinct
  BY <1>2, <1>3 DEF Script, Scheduling, LinkedStartsDistinct
<1>7. Closing
  BY <1>2 DEF Closing
<1>8. \A c \in Controllers : Registered(c) <=> status[c] # "free"
  <2>1. \A c \in Controllers : Registered(c) <=> \E i \in DOMAIN endpoints : f[endpoints[i].id] = c
    BY <1>3, <1>5 DEF Registered
  <2>2. \A id \in Known : \E i \in DOMAIN endpoints : endpoints[i].id = id
    BY DEF Known
  <2> QED BY <1>4, <1>5, <2>1, <2>2
<1>9. \A c \in Controllers : ~Moving(c) /\ ~Queued(c) /\ ~Runs(c) /\ MovesOnce(c) /\ QueuedOnce(c)
  BY <1>2, <1>3 DEF Moving, Queued, Runs, MovesOnce, QueuedOnce, Working
<1>10. ControllersHeld
  BY <1>8, <1>9 DEF ControllersHeld, OneHolder
<1>11. OutputsHeld
  <2>1. \A o \in Outputs : /\ ~Owned(o) /\ ~OutputQueued(o) /\ ~OutputRuns(o)
                           /\ OwnedOnce(o) /\ OutputQueuedOnce(o)
    BY <1>2, <1>3, RegistryConstants
       DEF Owned, OutputQueued, OutputRuns, OwnedOnce, OutputQueuedOnce, Working
  <2> QED BY <1>2, <2>1 DEF OutputsHeld, OneOwner
<1>12. Matched
  <2>1. \A id \in Ids : controllers[id] # None <=> id \in Known
    BY <1>4, RegistryConstants
  <2>2. \A i \in DOMAIN endpoints : settings[controllers[endpoints[i].id]] = endpoints[i]
    BY <1>4, <1>5
  <2>3. \A i, j \in DOMAIN endpoints :
           controllers[endpoints[i].id] = controllers[endpoints[j].id] => i = j
    BY <1>1, <1>4, <1>5 DEF DistinctIds
  <2> QED BY <2>1, <2>2, <2>3 DEF Matched
<1>13. Served
  BY <1>2 DEF Served
<1>14. NothingLeft
  BY <1>2, <1>9 DEF NothingLeft, Left
<1> QED BY <1>1, <1>6, <1>7, <1>10, <1>11, <1>12, <1>13, <1>14 DEF RegistryInv

LEMMA NextRegistryInv == RegistryInv /\ [Next]_vars => RegistryInv'
<1> SUFFICES ASSUME RegistryInv, [Next]_vars PROVE RegistryInv'
  OBVIOUS
<1>1. CASE UNCHANGED vars
  <2>1. /\ UNCHANGED <<registryVars, todo, events, streaming, module, settings, output, service, reaperVars>>
        /\ UNCHANGED <<status, phase>>
    BY <1>1 DEF vars
  <2>2. phase' \in [Outputs -> Phase] /\ \A o \in Outputs : phase'[o] = "absent" <=> phase[o] = "absent"
    BY <2>1 DEF RegistryInv, TypeOK, Phase
  <2> QED BY <2>1, <2>2, SameStatus, OutputStep
<1>2. CASE UIEvent
  <2>1. ASSUME NEW ep \in Endpoint, Add(ep) \/ Edit(ep) PROVE RegistryInv'
    BY <2>1, AddStep, EditStep
  <2>2. ASSUME NEW id \in Ids, Toggle(id) \/ Delete(id) PROVE RegistryInv'
    BY <2>2, ToggleStep, DeleteStep
  <2>3. CASE Reorder
    BY <2>3, ReorderStep
  <2>4. CASE MainStops \/ OBSExit
    BY <2>4, StopAllStep
  <2>5. CASE Unload
    BY <2>5, UnloadStep
  <2>6. ASSUME NEW main \in Targets, MainStarts(main) PROVE RegistryInv'
    BY <2>6, MainStartsStep
  <2> QED BY <1>2, <2>1, <2>2, <2>3, <2>4, <2>5, <2>6 DEF UIEvent
<1>3. CASE UICall
  BY <1>3, UpdateStep, PersistStep, StopControllerStep, EnqueueControllerStep, StartControllerStep,
     ShutdownReaperStep, JoinReaperStep DEF UICall
<1>4. CASE Worker
  BY <1>4, TakeJobStep, ForceStopStep, ReleaseOutputStep, ShutdownControllerStep, ExitWorkerStep
     DEF Worker
<1>5. ASSUME NEW o \in Outputs, Connected(o) \/ Stops(o) \/ ActiveClears(o) PROVE RegistryInv'
  BY <1>5, ConnectedStep, StopsStep, ActiveClearsStep
<1>6. ASSUME NEW c \in Controllers, Reconnects(c) \/ GivesUp(c) PROVE RegistryInv'
  BY <1>6, ReconnectsStep, GivesUpStep
<1> QED BY <1>1, <1>2, <1>3, <1>4, <1>5, <1>6 DEF Next

(* RegistryInv holds of every reachable state: the list, the controllers, their
   outputs, the calls still to be made and the reaper's queue agree. *)
THEOREM RegistryInvCorrect == Spec => []RegistryInv
<1>1. Init => RegistryInv
  BY InitRegistryInv
<1>2. RegistryInv /\ [Next]_vars => RegistryInv'
  BY NextRegistryInv
<1> QED BY <1>1, <1>2, PTL DEF Spec

-----------------------------------------------------------------------------
(* What follows from it.                                                   *)

LEMMA AtMostOne ==
    ASSUME NEW S, \A x, y \in S : x = y
    PROVE  Cardinality(S) = IF S = {} THEN 0 ELSE 1
<1>1. CASE S = {}
  BY <1>1, FS_EmptySet
<1>2. CASE S # {}
  <2>1. PICK x : S = {x}
    BY <1>2
  <2> QED BY <1>2, <2>1, FS_Singleton
<1> QED BY <1>1, <1>2

LEMMA HandedOverIs == TypeOK => \A c \in HandedOver : c \in Controllers /\ (Queued(c) \/ Runs(c))
<1> SUFFICES ASSUME TypeOK, NEW c \in HandedOver PROVE c \in Controllers /\ (Queued(c) \/ Runs(c))
  OBVIOUS
<1>1. c # None /\ ((\E i \in DOMAIN queue : queue[i].ctrl = c) \/ (Working /\ running.ctrl = c))
  BY DEF HandedOver
<1>2. \A i \in DOMAIN queue : queue[i].ctrl \in Controllers \cup {None}
  <2>1. \A i \in DOMAIN queue : queue[i] \in JobType
    BY DEF TypeOK
  <2> QED BY <2>1 DEF JobType
<1>3. Working => running.ctrl \in Controllers \cup {None}
  BY DEF TypeOK, JobType, Working
<1> QED BY <1>1, <1>2, <1>3 DEF Queued, Runs

LEMMA OwnersCounted == RegistryInv => OneOwnerPerOutput
<1> SUFFICES ASSUME RegistryInv, NEW o \in Outputs
             PROVE  OutputOwners(o) = IF phase[o] = "absent" THEN 0 ELSE 1
  BY DEF OneOwnerPerOutput
<1> DEFINE q == {i \in DOMAIN queue : queue[i].output = o}
<1>1. OneOwner(o)
  BY DEF RegistryInv, OutputsHeld
<1>2. Cardinality(Owner(o)) = IF Owned(o) THEN 1 ELSE 0
  <2>1. \A c, d \in Owner(o) : c = d
    BY <1>1 DEF OneOwner, OwnedOnce, Owner
  <2>2. Owner(o) = {} <=> ~Owned(o)
    BY DEF Owner, Owned
  <2> QED BY <2>1, <2>2, AtMostOne
<1>3. Cardinality(q) = IF OutputQueued(o) THEN 1 ELSE 0
  <2>1. \A i, j \in q : i = j
    BY <1>1 DEF OneOwner, OutputQueuedOnce
  <2>2. q = {} <=> ~OutputQueued(o)
    BY DEF OutputQueued
  <2> HIDE DEF q
  <2> QED BY <2>1, <2>2, AtMostOne
<1>4. OutputOwners(o) = (IF Owned(o) THEN 1 ELSE 0) + (IF OutputQueued(o) THEN 1 ELSE 0)
                        + (IF OutputRuns(o) THEN 1 ELSE 0)
  BY <1>2, <1>3 DEF OutputOwners, OutputRuns
<1>5. \/ /\ phase[o] = "absent" /\ ~Owned(o) /\ ~OutputQueued(o) /\ ~OutputRuns(o)
      \/ /\ phase[o] # "absent" /\ Owned(o) /\ ~OutputQueued(o) /\ ~OutputRuns(o)
      \/ /\ phase[o] # "absent" /\ ~Owned(o) /\ OutputQueued(o) /\ ~OutputRuns(o)
      \/ /\ phase[o] # "absent" /\ ~Owned(o) /\ ~OutputQueued(o) /\ OutputRuns(o)
  BY <1>1 DEF OneOwner
<1> QED BY <1>4, <1>5

LEMMA EndpointsFollowed == RegistryInv => ControllersFollowEndpoints
<1> SUFFICES ASSUME RegistryInv, InRegistry
             PROVE  /\ \A id \in Ids : controllers[id] # None <=> id \in Known
                    /\ \A id \in Known :
                          /\ settings[controllers[id]] = EndpointOf(id)
                          /\ output[controllers[id]] # None =>
                                service[output[controllers[id]]] = EndpointOf(id)
                          /\ status[controllers[id]] # "free" /\ controllers[id] \notin HandedOver
                          /\ \A other \in Known \ {id} : controllers[other] # controllers[id]
  BY DEF ControllersFollowEndpoints, InRegistry
<1>1. /\ \A id \in Ids : controllers[id] # None <=> id \in Known
      /\ \A i \in DOMAIN endpoints : settings[controllers[endpoints[i].id]] = endpoints[i]
      /\ \A i, j \in DOMAIN endpoints :
            controllers[endpoints[i].id] = controllers[endpoints[j].id] => i = j
  BY DEF RegistryInv, Matched
<1>2. /\ Known \subseteq Ids
      /\ \A id \in Known : \E i \in DOMAIN endpoints :
            endpoints[i].id = id /\ EndpointOf(id) = endpoints[i]
  BY Found DEF RegistryInv, TypeOK
<1> SUFFICES ASSUME NEW id \in Known
             PROVE  /\ settings[controllers[id]] = EndpointOf(id)
                    /\ output[controllers[id]] # None =>
                          service[output[controllers[id]]] = EndpointOf(id)
                    /\ status[controllers[id]] # "free" /\ controllers[id] \notin HandedOver
                    /\ \A other \in Known \ {id} : controllers[other] # controllers[id]
  BY <1>1
<1>3. PICK i \in DOMAIN endpoints : endpoints[i].id = id /\ EndpointOf(id) = endpoints[i]
  BY <1>2
<1>4. controllers[id] \in Controllers /\ settings[controllers[id]] = EndpointOf(id)
  BY <1>1, <1>2, <1>3 DEF RegistryInv, TypeOK
<1>5. Registered(controllers[id])
  BY <1>3 DEF Registered
<1>6. /\ status[controllers[id]] # "free" /\ ~Queued(controllers[id]) /\ ~Runs(controllers[id])
  BY <1>4, <1>5 DEF RegistryInv, ControllersHeld, OneHolder
<1>7. controllers[id] \notin HandedOver
  BY <1>6, HandedOverIs DEF RegistryInv
<1>8. \A other \in Known \ {id} : controllers[other] # controllers[id]
  BY <1>1, <1>2, <1>3
<1> QED BY <1>4, <1>6, <1>7, <1>8 DEF RegistryInv, Served

LEMMA RegistryInvOwned == RegistryInv => ControllersOwned
<1> SUFFICES ASSUME RegistryInv PROVE ControllersOwned
  OBVIOUS
<1>1. ReaperGetsDetached
  BY HandedOverIs DEF RegistryInv, ReaperGetsDetached, NothingLeft, Left
<1>2. ChangesAreScheduled
  BY EmptyTyped DEF RegistryInv, Scheduling, ChangesAreScheduled
<1> QED BY <1>1, <1>2, OwnersCounted, EndpointsFollowed DEF RegistryInv, ControllersOwned

LEMMA RegistryInvUnloaded == RegistryInv => UnloadLeavesNothing
<1> SUFFICES ASSUME RegistryInv, module = "unloaded"
             PROVE  /\ exited /\ queue = <<>> /\ running = NoJob
                    /\ \A c \in Controllers : status[c] = "free"
                    /\ \A o \in Outputs : phase[o] = "absent"
  BY DEF UnloadLeavesNothing
<1>1. todo = <<>> /\ exited /\ queue = <<>> /\ running = NoJob /\ ~InRegistry
  BY DEF RegistryInv, Closing, InRegistry
<1>2. DOMAIN todo = {} /\ DOMAIN queue = {}
  BY <1>1, EmptyTyped
<1>3. \A c \in Controllers : status[c] = "free"
  <2>1. \A c \in Controllers : ~Registered(c) /\ ~Moving(c) /\ ~Queued(c) /\ ~Runs(c)
    BY <1>1, <1>2 DEF Registered, Moving, Queued, Runs, Working
  <2> QED BY <2>1 DEF RegistryInv, ControllersHeld, OneHolder
<1>4. \A o \in Outputs : ~Owned(o) /\ ~OutputQueued(o) /\ ~OutputRuns(o)
  BY <1>1, <1>2, <1>3, RegistryConstants
     DEF RegistryInv, NothingLeft, Left, Owned, OutputQueued, OutputRuns, Working
<1>5. \A o \in Outputs : phase[o] = "absent"
  BY <1>4 DEF RegistryInv, OutputsHeld, OneOwner
<1> QED BY <1>1, <1>3, <1>5

(* However many endpoints, controllers, outputs and events there are: the reaper gets
   no controller with a session left, every endpoint has a controller of its own that
   streams where the endpoint says, every output has one owner, and no change of the
   list is left unscheduled. *)
THEOREM ControllersOwnedCorrect == Spec => []ControllersOwned
BY RegistryInvCorrect, RegistryInvOwned, PTL

(* The main stream starts no two endpoints on the same server and key, whatever the
   order of the list and whatever the main stream itself uses. *)
THEOREM LinkedStartsDistinctCorrect == Spec => []LinkedStartsDistinct
<1>1. RegistryInv => LinkedStartsDistinct
  BY DEF RegistryInv
<1> QED BY <1>1, RegistryInvCorrect, PTL

(* When obs_module_unload() returns, the worker has left, no controller and no output
   is there any more. *)
THEOREM UnloadLeavesNothingCorrect == Spec => []UnloadLeavesNothing
BY RegistryInvCorrect, RegistryInvUnloaded, PTL

-----------------------------------------------------------------------------
USE DEF CurrentSchema

(* The store is there exactly while its thread is. *)
Alive ==
    /\ storeState = "down" <=> pc = "none"
    /\ storeState \in {"up", "flushed"} <=> saving
    /\ pc = "done" => ~saving
    /\ storeState = "down" => ~pending /\ changeGen = 0 /\ writtenGen = 0

(* The pending list is the last one, and covers every change. *)
PendingIsLast == pending => pendingList = lastList /\ pendingGen = changeGen

(* A list the thread has taken is the last one, or a newer one is pending. *)
TakenIsLast ==
    pc = "write" =>
        /\ genToSave <= changeGen
        /\ genToSave = changeGen => toSave = lastList
        /\ toSave = lastList \/ pending

WrittenIsPast == writtenGen <= changeGen

(* While no write has failed, the file is up to date or a write that makes it
   so is still to come. *)
WriteIsComing ==
    failures = 0 /\ storeState # "down" =>
        \/ UpToDate
        \/ pc # "done" /\ (pending \/ pc = "write")

ConfigInv ==
    /\ StoreTypeOK /\ Alive /\ PendingIsLast /\ TakenIsLast /\ WrittenIsPast
    /\ CleanMeansWritten /\ WriteIsComing

-----------------------------------------------------------------------------
(* write_to_disk() leaves a file of the current schema with the list it was
   given, or counts a failure and leaves the file alone. *)
LEMMA WriteResult ==
    ASSUME StoreTypeOK, NEW list \in Nat, NEW ok \in BOOLEAN, Write(list, ok)
    PROVE  /\ failures' \in Nat
           /\ disk' \in [list : Nat, schema : 0..CurrentSchema]
           /\ ok => disk' = [list |-> list, schema |-> CurrentSchema]
           /\ ~ok => disk' = disk /\ failures' # 0
BY DEF Write, StoreTypeOK

(* What the two ways to save have in common. *)
LEMMA SaveType ==
    ASSUME StoreTypeOK, SaveIfDirty(lastList)
    PROVE  /\ failures' \in Nat /\ writtenGen' \in {writtenGen, changeGen}
           /\ disk' \in [list : Nat, schema : 0..CurrentSchema]
<1>1. CASE changeGen = writtenGen
  BY <1>1 DEF SaveIfDirty, fileVars, StoreTypeOK
<1>2. CASE changeGen # writtenGen
  <2>1. PICK ok \in BOOLEAN : Write(lastList, ok) /\ Saved(changeGen, ok)
    BY <1>2 DEF SaveIfDirty
  <2> QED
    BY <2>1, WriteResult DEF Saved, StoreTypeOK
<1> QED
  BY <1>1, <1>2

(* The type invariant is inductive by itself. *)
LEMMA NextTypeOK == StoreTypeOK /\ [StoreNext]_storeVars => StoreTypeOK'
<1> SUFFICES ASSUME StoreTypeOK, [StoreNext]_storeVars PROVE StoreTypeOK'
  OBVIOUS
<1>1. CASE Load
  <2>1. PICK ok \in BOOLEAN :
            /\ IF disk.schema \in 1..CurrentSchema - 1 THEN Write(FileList, ok)
               ELSE ok /\ UNCHANGED fileVars
            /\ changeGen' = IF ok THEN changeGen ELSE changeGen + 1
    BY <1>1 DEF Load
  <2>2. FileList \in Nat
    BY DEF FileList, StoreTypeOK
  <2>3. failures' \in Nat /\ disk' \in [list : Nat, schema : 0..CurrentSchema]
    BY <2>1, <2>2, WriteResult DEF fileVars, StoreTypeOK
  <2> QED
    BY <1>1, <2>1, <2>2, <2>3 DEF Load, StoreTypeOK, pendingVars
<1>2. CASE Change
  BY <1>2 DEF Change, StoreTypeOK, fileVars, threadVars
<1>3. CASE Flush
  BY <1>3, SaveType DEF Flush, StoreTypeOK, pendingVars, threadVars
<1>4. CASE UnloadFlush
  BY <1>4, SaveType DEF UnloadFlush, StoreTypeOK, pendingVars, threadVars
<1>5. CASE Destroy
  BY <1>5 DEF Destroy, StoreTypeOK, fileVars, pendingVars, threadVars
<1>6. CASE Joined
  BY <1>6 DEF Joined, ForgetAll, StoreTypeOK, fileVars
<1>7. CASE Crash
  BY <1>7 DEF Crash, ForgetAll, FileList, StoreTypeOK, fileVars
<1>8. CASE Loop
  BY <1>8 DEF Loop, StoreTypeOK, fileVars, pendingVars
<1>9. CASE Leave
  <2>1. CASE pending
    <3>1. PICK ok \in BOOLEAN : Write(pendingList, ok) /\ Saved(pendingGen, ok)
      BY <1>9, <2>1 DEF Leave
    <3> QED
      BY <1>9, <3>1, WriteResult DEF Leave, Saved, StoreTypeOK, pendingVars
  <2>2. CASE ~pending
    BY <1>9, <2>2 DEF Leave, StoreTypeOK, fileVars, pendingVars
  <2> QED
    BY <2>1, <2>2
<1>10. CASE Poll
  <2>1. UNCHANGED <<disk, failures, storeState, runs, lastList, changes, changeGen, writtenGen,
                    saving>>
    BY <1>10 DEF Poll, fileVars
  <2>2. CASE TakePending
    BY <2>1, <2>2 DEF TakePending, StoreTypeOK
  <2>3. CASE pc' = "loop" /\ UNCHANGED <<pendingVars, toSave, genToSave>>
    BY <2>1, <2>3 DEF StoreTypeOK, pendingVars
  <2>4. CASE pc' = "loop" /\ StillWaiting
             /\ UNCHANGED <<pending, pendingList, pendingGen, toSave, genToSave>>
    BY <2>1, <2>4 DEF StillWaiting, StoreTypeOK
  <2> QED
    BY <1>10, <2>2, <2>3, <2>4 DEF Poll
<1>11. CASE ThreadWrite
  <2>1. PICK ok \in BOOLEAN : Write(toSave, ok) /\ Saved(genToSave, ok)
    BY <1>11 DEF ThreadWrite
  <2> QED
    BY <1>11, <2>1, WriteResult DEF ThreadWrite, Saved, StoreTypeOK, pendingVars
<1>12. CASE UNCHANGED storeVars
  BY <1>12 DEF storeVars, StoreTypeOK, fileVars, pendingVars, threadVars
<1> QED
  BY <1>1, <1>2, <1>3, <1>4, <1>5, <1>6, <1>7, <1>8, <1>9, <1>10, <1>11, <1>12 DEF StoreNext, Writer

(* The flushes: a dirty store is written and clean, or a write failed. *)
LEMMA SaveResult ==
    ASSUME ConfigInv, storeState # "down", SaveIfDirty(lastList)
    PROVE  /\ writtenGen' = changeGen \/ (writtenGen' = writtenGen /\ disk' = disk)
           /\ writtenGen' = changeGen \/ failures' = 0 =>
                 FileList' = lastList /\ disk'.schema \in {0, CurrentSchema}
<1>1. CASE changeGen = writtenGen
  BY <1>1 DEF SaveIfDirty, fileVars, ConfigInv, CleanMeansWritten, Dirty, UpToDate, FileList
<1>2. CASE changeGen # writtenGen
  <2>1. PICK ok \in BOOLEAN : Write(lastList, ok) /\ Saved(changeGen, ok)
    BY <1>2 DEF SaveIfDirty
  <2>2. lastList \in Nat /\ StoreTypeOK
    BY DEF ConfigInv, StoreTypeOK
  <2>3. CASE ok
    <3>1. disk' = [list |-> lastList, schema |-> CurrentSchema] /\ writtenGen' = changeGen
      BY <2>1, <2>2, <2>3, WriteResult DEF Saved
    <3> QED
      BY <3>1 DEF FileList
  <2>4. CASE ~ok
    <3>1. disk' = disk /\ failures' # 0 /\ writtenGen' = writtenGen
      BY <2>1, <2>2, <2>4, WriteResult DEF Saved
    <3>2. writtenGen' # changeGen
      BY <3>1, <1>2
    <3> QED
      BY <3>1, <3>2
  <2> QED
    BY <2>3, <2>4
<1> QED
  BY <1>1, <1>2

-----------------------------------------------------------------------------
LEMMA InitConfigInv == StoreInit => ConfigInv
<1> SUFFICES ASSUME StoreInit PROVE ConfigInv
  OBVIOUS
<1>1. disk \in [list : Nat, schema : 0..CurrentSchema]
  BY DEF StoreInit
<1>2. StoreTypeOK
  BY <1>1 DEF StoreInit, StoreTypeOK
<1> QED
  BY <1>2 DEF StoreInit, ConfigInv, Alive, PendingIsLast, TakenIsLast, WrittenIsPast,
     CleanMeansWritten, WriteIsComing

(* The steps that write nothing. *)
LEMMA QuietStep ==
    ASSUME ConfigInv, StoreTypeOK', Change \/ Destroy \/ Joined \/ Crash \/ Loop \/ Poll
    PROVE  ConfigInv'
<1> USE DEF ConfigInv
<1>1. CASE Change
  BY <1>1 DEF Change, StoreTypeOK, Alive, PendingIsLast, TakenIsLast, WrittenIsPast,
              CleanMeansWritten, Dirty, WriteIsComing, fileVars, threadVars
<1>2. CASE Destroy
  BY <1>2 DEF Destroy, Alive, PendingIsLast, TakenIsLast, WrittenIsPast, CleanMeansWritten, Dirty,
              UpToDate, FileList, WriteIsComing, fileVars, pendingVars, threadVars
<1>3. CASE Joined \/ Crash
  BY <1>3 DEF Joined, Crash, ForgetAll, Alive, PendingIsLast, TakenIsLast, WrittenIsPast,
              CleanMeansWritten, WriteIsComing
<1>4. CASE Loop
  BY <1>4 DEF Loop, Alive, PendingIsLast, TakenIsLast, WrittenIsPast, CleanMeansWritten, Dirty,
              UpToDate, FileList, WriteIsComing, fileVars, pendingVars
<1>5. CASE Poll
  <2>1. UNCHANGED <<disk, failures, storeState, lastList, changeGen, writtenGen, saving>>
    BY <1>5 DEF Poll, fileVars
  <2>2. pc = "asleep" /\ pc' \in {"loop", "write"} /\ pendingList' = pendingList
        /\ pendingGen' = pendingGen
    BY <1>5 DEF Poll, TakePending, pendingVars
  <2>3. (pending' = pending /\ pc' = "loop")
        \/ (pending /\ ~pending' /\ pc' = "write" /\ toSave' = pendingList
            /\ genToSave' = pendingGen)
    BY <1>5 DEF Poll, TakePending, pendingVars
  <2> QED
    BY <2>1, <2>2, <2>3 DEF StoreTypeOK, Alive, PendingIsLast, TakenIsLast, WrittenIsPast,
              CleanMeansWritten, Dirty, UpToDate, FileList,
     WriteIsComing
<1> QED
  BY <1>1, <1>2, <1>3, <1>4, <1>5

(* load() starts clean when it had nothing to migrate or could write the result. *)
LEMMA LoadStep == ASSUME ConfigInv, StoreTypeOK', Load PROVE ConfigInv'
<1>1. PICK ok \in BOOLEAN :
          /\ IF disk.schema \in 1..CurrentSchema - 1 THEN Write(FileList, ok)
             ELSE ok /\ UNCHANGED fileVars
          /\ changeGen' = IF ok THEN changeGen ELSE changeGen + 1
  BY DEF Load
<1>2. StoreTypeOK /\ FileList \in Nat
  BY DEF ConfigInv, FileList, StoreTypeOK
<1>3. ok => FileList' = FileList /\ disk'.schema \in {0, CurrentSchema}
  <2>1. CASE disk.schema \in 1..CurrentSchema - 1
    <3>1. ok => disk' = [list |-> FileList, schema |-> CurrentSchema]
      BY <1>1, <1>2, <2>1, WriteResult
    <3>2. ok => disk'.list = FileList /\ disk'.schema = CurrentSchema
      BY <3>1
    <3> QED
      BY <3>2 DEF FileList
  <2>2. CASE ~(disk.schema \in 1..CurrentSchema - 1)
    <3>1. disk' = disk
      BY <1>1, <2>2 DEF fileVars
    <3>2. disk.schema \in 0..CurrentSchema
      BY <1>2 DEF StoreTypeOK
    <3>3. disk.schema \in {0, CurrentSchema}
      BY <2>2, <3>2
    <3> QED
      BY <3>1, <3>3 DEF FileList
  <2> QED
    BY <2>1, <2>2
<1>4. ~ok => failures' # 0
  BY <1>1, <1>2, WriteResult
<1>5. lastList' = FileList /\ storeState = "down" /\ storeState' = "up" /\ pc' = "loop" /\ saving'
      /\ pending' = pending /\ writtenGen' = writtenGen
  BY DEF Load, pendingVars
<1>6. ~pending /\ changeGen = 0 /\ writtenGen = 0
  BY <1>5 DEF ConfigInv, Alive
<1> QED
  BY <1>1, <1>3, <1>4, <1>5, <1>6 DEF ConfigInv, StoreTypeOK, Alive, PendingIsLast, TakenIsLast,
     WrittenIsPast, CleanMeansWritten, Dirty, UpToDate, WriteIsComing

LEMMA FlushStep == ASSUME ConfigInv, StoreTypeOK', Flush \/ UnloadFlush PROVE ConfigInv'
<1>1. storeState = "up" /\ storeState' \in {"up", "flushed"} /\ SaveIfDirty(lastList)
      /\ UNCHANGED <<lastList, pending, pendingList, pendingGen, changeGen, saving, pc, toSave,
                     genToSave>>
  BY DEF Flush, UnloadFlush, pendingVars, threadVars
<1>2. /\ writtenGen' = changeGen \/ (writtenGen' = writtenGen /\ disk' = disk)
      /\ writtenGen' = changeGen \/ failures' = 0 =>
            FileList' = lastList /\ disk'.schema \in {0, CurrentSchema}
  BY <1>1, SaveResult
<1> QED
  BY <1>1, <1>2 DEF ConfigInv, StoreTypeOK, Alive, PendingIsLast, TakenIsLast, WrittenIsPast,
     CleanMeansWritten, Dirty, UpToDate, FileList,
     WriteIsComing

(* The writer thread writes `list', which covers the changes up to `gen'. *)
LEMMA WriterResult ==
    ASSUME ConfigInv, NEW list \in Nat, NEW gen \in Nat, NEW ok \in BOOLEAN,
           Write(list, ok), Saved(gen, ok)
    PROVE  /\ ok => FileList' = list /\ disk'.schema = CurrentSchema
                    /\ writtenGen' = gen
           /\ ~ok => disk' = disk /\ writtenGen' = writtenGen /\ failures' # 0
<1>1. StoreTypeOK
  BY DEF ConfigInv
<1>2. ok => disk' = [list |-> list, schema |-> CurrentSchema] /\ writtenGen' = gen
  BY <1>1, WriteResult DEF Saved
<1>3. ~ok => disk' = disk /\ writtenGen' = writtenGen /\ failures' # 0
  BY <1>1, WriteResult DEF Saved
<1> QED
  BY <1>2, <1>3 DEF FileList

LEMMA LeaveStep == ASSUME ConfigInv, StoreTypeOK', Leave PROVE ConfigInv'
<1>1. pc = "loop" /\ ~saving /\ pc' = "done"
      /\ UNCHANGED <<storeState, lastList, pending, pendingList, pendingGen, changeGen, saving>>
  BY DEF Leave, pendingVars
<1>2. CASE pending
  <2>1. PICK ok \in BOOLEAN : Write(pendingList, ok) /\ Saved(pendingGen, ok)
    BY <1>2 DEF Leave
  <2>2. pendingList = lastList /\ pendingGen = changeGen
    BY <1>2 DEF ConfigInv, PendingIsLast
  <2>3. /\ ok => FileList' = lastList /\ disk'.schema = CurrentSchema /\ writtenGen' = changeGen
        /\ ~ok => disk' = disk /\ writtenGen' = writtenGen /\ failures' # 0
    BY <2>1, <2>2, WriterResult DEF ConfigInv, StoreTypeOK
  <2> QED
    BY <1>1, <1>2, <2>2, <2>3 DEF ConfigInv, StoreTypeOK, Alive, PendingIsLast, TakenIsLast,
       WrittenIsPast, CleanMeansWritten, Dirty, UpToDate, FileList,
     WriteIsComing
<1>3. CASE ~pending
  BY <1>1, <1>3 DEF Leave, ConfigInv, Alive, PendingIsLast, TakenIsLast, WrittenIsPast,
     CleanMeansWritten, Dirty, UpToDate, FileList, WriteIsComing, fileVars
<1> QED
  BY <1>2, <1>3

(* A late write of an older list makes the store dirty again, and the newer
   list is pending. *)
LEMMA ThreadWriteStep == ASSUME ConfigInv, StoreTypeOK', ThreadWrite PROVE ConfigInv'
<1>1. PICK ok \in BOOLEAN : Write(toSave, ok) /\ Saved(genToSave, ok)
  BY DEF ThreadWrite
<1>2. pc = "write" /\ pc' = "loop"
      /\ UNCHANGED <<storeState, lastList, pending, pendingList, pendingGen, changeGen, saving>>
  BY DEF ThreadWrite, pendingVars
<1>3. /\ ok => FileList' = toSave /\ disk'.schema = CurrentSchema /\ writtenGen' = genToSave
      /\ ~ok => disk' = disk /\ writtenGen' = writtenGen /\ failures' # 0
  BY <1>1, WriterResult DEF ConfigInv, StoreTypeOK
<1>4. genToSave <= changeGen /\ (genToSave = changeGen => toSave = lastList)
      /\ (toSave = lastList \/ pending)
  BY <1>2 DEF ConfigInv, TakenIsLast
<1> QED
  BY <1>2, <1>3, <1>4 DEF ConfigInv, StoreTypeOK, Alive, PendingIsLast, TakenIsLast, WrittenIsPast,
     CleanMeansWritten, Dirty, UpToDate, FileList,
     WriteIsComing

LEMMA NextConfigInv == ConfigInv /\ [StoreNext]_storeVars => ConfigInv'
<1> SUFFICES ASSUME ConfigInv, [StoreNext]_storeVars PROVE ConfigInv'
  OBVIOUS
<1>1. StoreTypeOK'
  BY NextTypeOK DEF ConfigInv
<1>2. CASE UNCHANGED storeVars
  BY <1>2 DEF storeVars, fileVars, pendingVars, threadVars, ConfigInv, StoreTypeOK, Alive,
     PendingIsLast, TakenIsLast, WrittenIsPast, CleanMeansWritten, Dirty, UpToDate, FileList,
     WriteIsComing
<1> QED
  BY <1>1, <1>2, QuietStep, LoadStep, FlushStep, LeaveStep, ThreadWriteStep DEF StoreNext, Writer

-----------------------------------------------------------------------------
(* A clean store is a saved one, whichever of the UI thread and the writer
   thread wrote last, and whatever failed (core/ConfigStore.cpp:129-150). *)
THEOREM CleanCorrect == StoreSpec => []CleanMeansWritten
<1>1. ConfigInv => CleanMeansWritten
  BY DEF ConfigInv
<1> QED
  BY <1>1, InitConfigInv, NextConfigInv, PTL DEF StoreSpec

(* An unload all of whose writes succeeded leaves the last list in the file
   (core/ConfigStore.cpp:36-41, 215-221). *)
THEOREM UnloadCorrect == StoreSpec => []UnloadSaves
<1>1. ConfigInv => UnloadSaves
  BY DEF ConfigInv, WriteIsComing, UnloadSaves
<1> QED
  BY <1>1, InitConfigInv, NextConfigInv, PTL DEF StoreSpec

=============================================================================
