--------------------------- MODULE AnalyticsProofs ---------------------------
(***************************************************************************)
(* What holds of AnalyticsPool for every number of workers and every set   *)
(* of calls: the Shutdown messages are exactly as many as the workers that *)
(* have to take one, and no accepted request is left behind.               *)
(***************************************************************************)

EXTENDS AnalyticsPool, QueryWatchdog, StatsQuery, FiniteSetTheorems, SequenceTheorems, TLAPS

Signals(q) == {i \in DOMAIN q : q[i] = Shutdown}

Leaving == {w \in Workers : worker[w] \in {"checkpoint", "exited"}}

RunsAt(w, r) == worker[w] = "query" /\ job[w] = r

\* Every worker that was started is joined; before shutdown() begins nothing
\* of it has happened; the queue goes with the receiver.
Shape ==
  /\ TypeOK
  /\ main # "done" => handles = {w \in Workers : worker[w] # "unborn"}
  /\ main = "done" => ReceiverGone
  /\ main = "serving" => left = 0 /\ Signals(queue) = {} /\ Leaving = {}
  /\ ReceiverGone => queue = <<>>
  /\ \A r \in early : call[r] # "idle"

\* A request is run, or queued, or being run, as long as somebody waits for it
\* or it was sent in time; and one that was sent in time is ahead of every
\* Shutdown in the FIFO, so that the first worker to leave sees none behind it.
Flow ==
  /\ \A r \in early : r \in ran \/ Queued(r) \/ \E w \in Workers : RunsAt(w, r)
  /\ \A r \in Requests :
       call[r] = "waiting" => Queued(r) \/ \E w \in Workers : RunsAt(w, r)
  /\ \A i, j \in DOMAIN queue : queue[i] \in early /\ queue[j] = Shutdown => i < j
  /\ Leaving # {} => \A i \in DOMAIN queue : queue[i] \notin early

Inv == Shape /\ Flow /\ EachWorkerOneShutdown

-----------------------------------------------------------------------------
(* the Shutdown messages of a queue *)

\* A send of the channel adds to its Shutdowns exactly when it sends one.
LEMMA SignalsOfAppend ==
  ASSUME NEW S, NEW q \in Seq(S), NEW e \in S
  PROVE  /\ IsFiniteSet(Signals(q)) /\ Cardinality(Signals(q)) \in Nat
         /\ e = Shutdown =>
              Cardinality(Signals(Append(q, e))) = Cardinality(Signals(q)) + 1
         /\ e # Shutdown => Signals(Append(q, e)) = Signals(q)
<1>1. /\ DOMAIN Append(q, e) = 1 .. Len(q) + 1
      /\ DOMAIN q = 1 .. Len(q)
      /\ \A i \in 1 .. Len(q) : Append(q, e)[i] = q[i]
      /\ Append(q, e)[Len(q) + 1] = e
      /\ Len(q) \in Nat
  OBVIOUS
<1>2. IsFiniteSet(Signals(q))
  <2>1. IsFiniteSet(1 .. Len(q))
    BY <1>1, FS_Interval
  <2>2. Signals(q) \in SUBSET (1 .. Len(q))
    BY <1>1 DEF Signals
  <2>3. QED
    BY <2>1, <2>2, FS_Subset
<1>3. Cardinality(Signals(q)) \in Nat
  BY <1>2, FS_CardinalityType
<1>4. ASSUME e = Shutdown
      PROVE  Cardinality(Signals(Append(q, e))) = Cardinality(Signals(q)) + 1
  <2>1. Signals(Append(q, e)) = Signals(q) \cup {Len(q) + 1}
    BY <1>1, <1>4 DEF Signals
  <2>2. Len(q) + 1 \notin Signals(q)
    BY <1>1 DEF Signals
  <2>3. QED
    BY <1>2, <2>1, <2>2, FS_AddElement
<1>5. e # Shutdown => Signals(Append(q, e)) = Signals(q)
  BY <1>1 DEF Signals
<1>6. QED
  BY <1>2, <1>3, <1>4, <1>5

\* A receive takes a Shutdown away exactly when that is what it returns; the
\* others move up by one place.
LEMMA SignalsOfTail ==
  ASSUME NEW S, NEW q \in Seq(S), q # <<>>
  PROVE  Cardinality(Signals(Tail(q))) =
           IF Head(q) = Shutdown THEN Cardinality(Signals(q)) - 1
                                 ELSE Cardinality(Signals(q))
<1>1. /\ Len(q) \in Nat \ {0}
      /\ Tail(q) \in Seq(S)
      /\ DOMAIN Tail(q) = 1 .. Len(q) - 1
      /\ DOMAIN q = 1 .. Len(q)
      /\ \A i \in 1 .. Len(q) - 1 : Tail(q)[i] = q[i + 1]
      /\ Head(q) = q[1]
      /\ Head(q) \in S
  OBVIOUS
<1>2. IsFiniteSet(Signals(q)) /\ IsFiniteSet(Signals(Tail(q)))
  BY <1>1, SignalsOfAppend
<1> DEFINE Shift == [i \in Signals(Tail(q)) |-> i + 1]
<1>3. Shift \in Bijection(Signals(Tail(q)), Signals(q) \ {1})
  <2>1. Shift \in [Signals(Tail(q)) -> Signals(q) \ {1}]
    BY <1>1 DEF Signals
  <2>2. Shift \in Injection(Signals(Tail(q)), Signals(q) \ {1})
    BY <1>1, <2>1 DEF Injection, IsInjective, Signals
  <2>3. ASSUME NEW j \in Signals(q) \ {1}
        PROVE  \E i \in Signals(Tail(q)) : Shift[i] = j
    <3>1. j - 1 \in Signals(Tail(q)) /\ j \in Int
      BY <1>1, <2>3 DEF Signals
    <3>2. Shift[j - 1] = j
      BY <3>1
    <3>3. QED
      BY <3>1, <3>2
  <2>4. Shift \in Surjection(Signals(Tail(q)), Signals(q) \ {1})
    BY <2>1, <2>3 DEF Surjection
  <2>5. QED
    BY <2>2, <2>4 DEF Bijection
<1>4. Cardinality(Signals(q) \ {1}) = Cardinality(Signals(Tail(q)))
  BY <1>2, <1>3, FS_Bijection DEF ExistsBijection
<1>5. 1 \in Signals(q) <=> Head(q) = Shutdown
  BY <1>1 DEF Signals
<1>6. QED
  BY <1>2, <1>4, <1>5, FS_RemoveElement

\* What a send does to the channel.
LEMMA SendFacts ==
  ASSUME TypeOK, NEW m \in Requests \cup {Shutdown}, queue' = Append(queue, m)
  PROVE  /\ queue' \in Seq(Requests \cup {Shutdown})
         /\ queue' # <<>>
         /\ \A i \in DOMAIN queue : i \in DOMAIN queue' /\ queue'[i] = queue[i]
         /\ Len(queue) + 1 \in DOMAIN queue' /\ queue'[Len(queue) + 1] = m
         /\ \A i \in DOMAIN queue' : \/ i \in DOMAIN queue /\ queue'[i] = queue[i]
                                     \/ i = Len(queue) + 1 /\ queue'[i] = m
         /\ \A i \in DOMAIN queue : i < Len(queue) + 1
         /\ \A i \in DOMAIN queue : i \in Nat
         /\ Len(queue) \in Nat
  BY DEF TypeOK

\* What a receive does to the channel.
LEMMA RecvFacts ==
  ASSUME TypeOK, queue # <<>>, queue' = Tail(queue)
  PROVE  /\ queue' \in Seq(Requests \cup {Shutdown})
         /\ 1 \in DOMAIN queue /\ Head(queue) = queue[1]
         /\ Head(queue) \in Requests \cup {Shutdown}
         /\ \A i \in DOMAIN queue' :
              i \in Nat /\ i + 1 \in DOMAIN queue /\ queue'[i] = queue[i + 1]
         /\ \A i \in DOMAIN queue :
              i \in Nat /\ (i = 1 \/ (i - 1 \in DOMAIN queue' /\ queue'[i - 1] = queue[i]))
         /\ \A i \in DOMAIN queue : i >= 1
  BY DEF TypeOK

\* The workers are finitely many, and at most MaxWorkers.
LEMMA WorkersFinite ==
  ASSUME NEW S \in SUBSET Workers
  PROVE  IsFiniteSet(S) /\ Cardinality(S) \in 0 .. MaxWorkers
<1>1. IsFiniteSet(Workers) /\ Cardinality(Workers) = MaxWorkers
  BY PoolAssumption, FS_Interval DEF Workers
<1>2. IsFiniteSet(S) /\ Cardinality(S) <= MaxWorkers
  BY <1>1, FS_Subset
<1>3. QED
  BY <1>2, FS_CardinalityType, PoolAssumption

-----------------------------------------------------------------------------
(* Inv is inductive *)

\* The initial state satisfies the invariant.
LEMMA InitInv == Init => Inv
<1> SUFFICES ASSUME Init PROVE Inv
  OBVIOUS
<1>1. PICK n \in 1 .. MaxWorkers :
        /\ handles = 1 .. n
        /\ worker = [w \in Workers |-> IF w <= n THEN "parked" ELSE "unborn"]
  BY DEF Init
<1>2. queue \in Seq(Requests \cup {Shutdown}) /\ DOMAIN queue = {} /\ Signals(queue) = {}
  BY DEF Init, Signals
<1>3. handles = {w \in Workers : worker[w] # "unborn"} /\ handles = Running
  BY <1>1, PoolAssumption DEF Workers, Running
<1>4. TypeOK
  BY <1>1, <1>2, <1>3, PoolAssumption DEF Init, TypeOK, Workers, NoOne
<1>5. Leaving = {}
  BY <1>1 DEF Leaving
<1>6. Shape
  BY <1>2, <1>3, <1>4, <1>5 DEF Init, Shape
<1>7. Flow
  BY <1>2, <1>5 DEF Init, Flow
<1>8. EachWorkerOneShutdown
  BY <1>3 DEF Init, EachWorkerOneShutdown
<1>9. QED
  BY <1>6, <1>7, <1>8 DEF Inv

\* Every step keeps the types.
LEMMA TypeStep ==
  ASSUME Inv, [Next]_vars
  PROVE  TypeOK'
<1>0. TypeOK /\ PoolAssumption
  BY PoolAssumption DEF Inv, Shape
<1>1. ASSUME NEW r \in Requests, Call(r) PROVE TypeOK'
  <2>1. queue' \in Seq(Requests \cup {Shutdown})
    BY <1>0, <1>1, SendFacts DEF Call, TypeOK
  <2>2. QED
    BY <1>0, <1>1, <2>1 DEF Call, TypeOK, mainVars
<1>2. ASSUME NEW r \in Requests, GiveUp(r) PROVE TypeOK'
  BY <1>2, <1>0 DEF GiveUp, TypeOK, mainVars, NoOne, Workers
<1>3. ASSUME NEW w \in Workers, Lock(w) PROVE TypeOK'
  BY <1>3, <1>0 DEF Lock, TypeOK, mainVars, NoOne, Workers
<1>4. ASSUME NEW w \in Workers, Recv(w) PROVE TypeOK'
  <2>1. /\ queue' \in Seq(Requests \cup {Shutdown})
        /\ Head(queue) \in Requests \cup {Shutdown}
    BY <1>0, <1>4, RecvFacts DEF Recv
  <2>2. QED
    BY <1>0, <1>4, <2>1 DEF Recv, TypeOK, mainVars, NoOne, Workers
<1>5. ASSUME NEW w \in Workers, Finish(w) PROVE TypeOK'
  BY <1>5, <1>0 DEF Finish, Reply, TypeOK, mainVars, NoOne, Workers
<1>6. ASSUME NEW w \in Workers, Exit(w) PROVE TypeOK'
  <2>1. queue' \in Seq(Requests \cup {Shutdown})
    <3>1. queue' = queue \/ queue' = <<>>
      BY <1>6 DEF Exit
    <3>2. queue \in Seq(Requests \cup {Shutdown})
      BY <1>0 DEF TypeOK
    <3>3. <<>> \in Seq(Requests \cup {Shutdown})
      OBVIOUS
    <3>4. QED
      BY <3>1, <3>2, <3>3
  <2>2. call' \in [Requests -> {"idle", "waiting", "answered", "unavailable", "timeout"}]
    <3>1. CASE \A v \in Workers \ {w} : worker[v] \in {"unborn", "exited"}
      BY <1>0, <1>6, <3>1 DEF Exit, TypeOK
    <3>2. CASE ~\A v \in Workers \ {w} : worker[v] \in {"unborn", "exited"}
      BY <1>0, <1>6, <3>2 DEF Exit, TypeOK
    <3>3. QED
      BY <3>1, <3>2
  <2>3. QED
    BY <1>0, <1>6, <2>1, <2>2 DEF Exit, TypeOK, mainVars
<1>7. ASSUME BeginShutdown PROVE TypeOK'
  <2>1. Cardinality(handles) \in 0 .. MaxWorkers
    BY <1>0, WorkersFinite DEF TypeOK
  <2>2. QED
    BY <1>0, <1>7, <2>1 DEF BeginShutdown, TypeOK
<1>8. ASSUME SendShutdown PROVE TypeOK'
  <2>1. queue' \in Seq(Requests \cup {Shutdown})
    BY <1>0, <1>8, SendFacts DEF SendShutdown, TypeOK
  <2>2. left' \in 0 .. MaxWorkers
    BY <1>0, <1>8 DEF SendShutdown, TypeOK, PoolAssumption
  <2>3. QED
    BY <1>0, <1>8, <2>1, <2>2 DEF SendShutdown, TypeOK
<1>9. ASSUME BeginJoin PROVE TypeOK'
  BY <1>9, <1>0 DEF BeginJoin, TypeOK, mainVars, NoOne, Workers
<1>10. ASSUME JoinAll PROVE TypeOK'
  BY <1>10, <1>0 DEF JoinAll, TypeOK, mainVars, NoOne, Workers
<1>11. CASE UNCHANGED vars
  BY <1>0, <1>11 DEF vars, mainVars, TypeOK
<1>12. QED
  BY <1>1, <1>2, <1>3, <1>4, <1>5, <1>6, <1>7, <1>8, <1>9, <1>10, <1>11
  DEF Next

\* Every step keeps the joined workers, the rest before shutdown() and the
\* queue that goes with the receiver.
LEMMA ShapeStep ==
  ASSUME Inv, [Next]_vars
  PROVE  Shape'
<1>0. TypeOK' /\ Shape /\ TypeOK /\ Shutdown \notin Requests
  BY TypeStep, PoolAssumption DEF Inv, Shape
<1> DEFINE Goal ==
      /\ main # "done" => handles = {w \in Workers : worker[w] # "unborn"}
      /\ main = "done" => ReceiverGone
      /\ main = "serving" => left = 0 /\ Signals(queue) = {} /\ Leaving = {}
      /\ ReceiverGone => queue = <<>>
      /\ \A r \in early : call[r] # "idle"
<1> SUFFICES Goal'
  BY <1>0 DEF Shape
<1>1. ASSUME NEW r \in Requests, Call(r) PROVE Goal'
  <2>1. CASE ReceiverGone
    BY <1>0, <1>1, <2>1 DEF Call, Shape, TypeOK, mainVars, ReceiverGone, Leaving
  <2>2. CASE ~ReceiverGone
    <3>1. Signals(queue') = Signals(queue)
      <4>1. /\ queue \in Seq(Requests \cup {Shutdown}) /\ r \in Requests \cup {Shutdown}
            /\ r # Shutdown
        BY <1>0 DEF TypeOK
      <4>2. queue' = Append(queue, r)
        BY <1>1, <2>2 DEF Call
      <4>3. QED
        BY <4>1, <4>2, SignalsOfAppend
    <3>2. ~ReceiverGone'
      BY <1>1, <2>2 DEF Call, ReceiverGone
    <3>3. QED
      BY <1>0, <1>1, <2>2, <3>1, <3>2 DEF Call, Shape, TypeOK, mainVars, ReceiverGone,
         Leaving
  <2>3. QED
    BY <2>1, <2>2
<1>2. ASSUME NEW r \in Requests, GiveUp(r) PROVE Goal'
  BY <1>2, <1>0 DEF GiveUp, Shape, TypeOK, mainVars, ReceiverGone, Leaving
<1>3. ASSUME NEW w \in Workers, Lock(w) PROVE Goal'
  BY <1>3, <1>0 DEF Lock, Shape, TypeOK, mainVars, ReceiverGone, Leaving
<1>4. ASSUME NEW w \in Workers, Recv(w) PROVE Goal'
  <2>1. ~ReceiverGone'
    BY <1>0, <1>4 DEF Recv, ReceiverGone, TypeOK
  <2>2. main = "serving" => Head(queue) # Shutdown /\ Signals(queue') = {}
    BY <1>0, <1>4, RecvFacts DEF Recv, Shape, Signals
  <2>3. QED
    BY <1>0, <1>4, <2>1, <2>2 DEF Recv, Shape, TypeOK, mainVars, ReceiverGone, Leaving
<1>5. ASSUME NEW w \in Workers, Finish(w) PROVE Goal'
  BY <1>5, <1>0 DEF Finish, Reply, Shape, TypeOK, mainVars, ReceiverGone, Leaving
<1>6. ASSUME NEW w \in Workers, Exit(w) PROVE Goal'
  <2>1. main # "serving"
    BY <1>0, <1>6 DEF Exit, Shape, Leaving
  <2>2. ReceiverGone' => queue' = <<>>
    <3>1. ASSUME ReceiverGone', NEW v \in Workers \ {w} PROVE worker[v] \in {"unborn",
                 "exited"}
      BY <1>0, <1>6, <3>1 DEF Exit, ReceiverGone, TypeOK
    <3>2. QED
      BY <1>6, <3>1 DEF Exit
  <2>3. main = "done" => ReceiverGone'
    BY <1>0, <1>6 DEF Exit, Shape, TypeOK, ReceiverGone
  <2>4. \A r \in early' : call'[r] # "idle"
    <3>1. CASE \A v \in Workers \ {w} : worker[v] \in {"unborn", "exited"}
      BY <1>0, <1>6, <3>1 DEF Exit, Shape, TypeOK
    <3>2. CASE ~\A v \in Workers \ {w} : worker[v] \in {"unborn", "exited"}
      BY <1>0, <1>6, <3>2 DEF Exit, Shape, TypeOK
    <3>3. QED
      BY <3>1, <3>2
  <2>5. main # "done" => handles' = {v \in Workers : worker'[v] # "unborn"}
    BY <1>0, <1>6 DEF Exit, Shape, TypeOK, mainVars
  <2>6. QED
    BY <1>0, <1>6, <2>1, <2>2, <2>3, <2>4, <2>5 DEF Exit, mainVars
<1>7. ASSUME BeginShutdown PROVE Goal'
  BY <1>7, <1>0 DEF BeginShutdown, Shape, TypeOK, mainVars, ReceiverGone, Leaving
<1>8. ASSUME SendShutdown PROVE Goal'
  BY <1>8, <1>0 DEF SendShutdown, Shape, TypeOK, mainVars, ReceiverGone, Leaving
<1>9. ASSUME BeginJoin PROVE Goal'
  BY <1>9, <1>0 DEF BeginJoin, Shape, TypeOK, mainVars, ReceiverGone, Leaving
<1>10. ASSUME JoinAll PROVE Goal'
  BY <1>10, <1>0 DEF JoinAll, Shape, TypeOK, mainVars, ReceiverGone, Leaving
<1>11. CASE UNCHANGED vars
  BY <1>0, <1>11 DEF vars, mainVars, Shape, TypeOK, ReceiverGone, Leaving
<1>12. QED
  BY <1>1, <1>2, <1>3, <1>4, <1>5, <1>6, <1>7, <1>8, <1>9, <1>10, <1>11
  DEF Next

\* Every step keeps track of each request, and the Shutdowns behind the
\* requests that were sent in time.
LEMMA FlowStep ==
  ASSUME Inv, [Next]_vars
  PROVE  Flow'
<1>0. TypeOK' /\ Shape /\ TypeOK /\ Flow /\ Shutdown \notin Requests
  BY TypeStep, PoolAssumption DEF Inv, Shape
<1>1. ASSUME NEW r \in Requests, Call(r) PROVE Flow'
  <2>1. CASE ReceiverGone
    BY <1>0, <1>1, <2>1 DEF Call, Flow, TypeOK, mainVars, Leaving, Queued, RunsAt
  <2>2. CASE ~ReceiverGone
    <3>1. /\ \A x \in Requests : Queued(x) => Queued(x)'
          /\ Queued(r)'
      BY <1>0, <1>1, <2>2, SendFacts DEF Call, Queued
    <3>2. \A x \in Requests, v \in Workers : RunsAt(v, x) => RunsAt(v, x)'
      BY <1>1 DEF Call, RunsAt
    <3>3. \A x \in Requests : call'[x] = "waiting" => x = r \/ call[x] = "waiting"
      BY <1>0, <1>1, <2>2 DEF Call, TypeOK
    <3>4. \A x \in early' : x = r \/ x \in early
      BY <1>1, <2>2 DEF Call
    <3>5. main # "serving" => r \notin early'
      BY <1>0, <1>1, <2>2 DEF Call, Shape
    <3>6. \A i, j \in DOMAIN queue' : queue'[i] \in early' /\ queue'[j] = Shutdown => i < j
      <4>1. CASE main = "serving"
        <5>1. \A j \in DOMAIN queue' : queue'[j] # Shutdown
          BY <1>0, <1>1, <2>2, <4>1, SendFacts DEF Call, Shape, Signals
        <5>2. QED
          BY <5>1
      <4>2. CASE main # "serving"
        BY <1>0, <1>1, <2>2, <3>4, <3>5, <4>2, SendFacts DEF Call, Flow
      <4>3. QED
        BY <4>1, <4>2
    <3>7. Leaving' # {} => \A i \in DOMAIN queue' : queue'[i] \notin early'
      <4>1. Leaving' = Leaving
        BY <1>1 DEF Call, Leaving
      <4>2. Leaving # {} => main # "serving"
        BY <1>0 DEF Shape
      <4>3. QED
        BY <1>0, <1>1, <2>2, <3>4, <3>5, <4>1, <4>2, SendFacts DEF Call, Flow
    <3>8. \A x \in early' : x \in ran' \/ Queued(x)' \/ \E v \in Workers : RunsAt(v, x)'
      BY <1>0, <1>1, <3>1, <3>2, <3>4 DEF Call, Flow, TypeOK
    <3>9. \A x \in Requests :
            call'[x] = "waiting" => Queued(x)' \/ \E v \in Workers : RunsAt(v, x)'
      BY <1>0, <3>1, <3>2, <3>3 DEF Flow
    <3>10. QED
      BY <3>6, <3>7, <3>8, <3>9 DEF Flow
  <2>3. QED
    BY <2>1, <2>2
<1>2. ASSUME NEW r \in Requests, GiveUp(r) PROVE Flow'
  BY <1>2, <1>0 DEF GiveUp, Flow, TypeOK, mainVars, Leaving, Queued, RunsAt
<1>3. ASSUME NEW w \in Workers, Lock(w) PROVE Flow'
  BY <1>3, <1>0 DEF Lock, Flow, TypeOK, mainVars, Leaving, Queued, RunsAt
<1>4. ASSUME NEW w \in Workers, Recv(w) PROVE Flow'
  <2>0. /\ queue # <<>> /\ queue' = Tail(queue) /\ worker[w] = "recv"
        /\ UNCHANGED <<call, early, ran>>
    BY <1>4 DEF Recv
  <2>1. \A x \in Requests : Queued(x) => Queued(x)' \/ RunsAt(w, x)'
    <3>1. SUFFICES ASSUME NEW x \in Requests, NEW i \in DOMAIN queue, queue[i] = x
                   PROVE  Queued(x)' \/ RunsAt(w, x)'
      BY DEF Queued
    <3>2. CASE i = 1
      <4>1. Head(queue) = x /\ x # Shutdown
        BY <1>0, <2>0, <3>1, <3>2, RecvFacts
      <4>2. QED
        BY <1>0, <1>4, <4>1 DEF Recv, RunsAt, TypeOK
    <3>3. CASE i # 1
      BY <1>0, <2>0, <3>1, <3>3, RecvFacts DEF Queued
    <3>4. QED
      BY <3>2, <3>3
  <2>2. \A x \in Requests, v \in Workers : RunsAt(v, x) => RunsAt(v, x)'
    BY <1>0, <1>4, <2>0 DEF Recv, RunsAt, TypeOK
  <2>3. \A i, j \in DOMAIN queue' : queue'[i] \in early' /\ queue'[j] = Shutdown => i < j
    <3>1. SUFFICES ASSUME NEW i \in DOMAIN queue', NEW j \in DOMAIN queue',
                          queue'[i] \in early, queue'[j] = Shutdown
                   PROVE  i < j
      BY <2>0
    <3>2. /\ i \in Nat /\ i + 1 \in DOMAIN queue /\ queue[i + 1] \in early
          /\ j \in Nat /\ j + 1 \in DOMAIN queue /\ queue[j + 1] = Shutdown
      BY <1>0, <2>0, <3>1, RecvFacts
    <3>3. i + 1 < j + 1
      BY <1>0, <3>2 DEF Flow
    <3>4. QED
      BY <3>2, <3>3
  <2>4. Leaving' # {} => \A i \in DOMAIN queue' : queue'[i] \notin early'
    <3>1. CASE Head(queue) = Shutdown
      <4>1. ASSUME NEW i \in DOMAIN queue', queue'[i] \in early PROVE FALSE
        <5>1. /\ i \in Nat /\ i + 1 \in DOMAIN queue /\ queue[i + 1] \in early
              /\ 1 \in DOMAIN queue /\ queue[1] = Shutdown
          BY <1>0, <2>0, <3>1, <4>1, RecvFacts
        <5>2. i + 1 < 1
          BY <1>0, <5>1 DEF Flow
        <5>3. QED
          BY <5>1, <5>2
      <4>2. QED
        BY <2>0, <4>1
    <3>2. CASE Head(queue) # Shutdown
      <4>1. Leaving' \subseteq Leaving
        BY <1>0, <1>4, <3>2 DEF Recv, Leaving, TypeOK
      <4>2. QED
        BY <1>0, <2>0, <4>1, RecvFacts DEF Flow
    <3>3. QED
      BY <3>1, <3>2
  <2>5. \A x \in early' : x \in ran' \/ Queued(x)' \/ \E v \in Workers : RunsAt(v, x)'
    BY <1>0, <2>0, <2>1, <2>2 DEF Flow, TypeOK
  <2>6. \A x \in Requests :
          call'[x] = "waiting" => Queued(x)' \/ \E v \in Workers : RunsAt(v, x)'
    BY <1>0, <2>0, <2>1, <2>2 DEF Flow
  <2>7. QED
    BY <2>3, <2>4, <2>5, <2>6 DEF Flow
<1>5. ASSUME NEW w \in Workers, Finish(w) PROVE Flow'
  <2>1. \A x \in Requests, v \in Workers :
          RunsAt(v, x) => RunsAt(v, x)' \/ (v = w /\ x = job[w])
    BY <1>0, <1>5 DEF Finish, RunsAt, TypeOK
  <2>2. UNCHANGED <<queue, early>> /\ job[w] \in Requests /\ ran' = ran \cup {job[w]}
    BY <1>0, <1>5 DEF Finish, TypeOK
  <2>3. \A x \in Requests : call'[x] = "waiting" => call[x] = "waiting" /\ x # job[w]
    BY <1>0, <1>5, <2>2 DEF Finish, Reply, TypeOK
  <2>4. Leaving' \subseteq Leaving
    BY <1>0, <1>5 DEF Finish, Leaving, TypeOK
  <2>5. \A x \in Requests : Queued(x) => Queued(x)'
    BY <2>2 DEF Queued
  <2>6. \A x \in early' : x \in ran' \/ Queued(x)' \/ \E v \in Workers : RunsAt(v, x)'
    BY <1>0, <2>1, <2>2, <2>5 DEF Flow, TypeOK
  <2>7. \A x \in Requests :
          call'[x] = "waiting" => Queued(x)' \/ \E v \in Workers : RunsAt(v, x)'
    BY <1>0, <2>1, <2>3, <2>5 DEF Flow
  <2>8. QED
    BY <1>0, <2>2, <2>4, <2>6, <2>7 DEF Flow
<1>6. ASSUME NEW w \in Workers, Exit(w) PROVE Flow'
  <2>1. \A x \in Requests, v \in Workers : RunsAt(v, x) => RunsAt(v, x)'
    BY <1>0, <1>6 DEF Exit, RunsAt, TypeOK
  <2>2. \A i \in DOMAIN queue : queue[i] \notin early
    BY <1>0, <1>6 DEF Exit, Flow, Leaving
  <2>3. UNCHANGED <<early, ran>>
    BY <1>6 DEF Exit
  <2>4. CASE \A v \in Workers \ {w} : worker[v] \in {"unborn", "exited"}
    <3>1. queue' = <<>> /\ DOMAIN queue' = {}
      BY <1>6, <2>4 DEF Exit
    <3>2. \A x \in Requests, v \in Workers : ~RunsAt(v, x)
      BY <1>6, <2>4 DEF Exit, RunsAt
    <3>3. \A x \in Requests : call'[x] # "waiting"
      BY <1>0, <1>6, <2>4, <3>2 DEF Exit, Flow
    <3>4. \A x \in early : x \in ran
      BY <1>0, <2>2, <3>2 DEF Flow, Queued, TypeOK
    <3>5. QED
      BY <2>3, <3>1, <3>3, <3>4 DEF Flow
  <2>5. CASE ~\A v \in Workers \ {w} : worker[v] \in {"unborn", "exited"}
    <3>1. UNCHANGED <<queue, call>>
      BY <1>6, <2>5 DEF Exit
    <3>2. \A x \in Requests : Queued(x) => Queued(x)'
      BY <3>1 DEF Queued
    <3>3. \A x \in early' : x \in ran' \/ Queued(x)' \/ \E v \in Workers : RunsAt(v, x)'
      BY <1>0, <2>1, <2>3, <3>2 DEF Flow, TypeOK
    <3>4. \A x \in Requests :
            call'[x] = "waiting" => Queued(x)' \/ \E v \in Workers : RunsAt(v, x)'
      BY <1>0, <2>1, <3>1, <3>2 DEF Flow
    <3>5. QED
      BY <1>0, <2>2, <2>3, <3>1, <3>3, <3>4 DEF Flow
  <2>6. QED
    BY <2>4, <2>5
<1>7. ASSUME BeginShutdown PROVE Flow'
  BY <1>7, <1>0 DEF BeginShutdown, Flow, TypeOK, mainVars, Leaving, Queued, RunsAt
<1>8. ASSUME SendShutdown PROVE Flow'
  <2>0. UNCHANGED <<worker, job, call, early, ran>>
    BY <1>8 DEF SendShutdown
  <2>1. CASE ReceiverGone
    BY <1>0, <1>8, <2>0, <2>1 DEF SendShutdown, Flow, TypeOK, mainVars, Leaving,
       Queued, RunsAt
  <2>2. CASE ~ReceiverGone
    <3>0. queue' = Append(queue, Shutdown) /\ Shutdown \notin early
      BY <1>0, <1>8, <2>2 DEF SendShutdown, TypeOK
    <3>1. \A x \in Requests : Queued(x) => Queued(x)'
      BY <1>0, <3>0, SendFacts DEF Queued
    <3>2. \A x \in Requests, v \in Workers : RunsAt(v, x) => RunsAt(v, x)'
      BY <2>0 DEF RunsAt
    <3>3. \A i \in DOMAIN queue' :
            queue'[i] \in early => i \in DOMAIN queue /\ queue'[i] = queue[i]
      BY <1>0, <3>0, SendFacts
    <3>4. \A i, j \in DOMAIN queue' : queue'[i] \in early' /\ queue'[j] = Shutdown => i < j
      BY <1>0, <2>0, <3>0, <3>3, SendFacts DEF Flow
    <3>5. Leaving' # {} => \A i \in DOMAIN queue' : queue'[i] \notin early'
      BY <1>0, <2>0, <3>3 DEF Flow, Leaving
    <3>6. \A x \in early' : x \in ran' \/ Queued(x)' \/ \E v \in Workers : RunsAt(v, x)'
      BY <1>0, <2>0, <3>1, <3>2 DEF Flow, TypeOK
    <3>7. \A x \in Requests :
            call'[x] = "waiting" => Queued(x)' \/ \E v \in Workers : RunsAt(v, x)'
      BY <1>0, <2>0, <3>1, <3>2 DEF Flow
    <3>8. QED
      BY <3>4, <3>5, <3>6, <3>7 DEF Flow
  <2>3. QED
    BY <2>1, <2>2
<1>9. ASSUME BeginJoin PROVE Flow'
  BY <1>9, <1>0 DEF BeginJoin, Flow, TypeOK, mainVars, Leaving, Queued, RunsAt
<1>10. ASSUME JoinAll PROVE Flow'
  BY <1>10, <1>0 DEF JoinAll, Flow, TypeOK, mainVars, Leaving, Queued, RunsAt
<1>11. CASE UNCHANGED vars
  BY <1>0, <1>11 DEF vars, mainVars, Flow, TypeOK, Leaving, Queued, RunsAt
<1>12. QED
  BY <1>1, <1>2, <1>3, <1>4, <1>5, <1>6, <1>7, <1>8, <1>9, <1>10, <1>11
  DEF Next

\* Every step keeps the Shutdowns and the workers that wait for one equal in
\* number.
LEMMA CountStep ==
  ASSUME Inv, [Next]_vars
  PROVE  EachWorkerOneShutdown'
<1>0. TypeOK' /\ Shape /\ TypeOK /\ EachWorkerOneShutdown /\ Shutdown \notin Requests
  BY TypeStep, PoolAssumption DEF Inv, Shape
<1>a. /\ IsFiniteSet(Running) /\ Cardinality(Running) \in Nat
      /\ IsFiniteSet(Running') /\ Cardinality(Running') \in Nat
  <2>1. Running \in SUBSET Workers /\ Running' \in SUBSET Workers
    BY DEF Running
  <2>2. QED
    BY <2>1, WorkersFinite
<1>b. IsFiniteSet(Signals(queue)) /\ Cardinality(Signals(queue)) \in Nat /\ left \in Nat
  <2>1. queue \in Seq(Requests \cup {Shutdown}) /\ Shutdown \in Requests \cup {Shutdown}
    BY <1>0 DEF TypeOK
  <2>2. left \in Nat
    BY <1>0 DEF TypeOK
  <2>3. QED
    BY <2>1, <2>2, SignalsOfAppend
<1>c. Cardinality({}) = 0
  BY FS_EmptySet
<1>d. Signals(<<>>) = {}
  BY DEF Signals
<1> DEFINE Same == UNCHANGED <<queue, left, main, handles>> /\ Running' = Running
<1>e. Same => EachWorkerOneShutdown'
  BY <1>0 DEF EachWorkerOneShutdown
<1> HIDE DEF Same
<1>1. ASSUME NEW r \in Requests, Call(r) PROVE EachWorkerOneShutdown'
  <2>1. CASE ReceiverGone
    BY <1>e, <1>1, <2>1 DEF Call, Same, Running, mainVars
  <2>2. CASE ~ReceiverGone
    <3>1. Signals(queue') = Signals(queue)
      <4>1. /\ queue \in Seq(Requests \cup {Shutdown}) /\ r \in Requests \cup {Shutdown}
            /\ r # Shutdown
        BY <1>0 DEF TypeOK
      <4>2. queue' = Append(queue, r)
        BY <1>1, <2>2 DEF Call
      <4>3. QED
        BY <4>1, <4>2, SignalsOfAppend
    <3>2. Running' = Running /\ UNCHANGED <<left, main, handles>>
      BY <1>1 DEF Call, Running, mainVars
    <3>3. QED
      BY <1>0, <3>1, <3>2 DEF EachWorkerOneShutdown, Signals
  <2>3. QED
    BY <2>1, <2>2
<1>2. ASSUME NEW r \in Requests, GiveUp(r) PROVE EachWorkerOneShutdown'
  BY <1>e, <1>2 DEF GiveUp, Same, Running, mainVars
<1>3. ASSUME NEW w \in Workers, Lock(w) PROVE EachWorkerOneShutdown'
  BY <1>0, <1>e, <1>3 DEF Lock, Same, Running, mainVars, TypeOK
<1>4. ASSUME NEW w \in Workers, Recv(w) PROVE EachWorkerOneShutdown'
  <2>1. UNCHANGED <<left, main, handles>> /\ queue # <<>> /\ queue' = Tail(queue)
    BY <1>4 DEF Recv, mainVars
  <2>2. CASE Head(queue) = Shutdown
    <3>1. main # "serving"
      BY <1>0, <2>1, <2>2, RecvFacts DEF Shape, Signals
    <3>2. Running' = Running \ {w} /\ w \in Running
      BY <1>0, <1>4, <2>2 DEF Recv, Running, TypeOK
    <3>3. Cardinality(Running') = Cardinality(Running) - 1
      BY <1>a, <3>2, FS_RemoveElement
    <3>4. Cardinality(Signals(queue')) = Cardinality(Signals(queue)) - 1
      BY <1>0, <2>1, <2>2, SignalsOfTail DEF TypeOK
    <3>5. Cardinality(Running) = left + Cardinality(Signals(queue))
      BY <1>0, <3>1 DEF EachWorkerOneShutdown, Signals
    <3>6. Cardinality(Running') = left' + Cardinality(Signals(queue'))
      BY <1>a, <1>b, <2>1, <3>3, <3>4, <3>5
    <3>7. QED
      BY <2>1, <3>1, <3>6 DEF EachWorkerOneShutdown, Signals
  <2>3. CASE Head(queue) # Shutdown
    <3>1. Running' = Running
      BY <1>0, <1>4, <2>3 DEF Recv, Running, TypeOK
    <3>2. Cardinality(Signals(queue')) = Cardinality(Signals(queue))
      BY <1>0, <2>1, <2>3, SignalsOfTail DEF TypeOK
    <3>3. QED
      BY <1>0, <2>1, <3>1, <3>2 DEF EachWorkerOneShutdown, Signals
  <2>4. QED
    BY <2>2, <2>3
<1>5. ASSUME NEW w \in Workers, Finish(w) PROVE EachWorkerOneShutdown'
  BY <1>0, <1>e, <1>5 DEF Finish, Same, Running, mainVars, TypeOK
<1>6. ASSUME NEW w \in Workers, Exit(w) PROVE EachWorkerOneShutdown'
  <2>1. UNCHANGED <<left, main, handles>> /\ Running' = Running
    BY <1>0, <1>6 DEF Exit, mainVars, Running, TypeOK
  <2>2. CASE \A v \in Workers \ {w} : worker[v] \in {"unborn", "exited"}
    <3>1. main # "serving"
      BY <1>0, <1>6 DEF Exit, Shape, Leaving
    <3>2. Running = {}
      BY <1>6, <2>2 DEF Exit, Running
    <3>3. 0 = left + Cardinality(Signals(queue))
      BY <1>0, <1>c, <3>1, <3>2 DEF EachWorkerOneShutdown, Signals
    <3>4. left = 0
      BY <1>b, <3>3
    <3>5. Signals(queue') = {}
      BY <1>d, <1>6, <2>2 DEF Exit
    <3>6. QED
      BY <1>c, <2>1, <3>1, <3>2, <3>4, <3>5 DEF EachWorkerOneShutdown, Signals
  <2>3. CASE ~\A v \in Workers \ {w} : worker[v] \in {"unborn", "exited"}
    BY <1>e, <1>6, <2>1, <2>3 DEF Exit, Same
  <2>4. QED
    BY <2>2, <2>3
<1>7. ASSUME BeginShutdown PROVE EachWorkerOneShutdown'
  <2>1. UNCHANGED <<queue, handles>> /\ Running' = Running /\ main' = "signalling"
    BY <1>7 DEF BeginShutdown, Running
  <2>2. Signals(queue') = {}
    BY <1>0, <1>7, <2>1 DEF BeginShutdown, Shape
  <2>3. Cardinality(Running) = Cardinality(handles)
    BY <1>0, <1>7 DEF BeginShutdown, EachWorkerOneShutdown
  <2>4. Cardinality(Running') = left' + Cardinality(Signals(queue'))
    BY <1>a, <1>c, <1>7, <2>1, <2>2, <2>3 DEF BeginShutdown
  <2>5. QED
    BY <2>1, <2>4 DEF EachWorkerOneShutdown, Signals
<1>8. ASSUME SendShutdown PROVE EachWorkerOneShutdown'
  <2>1. UNCHANGED <<main, handles>> /\ Running' = Running /\ main # "serving"
    BY <1>8 DEF SendShutdown, Running
  <2>2. Cardinality(Running) = left + Cardinality(Signals(queue))
    BY <1>0, <2>1 DEF EachWorkerOneShutdown, Signals
  <2>3. ~ReceiverGone
    <3>1. ReceiverGone => Running = {}
      BY DEF ReceiverGone, Running
    <3>2. left > 0
      BY <1>8 DEF SendShutdown
    <3>3. QED
      BY <1>b, <1>c, <2>2, <3>1, <3>2
  <2>4. Cardinality(Signals(queue')) = Cardinality(Signals(queue)) + 1
    BY <1>0, <1>8, <2>3, SignalsOfAppend DEF SendShutdown, TypeOK
  <2>5. left' = left - 1
    BY <1>8 DEF SendShutdown
  <2>6. Cardinality(Running') = left' + Cardinality(Signals(queue'))
    BY <1>a, <1>b, <2>1, <2>2, <2>4, <2>5
  <2>7. QED
    BY <2>1, <2>6 DEF EachWorkerOneShutdown, Signals
<1>9. ASSUME BeginJoin PROVE EachWorkerOneShutdown'
  BY <1>0, <1>9 DEF BeginJoin, EachWorkerOneShutdown, Running
<1>10. ASSUME JoinAll PROVE EachWorkerOneShutdown'
  BY <1>0, <1>10 DEF JoinAll, EachWorkerOneShutdown, Running
<1>11. CASE UNCHANGED vars
  BY <1>e, <1>11 DEF vars, mainVars, Same, Running
<1>12. QED
  BY <1>1, <1>2, <1>3, <1>4, <1>5, <1>6, <1>7, <1>8, <1>9, <1>10, <1>11
  DEF Next

\* The conjunction is an invariant of the specification.
LEMMA Invariance == Spec => []Inv
<1>1. Inv /\ [Next]_vars => Inv'
  BY ShapeStep, FlowStep, CountStep DEF Inv
<1>2. QED
  BY InitInv, <1>1, PTL DEF Spec

-----------------------------------------------------------------------------
(* the theorems *)

\* The state of the pool keeps its types, and the receiver's mutex its owner, for
\* every number of workers and every set of calls.
THEOREM TypeCorrect == Spec => []TypeOK
<1>1. Inv => TypeOK
  BY DEF Inv, Shape
<1>2. QED
  BY Invariance, <1>1, PTL

\* "One Shutdown per worker": however sends, receives, panics and exits
\* interleave, shutdown() sends exactly what the workers still have to take.
THEOREM OneShutdownPerWorker == Spec => []EachWorkerOneShutdown
<1>1. Inv => EachWorkerOneShutdown
  BY DEF Inv
<1>2. QED
  BY Invariance, <1>1, PTL

\* No request that was sent before shutdown() is thrown away unrun, and nobody
\* waits for a reply once shutdown() has returned.
THEOREM ShutdownLeavesNobody == Spec => []NobodyLeftBehind
<1>1. Inv => NobodyLeftBehind
  <2> SUFFICES ASSUME Inv PROVE NobodyLeftBehind
    OBVIOUS
  <2>1. ReceiverGone => /\ \A r \in Requests : ~Queued(r)
                        /\ \A r, w : ~(w \in Workers /\ RunsAt(w, r))
    BY DEF Inv, Shape, ReceiverGone, Queued, RunsAt
  <2>2. \A r \in early : ReceiverGone => r \in ran
    BY <2>1 DEF Inv, Shape, TypeOK, Flow
  <2>3. main = "done" => \A r \in Requests : call[r] # "waiting"
    BY <2>1 DEF Inv, Shape, Flow
  <2>4. QED
    BY <2>2, <2>3 DEF NobodyLeftBehind
<1>2. QED
  BY Invariance, <1>1, PTL
-----------------------------------------------------------------------------
(***************************************************************************)
(* What holds of QueryWatchdog, which guards each worker's queries, for    *)
(* every number of operations and of statements in one.                    *)
(***************************************************************************)

Places == {"stopcheck", "load", "compare", "interrupt", "disarm", "sleep", "gone"}

\* The watchdog's type invariant.
DogType ==
  /\ deadline \in Nat /\ stop \in BOOLEAN /\ passed \in Nat /\ op \in Nat /\ due \in Nat
  /\ wpc \in {"idle", "op", "stopping", "joined"} /\ toIssue \in 0 .. MaxStmts
  /\ stmt \in {"none", "fast", "stuck", "hit"} /\ dpc \in Places

\* A deadline that is armed, or was when it was loaded, is that of an operation
\* that has begun, and the watchdog fires at one that has passed, although the
\* worker may be with another operation by then.
DogInv ==
  /\ DogType
  /\ deadline <= op /\ due <= op /\ passed <= op
  /\ dpc = "interrupt" => due \in 1 .. passed

LEMMA DogStep ==
  ASSUME WatchdogAssumption, DogInv, [WatchdogNext]_watchdogVars
  PROVE  DogInv'
<1>1. CASE Arm
  BY <1>1 DEF Arm, DGoto, workerVars, IDLE, DogInv, DogType, Places,
     WatchdogAssumption
<1>2. CASE StartStatement
  BY <1>2 DEF StartStatement, DGoto, workerVars, IDLE, DogInv,
     DogType, Places,
     WatchdogAssumption
<1>3. CASE StatementReturns
  BY <1>3 DEF StatementReturns, DGoto, workerVars, IDLE, DogInv,
     DogType, Places,
     WatchdogAssumption
<1>4. CASE FinishOp
  BY <1>4 DEF FinishOp, DGoto, workerVars, IDLE, DogInv, DogType, Places,
     WatchdogAssumption
<1>5. CASE Stop
  BY <1>5 DEF Stop, DGoto, workerVars, IDLE, DogInv, DogType, Places,
     WatchdogAssumption
<1>6. CASE Join
  BY <1>6 DEF Join, DGoto, workerVars, IDLE, DogInv, DogType, Places,
     WatchdogAssumption
<1>7. CASE CheckStop
  BY <1>7 DEF CheckStop, DGoto, workerVars, IDLE, DogInv, DogType,
     Places,
     WatchdogAssumption
<1>8. CASE Load
  BY <1>8 DEF Load, DGoto, workerVars, IDLE, DogInv, DogType, Places,
     WatchdogAssumption
<1>9. CASE Compare
  BY <1>9 DEF Compare, DGoto, workerVars, IDLE, DogInv, DogType, Places,
     WatchdogAssumption
<1>10. CASE Interrupt
  BY <1>10 DEF Interrupt, DGoto, workerVars, IDLE, DogInv, DogType,
     Places,
     WatchdogAssumption
<1>11. CASE Disarm
  BY <1>11 DEF Disarm, DGoto, workerVars, IDLE, DogInv, DogType, Places,
     WatchdogAssumption
<1>12. CASE Sleep
  BY <1>12 DEF Sleep, DGoto, workerVars, IDLE, DogInv, DogType, Places,
     WatchdogAssumption
<1>13. CASE TimePasses
  BY <1>13 DEF TimePasses, DGoto, workerVars, IDLE, DogInv, DogType,
     Places,
     WatchdogAssumption
<1>14. CASE UNCHANGED watchdogVars
  BY <1>14 DEF watchdogVars, workerVars, DogInv, DogType
<1>15. QED
  BY <1>1, <1>2, <1>3, <1>4, <1>5, <1>6, <1>7, <1>8, <1>9, <1>10, <1>11, <1>12, <1>13,
     <1>14
     DEF WatchdogNext, WorkerStep, WatchdogStep

LEMMA DogInvariance == WatchdogSpec => []DogInv
<1>1. WatchdogInit => DogInv
  <2>1. 0 \in 0 .. MaxStmts
    BY WatchdogAssumption DEF WatchdogAssumption
  <2>2. SUFFICES ASSUME WatchdogInit PROVE DogInv
    OBVIOUS
  <2>3. DogType
    BY <2>1, <2>2 DEF WatchdogInit, IDLE, DogType, Places
  <2>4. QED
    BY <2>2, <2>3 DEF WatchdogInit, IDLE, DogInv
<1>2. DogInv /\ [WatchdogNext]_watchdogVars => DogInv'
  BY WatchdogAssumption, DogStep
<1>3. QED
  BY <1>1, <1>2, PTL DEF WatchdogSpec

\* QueryWatchdog::run and the watchdog's loop: for every number of operations a
\* statement is interrupted only if its operation is late, or an earlier one was.
THEOREM AlarmsAreDue == WatchdogSpec => NoFalseAlarm
<1>1. ASSUME DogInv, [WatchdogNext]_watchdogVars, stmt \in {"fast", "stuck"}, stmt' = "hit"
      PROVE  op <= passed \/ (due \in 1 .. passed /\ due < op)
  <2>1. CASE Interrupt
    BY <1>1, <2>1 DEF Interrupt, DogInv, DogType
  <2>2. CASE ~Interrupt
    BY <1>1, <2>2 DEF WatchdogNext, WorkerStep, WatchdogStep, Arm,
       StartStatement, StatementReturns, FinishOp, Stop, Join,
       CheckStop, Load, Compare, Disarm, Sleep, TimePasses, watchdogVars
  <2>3. QED
    BY <2>1, <2>2
<1>2. DogInv /\ [WatchdogNext]_watchdogVars =>
        ((stmt \in {"fast", "stuck"} /\ stmt' = "hit") =>
           \/ op <= passed
           \/ due \in 1 .. passed /\ due < op)
  BY <1>1
<1>3. QED
  BY <1>2, DogInvariance, PTL DEF WatchdogSpec, NoFalseAlarm
-----------------------------------------------------------------------------
(***************************************************************************)
(* What holds of StatsQuery, the query behind the overview, for every      *)
(* range, zone, log, retention and cap on the days of the chart.           *)
(***************************************************************************)

\* The rows that a scan may see.
Within(S) == LET range == Validated(asked) IN \A r \in S : range[1] <= r /\ r < range[2]

\* The type invariant of a query.
StatsType ==
  /\ rows \in SUBSET Times /\ IsFiniteSet(rows) /\ zone \in Zones /\ asked \in Int \X Int
  /\ phase \in {"idle", "asked", "totals", "buckets", "answered"}
  /\ totals \in SUBSET Times /\ buckets \in SUBSET Times /\ dist \in SUBSET Times
  /\ IsFiniteSet(buckets) /\ retained \in BOOLEAN

\* What has been scanned is in the range, and still there until retention deletes
\* it, so that the scans to come will see it.
ScansFollow ==
  /\ phase \in {"buckets", "answered"} => Within(buckets)
  /\ phase = "totals" /\ ~retained => totals \subseteq Scan
  /\ phase = "buckets" /\ ~retained => totals \subseteq buckets /\ buckets \subseteq Scan

StatsInv == StatsType /\ ScansFollow /\ LaterScansSeeMore

\* The least and the greatest of two numbers.
LEMMA MinMax ==
  ASSUME NEW a \in Int, NEW b \in Int
  PROVE  /\ Min({a, b}) = IF a <= b THEN a ELSE b
         /\ Max({a, b}) = IF a >= b THEN a ELSE b
<1>1. \E x \in {a, b} : \A y \in {a, b} : x <= y
  OBVIOUS
<1>2. \E x \in {a, b} : \A y \in {a, b} : x >= y
  OBVIOUS
<1>3. Min({a, b}) \in {a, b} /\ \A y \in {a, b} : Min({a, b}) <= y
  BY <1>1 DEF Min
<1>4. Max({a, b}) \in {a, b} /\ \A y \in {a, b} : Max({a, b}) >= y
  BY <1>2 DEF Max
<1>5. QED
  BY <1>3, <1>4

\* The longest range is a day at least.
LEMMA Longest ==
  ASSUME StatsAssumption
  PROVE  (RetentionDays + 1) * Day \in Nat /\ Day <= (RetentionDays + 1) * Day
<1>1. RetentionDays \in Nat /\ Day \in Nat
  BY DEF StatsAssumption
<1>2. \A a, b \in Nat : (a + 1) * b = a * b + b /\ a * b \in Nat
  OBVIOUS
<1>3. (RetentionDays + 1) * Day = RetentionDays * Day + Day /\ RetentionDays * Day \in Nat
  BY <1>1, <1>2
<1>4. QED
  BY <1>1, <1>3

\* validate_ts_range, for any two timestamps.
LEMMA ValidatedFacts ==
  ASSUME StatsAssumption, NEW ask \in Int \X Int,
         NEW end, end = Min({ask[2], Now + Hour}),
         NEW longest, longest = (RetentionDays + 1) * Day
  PROVE  /\ Validated(ask) \in Int \X Int
         /\ Validated(ask)[1] < Validated(ask)[2] /\ Validated(ask)[2] <= Now + Hour
         /\ Validated(ask)[2] - Validated(ask)[1] <= longest
         /\ Validated(ask)[2] = end
         /\ ask[1] < end =>
              /\ Validated(ask)[1] >= ask[1]
              /\ Validated(ask)[1] > ask[1] =>
                   Validated(ask)[2] - Validated(ask)[1] = longest
         /\ ask[1] >= end => Validated(ask)[2] - Validated(ask)[1] = Day
<1>1. PICK s \in Int, e \in Int : ask = <<s, e>>
  OBVIOUS
<1>2. longest \in Nat /\ Day <= longest
  BY Longest
<1>3. PICK cap \in Int : cap = Now + Hour
  BY DEF StatsAssumption
<1>4. Day \in Nat /\ Day > 0
  BY DEF StatsAssumption
<1>5. end \in Int /\ end <= cap
  <2>1. Min({e, cap}) \in Int /\ Min({e, cap}) <= cap
    BY MinMax
  <2>2. QED
    BY <1>1, <1>3, <2>1
<1>6. Validated(ask) = IF s >= end THEN <<end - Day, end>>
                       ELSE IF end - s > longest THEN <<end - longest, end>>
                       ELSE <<s, end>>
  BY <1>1 DEF Validated
<1>7. PICK x \in Int :
        /\ Validated(ask) = <<x, end>> /\ x < end /\ end - x <= longest
        /\ s < end => x >= s /\ (x > s => end - x = longest)
        /\ s >= end => end - x = Day
  <2>1. CASE s >= end
    <3>1. Validated(ask) = <<end - Day, end>>
      BY <1>6, <2>1
    <3>2. /\ end - Day \in Int /\ end - Day < end /\ end - (end - Day) = Day
          /\ ~(s < end)
      BY <1>4, <1>5, <2>1
    <3>3. QED
      BY <1>2, <3>1, <3>2
  <2>2. CASE ~(s >= end) /\ end - s > longest
    <3>1. Validated(ask) = <<end - longest, end>>
      BY <1>6, <2>2
    <3>2. /\ end - longest \in Int /\ end - longest < end
          /\ end - (end - longest) = longest /\ end - longest >= s
      BY <1>2, <1>4, <1>5, <2>2
    <3>3. QED
      BY <1>2, <2>2, <3>1, <3>2
  <2>3. CASE ~(s >= end) /\ ~(end - s > longest)
    <3>1. Validated(ask) = <<s, end>>
      BY <1>6, <2>3
    <3>2. s < end /\ end - s <= longest /\ s >= s /\ ~(s > s)
      BY <1>2, <1>5, <2>3
    <3>3. QED
      BY <2>3, <3>1, <3>2
  <2>4. QED
    BY <2>1, <2>2, <2>3
<1>8. QED
  BY <1>1, <1>3, <1>5, <1>7

\* clamp_range, by any clock.
LEMMA ClampFacts ==
  ASSUME StatsAssumption, NEW s \in Int, NEW e \in Int, NEW clock \in Int
  PROVE  Clamp(<<s, e>>, clock) \in Int \X Int
<1>1. clock + Hour \in Int /\ Day \in Int
  BY DEF StatsAssumption
<1>2. PICK end \in Int : end = Min({e, clock + Hour})
  BY <1>1, MinMax
<1>3. Clamp(<<s, e>>, clock) = IF s >= end THEN <<end - Day, end>> ELSE <<s, end>>
  BY <1>2 DEF Clamp
<1>4. end - Day \in Int
  BY <1>1
<1>5. <<end - Day, end>> \in Int \X Int /\ <<s, end>> \in Int \X Int
  BY <1>4
<1>6. QED
  BY <1>3, <1>5

LEMMA StatsInitInv ==
  ASSUME StatsAssumption, StatsInit
  PROVE  StatsInv
<1>1. StatsType
  <2>1. {} \in SUBSET Times /\ IsFiniteSet({}) /\ <<0, 0>> \in Int \X Int
    BY FS_EmptySet
  <2>2. QED
    BY <2>1 DEF StatsInit, StatsType
<1>2. QED
  BY <1>1 DEF StatsInit, StatsInv, ScansFollow, LaterScansSeeMore

LEMMA ScanFacts ==
  ASSUME StatsAssumption, StatsType
  PROVE  /\ Scan \in SUBSET Times /\ IsFiniteSet(Scan)
         /\ Within(Scan) /\ Scan \subseteq rows
<1>1. Scan \subseteq rows /\ Within(Scan)
  BY DEF Scan, Within
<1>2. QED
  BY <1>1, FS_Subset DEF StatsType

LEMMA StatsStep ==
  ASSUME StatsAssumption, StatsInv, [StatsNext]_statsVars
  PROVE  StatsInv'
<1> USE DEF StatsInv
<1>1. ASSUME NEW t \in Times, Commit(t) PROVE StatsInv'
  <2>1. rows' \in SUBSET Times /\ IsFiniteSet(rows')
    BY <1>1, FS_AddElement DEF Commit, StatsType
  <2>2. Scan \subseteq Scan'
    BY <1>1 DEF Commit, Scan
  <2>3. QED
    BY <1>1, <2>1, <2>2 DEF Commit, StatsType, ScansFollow, Within,
       LaterScansSeeMore
<1>2. ASSUME Retain PROVE StatsInv'
  <2>1. rows' \subseteq rows
    BY <1>2 DEF Retain
  <2>2. rows' \in SUBSET Times /\ IsFiniteSet(rows')
    BY <2>1, FS_Subset DEF StatsType
  <2>3. /\ UNCHANGED <<zone, asked, phase, totals, buckets, dist>>
        /\ retained' = (retained \/ phase \in {"totals", "buckets"})
    BY <1>2 DEF Retain
  <2>4. QED
    BY <2>2, <2>3 DEF StatsType, ScansFollow, Within, LaterScansSeeMore
<1>3. ASSUME NEW s \in Asked \cup {Absent}, NEW e \in Asked \cup {Absent}, Ask(s, e)
      PROVE  StatsInv'
  <2>1. Now \in Int /\ Asked \subseteq Int /\ Now - DefaultDays * Day \in Int
    BY DEF StatsAssumption
  <2>2. asked' \in Int \X Int
    BY <1>3, <2>1 DEF Ask
  <2>3. QED
    BY <1>3, <2>2 DEF Ask, StatsType, ScansFollow, LaterScansSeeMore
<1>4. ASSUME ScanTotals PROVE StatsInv'
  <2>1. Scan' = Scan
    BY <1>4 DEF ScanTotals, Scan
  <2>2. QED
    BY <1>4, <2>1, ScanFacts DEF ScanTotals, StatsType, ScansFollow,
       LaterScansSeeMore
<1>5. ASSUME ScanBuckets PROVE StatsInv'
  <2>1. Scan' = Scan /\ Within(buckets)'
    BY <1>5, ScanFacts DEF ScanBuckets, Scan, Within
  <2>2. QED
    BY <1>5, <2>1, ScanFacts DEF ScanBuckets, StatsType, ScansFollow,
       LaterScansSeeMore
<1>6. ASSUME ScanDist PROVE StatsInv'
  <2>1. Within(buckets)' = Within(buckets)
    BY <1>6 DEF ScanDist, Within
  <2>2. QED
    BY <1>6, <2>1, ScanFacts DEF ScanDist, StatsType, ScansFollow,
       LaterScansSeeMore
<1>7. ASSUME NEW s \in Asked, NEW e \in Asked, NEW c \in Clocks, AskFromPage(s, e, c)
      PROVE  StatsInv'
  <2>1. s \in Int /\ e \in Int /\ c \in Int
    BY DEF StatsAssumption
  <2>2. asked' \in Int \X Int
    BY <1>7, <2>1, ClampFacts DEF AskFromPage
  <2>3. QED
    BY <1>7, <2>2 DEF AskFromPage, StatsType, ScansFollow, LaterScansSeeMore
<1>8. CASE UNCHANGED statsVars
  <2>1. Scan' = Scan /\ Within(buckets)' = Within(buckets)
    BY <1>8 DEF statsVars, Scan, Within
  <2>2. QED
    BY <1>8, <2>1 DEF statsVars, StatsType, ScansFollow, LaterScansSeeMore
<1>9. QED
  BY <1>1, <1>2, <1>3, <1>4, <1>5, <1>6, <1>7, <1>8 DEF StatsNext

LEMMA StatsInvariance == StatsSpec => []StatsInv
<1>1. StatsInit => StatsInv
  BY StatsAssumption, StatsInitInv
<1>2. StatsInv /\ [StatsNext]_statsVars => StatsInv'
  BY StatsAssumption, StatsStep
<1>3. QED
  BY <1>1, <1>2, PTL DEF StatsSpec

\* A statistics query's state stays well typed.
THEOREM StatsTypeCorrect == StatsSpec => []StatsType
<1>1. StatsInv => StatsType
  BY DEF StatsInv
<1>2. QED
  BY <1>1, StatsInvariance, PTL

\* validate_ts_range serves a range that is not empty and not too long, for all
\* timestamps, whatever is kept and whatever clock clamp_range went by; it ends
\* where it should and loses only what is too old for it.
THEOREM RangeIsServed == StatsSpec => []ServedRange
<1>1. StatsInv => ServedRange
  <2>1. SUFFICES ASSUME StatsInv PROVE ServedRange
    OBVIOUS
  <2>2. asked \in Int \X Int
    BY <2>1 DEF StatsInv, StatsType
  <2>3. QED
    BY StatsAssumption, <2>2, ValidatedFacts DEF ServedRange
<1>2. QED
  BY <1>1, StatsInvariance, PTL

\* overview_impl: of its three scans a later one has every row of an earlier one,
\* unless retention ran in between.
THEOREM ScansGrow == StatsSpec => []LaterScansSeeMore
<1>1. StatsInv => LaterScansSeeMore
  BY DEF StatsInv
<1>2. QED
  BY <1>1, StatsInvariance, PTL

\* A non-empty set of natural numbers has a least element.
LEMMA Least ==
  ASSUME NEW T \in SUBSET Nat, T # {}
  PROVE  Min(T) \in T /\ \A y \in T : Min(T) <= y
<1> DEFINE R == {ss \in Nat \X Nat : ss[1] < ss[2]}
<1>1. IsWellFoundedOn(R, Nat)
  BY NatLessThanWellFounded DEF OpToRel
<1>2. \A x, y \in Nat : y < x => <<y, x>> \in R
  OBVIOUS
<1> HIDE DEF R
<1>3. PICK x \in T : \A y \in T : <<y, x>> \notin R
  BY <1>1, WFMin
<1>4. ASSUME NEW y \in T PROVE x <= y
  <2>1. x \in Nat /\ y \in Nat /\ ~(y < x)
    BY <1>2, <1>3
  <2>2. QED
    BY <2>1
<1>5. QED
  BY <1>3, <1>4 DEF Min

-----------------------------------------------------------------------------
(* the chart *)

\* Remainders and multiples.
LEMMA Remainder ==
  ASSUME NEW x \in Int, NEW n \in Nat \ {0}
  PROVE  x % n \in 0 .. n - 1 /\ \E q \in Int : x - (x % n) = q * n
<1>1. x = n * (x \div n) + (x % n) /\ x \div n \in Int /\ x % n \in 0 .. n - 1
  OBVIOUS
<1>2. PICK q \in Int : q = x \div n
  BY <1>1
<1>3. PICK m \in 0 .. n - 1 : m = x % n
  BY <1>1
<1>4. x = n * q + m /\ n * q = q * n /\ q * n \in Int
  BY <1>1, <1>2, <1>3
<1>5. x - m = q * n
  BY <1>4
<1>6. QED
  BY <1>3, <1>5

LEMMA Multiples ==
  ASSUME NEW n \in Nat \ {0}, NEW p \in Int, NEW q \in Int, p * n < q * n
  PROVE  p < q /\ p * n + n <= q * n
<1>1. ASSUME NEW a \in Int,
             NEW k \in Nat PROVE (a + k) * n = a * n + k * n /\ k * n >= 0
  OBVIOUS
<1>2. p < q
  <2>1. SUFFICES ASSUME p - q \in Nat PROVE FALSE
    OBVIOUS
  <2>2. (q + (p - q)) * n = q * n + (p - q) * n /\ (p - q) * n >= 0
    BY <1>1, <2>1
  <2>3. q + (p - q) = p /\ p * n \in Int /\ q * n \in Int /\ (p - q) * n \in Int
    OBVIOUS
  <2>4. QED
    BY <2>2, <2>3
<1>3. (p + 1) * n = p * n + n /\ p + 1 \in Int /\ q - (p + 1) \in Nat
  BY <1>2
<1>4. ((p + 1) + (q - (p + 1))) * n = (p + 1) * n + (q - (p + 1)) * n
      /\ (q - (p + 1)) * n >= 0
  BY <1>1, <1>3
<1>5. (p + 1) + (q - (p + 1)) = q /\ p * n \in Int /\ q * n \in Int
      /\ (q - (p + 1)) * n \in Int
  OBVIOUS
<1>6. QED
  BY <1>2, <1>3, <1>4, <1>5

\* A time that is midnight in the browser.
IsMidnight(t) == \E q \in Int : t + zone = q * Day

LEMMA MidnightFacts ==
  ASSUME StatsAssumption, StatsType, NEW t \in Int
  PROVE  /\ Midnight(t) \in Int /\ IsMidnight(Midnight(t))
         /\ Midnight(t) <= t /\ t < Midnight(t) + Day
         /\ HourOf(t) \in Int /\ HourOf(t) <= t /\ t < HourOf(t) + Hour
         /\ \E h \in Int : HourOf(t) = h * Hour
<1>1. Day \in Nat \ {0} /\ Hour \in Nat \ {0} /\ zone \in Int
  BY DEF StatsAssumption, StatsType
<1>2. t + zone \in Int
  BY <1>1
<1>3. /\ (t + zone) % Day \in 0 .. Day - 1
      /\ \E q \in Int : (t + zone) - ((t + zone) % Day) = q * Day
  BY <1>1, <1>2, Remainder
<1>4. t % Hour \in 0 .. Hour - 1 /\ \E q \in Int : t - (t % Hour) = q * Hour
  BY <1>1, Remainder
<1>5. PICK x \in 0 .. Day - 1 : x = (t + zone) % Day
  BY <1>3
<1>6. PICK y \in 0 .. Hour - 1 : y = t % Hour
  BY <1>4
<1>7. (t - x) + zone = (t + zone) - x
  BY <1>1, <1>5
<1>8. IsMidnight(t - x)
  BY <1>3, <1>5, <1>7 DEF IsMidnight
<1>9. Midnight(t) = t - x /\ HourOf(t) = t - y
  BY <1>5, <1>6 DEF Midnight, HourOf
<1>10. /\ t - x \in Int /\ t - x <= t /\ t < (t - x) + Day
       /\ t - y \in Int /\ t - y <= t /\ t < (t - y) + Hour
  BY <1>1, <1>5, <1>6
<1>11. \E h \in Int : t - y = h * Hour
  BY <1>4, <1>6
<1>12. QED
  BY <1>8, <1>9, <1>10, <1>11

\* Two midnights are a number of days apart.
LEMMA MidnightsApart ==
  ASSUME StatsAssumption, StatsType, NEW a \in Int, NEW b \in Int,
         IsMidnight(a), IsMidnight(b)
  PROVE  /\ a < b => a + Day <= b
         /\ a <= b => \E k \in Nat : b = a + k * Day
<1>1. Day \in Nat \ {0} /\ zone \in Int
  BY DEF StatsAssumption, StatsType
<1>2. PICK p \in Int : a + zone = p * Day
  BY DEF IsMidnight
<1>3. PICK q \in Int : b + zone = q * Day
  BY DEF IsMidnight
<1>4. a < b => p * Day < q * Day
  BY <1>1, <1>2, <1>3
<1>5. a < b => p < q /\ p * Day + Day <= q * Day
  BY <1>1, <1>4, Multiples
<1>6. a < b => a + Day <= b
  BY <1>1, <1>2, <1>3, <1>5
<1>7. ASSUME a < b PROVE \E k \in Nat : b = a + k * Day
  <2>1. q - p \in Nat
    BY <1>5, <1>7
  <2>2. (p + (q - p)) * Day = p * Day + (q - p) * Day
    BY <1>1, <2>1
  <2>3. p + (q - p) = q /\ (q - p) * Day \in Int
    BY <1>1
  <2>4. b = a + (q - p) * Day
    BY <1>1, <1>2, <1>3, <2>2, <2>3
  <2>5. QED
    BY <2>1, <2>4
<1>8. ASSUME a = b PROVE \E k \in Nat : b = a + k * Day
  <2>1. b = a + 0 * Day
    BY <1>1, <1>8
  <2>2. QED
    BY <2>1
<1>9. a <= b => a < b \/ a = b
  OBVIOUS
<1>10. QED
  BY <1>6, <1>7, <1>8, <1>9

Below(S, d) == {e \in S : e < d}

\* The places of the members of a set, in their order.
LEMMA Ranks ==
  ASSUME NEW S \in SUBSET Int, IsFiniteSet(S)
  PROVE  /\ Cardinality(S) \in Nat
         /\ \A d \in S : Cardinality(Below(S, d)) \in 0 .. Cardinality(S) - 1
         /\ \A c, d \in S : c < d => Cardinality(Below(S, c)) < Cardinality(Below(S, d))
         /\ \A c, d \in S : Cardinality(Below(S, c)) = Cardinality(Below(S, d)) => c = d
         /\ \A i \in 1 .. Cardinality(S) : \E d \in S : Cardinality(Below(S, d)) = i - 1
<1>1. ASSUME NEW d PROVE IsFiniteSet(Below(S, d)) /\ Cardinality(Below(S, d)) \in Nat
  BY FS_Subset, FS_CardinalityType DEF Below
<1>2. PICK n \in Nat : n = Cardinality(S)
  BY FS_CardinalityType
<1>3. ASSUME NEW d \in S PROVE Cardinality(Below(S, d)) \in 0 .. n - 1
  <2>1. Below(S, d) \in SUBSET S /\ d \notin Below(S, d)
    BY DEF Below
  <2>2. Cardinality(Below(S, d)) <= n /\ Cardinality(Below(S, d)) # n
    BY <1>2, <2>1, FS_Subset
  <2>3. QED
    BY <1>1, <1>2, <2>2
<1>4. ASSUME NEW c \in S, NEW d \in S, c < d
      PROVE  Cardinality(Below(S, c)) < Cardinality(Below(S, d))
  <2>1. \A e \in S : e < c => e < d
    BY <1>4
  <2>2. Below(S, c) \in SUBSET Below(S, d)
    BY <2>1 DEF Below
  <2>3. c \in Below(S, d) /\ c \notin Below(S, c)
    BY <1>4 DEF Below
  <2>4. /\ Cardinality(Below(S, c)) <= Cardinality(Below(S, d))
        /\ Cardinality(Below(S, c)) # Cardinality(Below(S, d))
    BY <1>1, <2>2, <2>3, FS_Subset
  <2>5. QED
    BY <1>1, <2>4
<1>5. ASSUME NEW c \in S, NEW d \in S,
             Cardinality(Below(S, c)) = Cardinality(Below(S, d))
      PROVE  c = d
  <2>1. ~(c < d) /\ ~(d < c)
    BY <1>1, <1>4, <1>5
  <2>2. QED
    BY <2>1
<1>6. ASSUME NEW i \in 1 .. n PROVE \E d \in S : Cardinality(Below(S, d)) = i - 1
  <2> DEFINE rank == [d \in S |-> Cardinality(Below(S, d))]
  <2>1. rank \in Injection(S, 0 .. n - 1)
    <3>1. rank \in [S -> 0 .. n - 1]
      BY <1>3
    <3>2. \A c, d \in S : rank[c] = rank[d] => c = d
      BY <1>5
    <3>3. QED
      BY <3>1, <3>2 DEF Injection, IsInjective
  <2>2. IsFiniteSet(0 .. n - 1) /\ Cardinality(0 .. n - 1) = n
    <3>1. 0 \in Int /\ n - 1 \in Int /\ ~(0 > n - 1) /\ (n - 1) - 0 + 1 = n
      OBVIOUS
    <3>2. QED
      BY <3>1, FS_Interval
  <2>3. rank \in Surjection(S, 0 .. n - 1)
    BY <1>2, <2>1, <2>2, FS_Injection
  <2>4. i - 1 \in 0 .. n - 1
    OBVIOUS
  <2>5. PICK d \in S : rank[d] = i - 1
    BY <2>3, <2>4 DEF Surjection
  <2>6. QED
    BY <2>5
<1>7. QED
  BY <1>2, <1>3, <1>4, <1>5, <1>6

Days(S) == {DayOf(r) : r \in S}

Rows(d) == Cardinality({r \in buckets : DayOf(r) = d})

\* aggregate_daily: the days in their order, each with its rows.
LEMMA DailyFacts ==
  ASSUME StatsAssumption, StatsType, NEW daily, daily = AggregateDaily(buckets)
  PROVE  /\ Days(buckets) \in SUBSET Int /\ IsFiniteSet(Days(buckets))
         /\ Cardinality(Days(buckets)) \in Nat
         /\ daily \in Seq([day : Int, count : Nat]) /\ Len(daily) = Cardinality(Days(buckets))
         /\ \A i \in 1 .. Len(daily) :
              /\ daily[i].day \in Days(buckets)
              /\ Cardinality(Below(Days(buckets), daily[i].day)) = i - 1
              /\ daily[i].count = Rows(daily[i].day)
<1>1. buckets \in SUBSET Int
  <2>1. buckets \in SUBSET Times
    BY DEF StatsType
  <2>2. Now \in Nat /\ Times \in SUBSET (0 .. Now)
    BY DEF StatsAssumption
  <2>3. QED
    BY <2>1, <2>2
<1>2. Days(buckets) \in SUBSET Int
  <2>1. ASSUME NEW r \in buckets PROVE DayOf(r) \in Int
    BY <1>1, MidnightFacts DEF DayOf
  <2>2. QED
    BY <2>1 DEF Days
<1>3. IsFiniteSet(Days(buckets))
  <2> DEFINE day == [r \in buckets |-> DayOf(r)]
  <2>1. day \in Surjection(buckets, Days(buckets))
    BY DEF Days, Surjection
  <2>2. QED
    BY <2>1, FS_Surjection DEF StatsType
<1>4. PICK S \in SUBSET Int : S = Days(buckets)
  BY <1>2
<1>5. PICK n \in Nat : n = Cardinality(S)
  BY <1>3, <1>4, FS_CardinalityType
<1> DEFINE nth(i) == CHOOSE d \in S : Cardinality({e \in S : e < d}) = i - 1
<1>6. daily = [i \in 1 .. n |-> [day |-> nth(i), count |-> Rows(nth(i))]]
  BY <1>4, <1>5 DEF AggregateDaily, Days, Rows
<1>7. ASSUME NEW i \in 1 .. n PROVE nth(i) \in S /\ Cardinality(Below(S,
             nth(i))) = i - 1
  <2>1. \E d \in S : Cardinality(Below(S, d)) = i - 1
    BY <1>3, <1>4, <1>5, Ranks
  <2>2. \E d \in S : Cardinality({e \in S : e < d}) = i - 1
    BY <2>1 DEF Below
  <2>3. nth(i) \in S /\ Cardinality({e \in S : e < nth(i)}) = i - 1
    BY <2>2
  <2>4. QED
    BY <2>3 DEF Below
<1>8. ASSUME NEW d PROVE Rows(d) \in Nat
  <2>1. {r \in buckets : DayOf(r) = d} \in SUBSET buckets
    OBVIOUS
  <2>2. QED
    BY <2>1, FS_Subset, FS_CardinalityType DEF StatsType, Rows
<1> HIDE DEF nth
<1>9. \A i \in 1 .. n : daily[i].day = nth(i) /\ daily[i].count = Rows(nth(i))
  BY <1>6
<1>10. daily \in Seq([day : Int, count : Nat]) /\ Len(daily) = n
  <2>1. \A i \in 1 .. n : [day |-> nth(i), count |-> Rows(nth(i))] \in [day : Int, count : Nat]
    BY <1>4, <1>7, <1>8
  <2>2. daily \in [1 .. n -> [day : Int, count : Nat]]
    BY <1>6, <2>1
  <2>3. daily \in Seq([day : Int, count : Nat])
    <3>1. ASSUME NEW T, daily \in [1 .. n -> T] PROVE daily \in Seq(T)
      BY <3>1
    <3>2. QED
      BY <2>2, <3>1
  <2>4. DOMAIN daily = 1 .. n /\ Len(daily) \in Nat /\ DOMAIN daily = 1 .. Len(daily)
    BY <2>2, <2>3
  <2>5. QED
    BY <2>3, <2>4
<1>11. \A i \in 1 .. n : daily[i].count = Rows(daily[i].day)
  BY <1>9
<1>12. QED
  BY <1>2, <1>3, <1>4, <1>5, <1>7, <1>9, <1>10, <1>11

\* What the chart loses is explained: otherwise every row is in a bucket of a day
\* that the chart has.
LEMMA DaysInRange ==
  ASSUME StatsAssumption, StatsType, Within(buckets),
         ~(/\ zone % Hour # 0
           /\ \E r \in buckets : HourOf(r) < Midnight(Validated(asked)[1])),
         NEW first, first = Midnight(Validated(asked)[1]),
         NEW last, last = Midnight(Validated(asked)[2])
  PROVE  /\ first \in Int /\ last \in Int
         /\ IsMidnight(first) /\ IsMidnight(last) /\ first <= last
         /\ \A d \in Days(buckets) : d \in Int /\ IsMidnight(d) /\ first <= d /\ d <= last
<1>1. PICK s \in Int, e \in Int : Validated(asked) = <<s, e>> /\ s < e
  <2>1. asked \in Int \X Int
    BY DEF StatsType
  <2>2. Validated(asked) \in Int \X Int /\ Validated(asked)[1] < Validated(asked)[2]
    BY <2>1, ValidatedFacts
  <2>3. QED
    BY <2>2
<1>2. Day \in Nat \ {0} /\ Hour \in Nat \ {0} /\ zone \in Nat /\ buckets \in SUBSET Int
  BY DEF StatsAssumption, StatsType
<1>3. /\ first \in Int /\ last \in Int /\ IsMidnight(first) /\ IsMidnight(last)
      /\ first <= s /\ e < last + Day
  BY <1>1, MidnightFacts
<1>4. first <= last
  <2>1. SUFFICES ASSUME last < first PROVE FALSE
    BY <1>3
  <2>2. last + Day <= first
    BY <1>3, <2>1, MidnightsApart
  <2>3. QED
    BY <1>1, <1>2, <1>3, <2>2
<1>5. ASSUME NEW r \in buckets PROVE r \in Int /\ s <= r /\ r < e
  BY <1>1, <1>2 DEF Within
<1>6. ASSUME NEW r \in buckets PROVE first <= HourOf(r)
  <2>1. CASE zone % Hour # 0
    <3>1. HourOf(r) \in Int /\ ~(HourOf(r) < first)
      BY <1>5, <2>1, MidnightFacts
    <3>2. QED
      BY <1>3, <3>1
  <2>2. CASE zone % Hour = 0
    <3>1. PICK a \in Int : zone = a * Hour
      <4>1. PICK a \in Int : zone - (zone % Hour) = a * Hour
        <5>1. zone \in Int
          BY <1>2
        <5>2. QED
          BY <1>2, <5>1, Remainder
      <4>2. QED
        <5>1. zone - 0 = a * Hour /\ zone - 0 = zone
          BY <1>2, <2>2, <4>1
        <5>2. QED
          BY <5>1
    <3>2. PICK b \in Int : Day = b * Hour
      <4>1. PICK b \in Int : Day - (Day % Hour) = b * Hour
        <5>1. Day \in Int
          BY <1>2
        <5>2. QED
          BY <1>2, <5>1, Remainder
      <4>2. Day % Hour = 0
        BY DEF StatsAssumption
      <4>3. Day - 0 = b * Hour /\ Day - 0 = Day
        BY <1>2, <4>1, <4>2
      <4>4. QED
        BY <4>3
    <3>3. PICK q \in Int : first + zone = q * Day
      BY <1>3 DEF IsMidnight
    <3>4. PICK c \in Int : c = q * b - a
      OBVIOUS
    <3>5. first = c * Hour
      <4>1. q * Day = (q * b) * Hour
        BY <1>2, <3>2
      <4>2. PICK qb \in Int : qb = q * b
        OBVIOUS
      <4>3. (qb - a) * Hour = qb * Hour - a * Hour
        BY <1>2
      <4>4. qb * Hour \in Int /\ a * Hour \in Int
        BY <1>2
      <4>5. QED
        BY <1>2, <1>3, <3>1, <3>3, <3>4, <4>1, <4>2, <4>3, <4>4
    <3>6. PICK h \in Int :
            HourOf(r) = h * Hour /\ r < HourOf(r) + Hour /\ HourOf(r) \in Int
      BY <1>5, MidnightFacts
    <3>7. SUFFICES ASSUME h * Hour < c * Hour PROVE FALSE
      BY <1>3, <3>5, <3>6
    <3>8. h * Hour + Hour <= c * Hour
      BY <1>2, <3>7, Multiples
    <3>9. first <= s /\ s <= r /\ r < first
      BY <1>2, <1>3, <1>5, <3>5, <3>6, <3>8
    <3>10. QED
      BY <1>1, <1>3, <1>5, <3>9
  <2>3. QED
    BY <2>1, <2>2
<1>7. ASSUME NEW r \in buckets
      PROVE  /\ DayOf(r) \in Int /\ IsMidnight(DayOf(r))
             /\ first <= DayOf(r) /\ DayOf(r) <= last
  <2>1. PICK h \in Int : h = HourOf(r) /\ h <= r /\ first <= h
    BY <1>5, <1>6, MidnightFacts
  <2>2. PICK d \in Int : d = DayOf(r) /\ IsMidnight(d) /\ d <= h /\ h < d + Day
    BY <2>1, MidnightFacts DEF DayOf
  <2>3. ~(d < first)
    <3>1. d < first => d + Day <= first
      BY <1>3, <2>2, MidnightsApart
    <3>2. QED
      BY <1>2, <1>3, <2>1, <2>2, <3>1
  <2>4. ~(last < d)
    <3>1. last < d => last + Day <= d
      BY <1>3, <2>2, MidnightsApart
    <3>2. QED
      BY <1>1, <1>2, <1>3, <1>5, <2>1, <2>2, <3>1
  <2>5. QED
    BY <1>3, <2>2, <2>3, <2>4
<1>8. QED
  BY <1>3, <1>4, <1>7 DEF Days

\* The counts that are taken when the days before t are filled.
Taken(t) == 1 + Cardinality(Below(Days(buckets), t))

\* fill_daily_range takes the next count at a day if and only if the day has rows.
LEMMA TakenFacts ==
  ASSUME StatsAssumption, StatsType, NEW daily, daily = AggregateDaily(buckets),
         NEW c \in Int, IsMidnight(c),
         \A d \in Days(buckets) : d \in Int /\ IsMidnight(d)
  PROVE  /\ Taken(c) \in Nat \ {0}
         /\ c \in Days(buckets) <=> Taken(c) <= Len(daily) /\ daily[Taken(c)].day = c
         /\ Taken(c + Day) = IF c \in Days(buckets) THEN Taken(c) + 1 ELSE Taken(c)
<1>1. PICK S \in SUBSET Int : S = Days(buckets) /\ IsFiniteSet(S)
  BY DailyFacts
<1>2. /\ Len(daily) = Cardinality(S) /\ Len(daily) \in Nat
      /\ \A i \in 1 .. Len(daily) :
           daily[i].day \in S /\ Cardinality(Below(S, daily[i].day)) = i - 1
  BY <1>1, DailyFacts
<1>3. Day \in Nat \ {0}
  BY DEF StatsAssumption
<1>4. PICK n \in Nat : n = Cardinality(Below(S, c)) /\ IsFiniteSet(Below(S, c))
  BY <1>1, FS_Subset, FS_CardinalityType DEF Below
<1>5. Taken(c) = n + 1
  BY <1>1, <1>4 DEF Taken
<1>6. ASSUME c \in S PROVE n + 1 <= Len(daily) /\ daily[n + 1].day = c
  <2>1. n \in 0 .. Cardinality(S) - 1
    BY <1>1, <1>4, <1>6, Ranks
  <2>2. n + 1 \in 1 .. Len(daily) /\ (n + 1) - 1 = n
    BY <1>2, <2>1
  <2>3. PICK d \in S : d = daily[n + 1].day /\ Cardinality(Below(S, d)) = n
    BY <1>2, <2>2
  <2>4. d = c
    BY <1>1, <1>4, <1>6, <2>3, Ranks
  <2>5. QED
    BY <2>2, <2>3, <2>4
<1>7. ASSUME n + 1 <= Len(daily), daily[n + 1].day = c PROVE c \in S
  <2>1. n + 1 \in 1 .. Len(daily)
    BY <1>2, <1>7
  <2>2. QED
    BY <1>2, <1>7, <2>1
<1>8. ASSUME NEW d \in S PROVE d < c + Day <=> d < c \/ d = c
  <2>1. d \in Int /\ IsMidnight(d)
    BY <1>1
  <2>2. c < d => c + Day <= d
    BY <2>1, MidnightsApart
  <2>3. QED
    BY <1>3, <2>1, <2>2
<1>9. Cardinality(Below(S, c + Day)) = IF c \in S THEN n + 1 ELSE n
  <2>1. CASE c \in S
    <3>1. \A d : d \in Below(S, c + Day) <=> d \in Below(S, c) \cup {c}
      BY <1>8, <2>1 DEF Below
    <3>2. Below(S, c + Day) = Below(S, c) \cup {c}
      BY <3>1
    <3>3. c \notin Below(S, c)
      BY DEF Below
    <3>4. QED
      BY <1>4, <2>1, <3>2, <3>3, FS_AddElement
  <2>2. CASE c \notin S
    <3>1. Below(S, c + Day) = Below(S, c)
      BY <1>8, <2>2 DEF Below
    <3>2. QED
      BY <1>4, <2>2, <3>1
  <2>3. QED
    BY <2>1, <2>2
<1>10. Taken(c + Day) = IF c \in S THEN (n + 1) + 1 ELSE n + 1
  <2>1. Taken(c + Day) = 1 + Cardinality(Below(S, c + Day))
    BY <1>1 DEF Taken
  <2>2. QED
    BY <1>9, <2>1
<1>11. QED
  BY <1>1, <1>5, <1>6, <1>7, <1>10

\* The recursion that fill_daily_range is has one solution.
Fills(f, n, daily, range) ==
  /\ f[0] = 1
  /\ \A k \in 1 .. n :
       f[k] = IF f[k - 1] <= Len(daily) /\ daily[f[k - 1]].day = DayAt(range, k)
              THEN f[k - 1] + 1 ELSE f[k - 1]

LEMMA NextIsUnique ==
  ASSUME NEW n \in Nat, NEW daily, NEW range, NEW f, NEW g,
         Fills(f, n, daily, range), Fills(g, n, daily, range)
  PROVE  \A k \in 0 .. n : f[k] = g[k]
<1> DEFINE bad == {k \in 0 .. n : f[k] # g[k]}
<1>1. SUFFICES ASSUME bad # {} PROVE FALSE
  OBVIOUS
<1>2. bad \in SUBSET Nat
  OBVIOUS
<1>3. PICK k \in bad : \A j \in bad : k <= j
  BY <1>1, <1>2, Least
<1>4. k # 0
  BY <1>3 DEF Fills
<1>5. PICK j \in 0 .. n : j = k - 1 /\ j \notin bad /\ k \in 1 .. n
  BY <1>3, <1>4
<1>6. f[j] = g[j]
  BY <1>5
<1>7. f[k] = IF f[j] <= Len(daily) /\ daily[f[j]].day = DayAt(range, k)
             THEN f[j] + 1 ELSE f[j]
  BY <1>5 DEF Fills
<1>8. g[k] = IF g[j] <= Len(daily) /\ daily[g[j]].day = DayAt(range, k)
             THEN g[j] + 1 ELSE g[j]
  BY <1>5 DEF Fills
<1>9. QED
  BY <1>3, <1>6, <1>7, <1>8

\* Once k days of the chart are filled, the counts of the days up to then are taken.
LEMMA NextFacts ==
  ASSUME StatsAssumption, StatsType, NEW daily, daily = AggregateDaily(buckets),
         NEW range, DaySpan(range) \in Nat,
         Midnight(range[1]) \in Int, IsMidnight(Midnight(range[1])),
         \A d \in Days(buckets) : d \in Int /\ IsMidnight(d) /\ Midnight(range[1]) <= d
  PROVE  \A k \in 1 .. DaySpan(range) :
           /\ DayAt(range, k) \in Int /\ IsMidnight(DayAt(range, k))
           /\ NextCount(daily, range)[k - 1] = Taken(DayAt(range, k))
           /\ NextCount(daily, range)[k] = Taken(DayAt(range, k) + Day)
<1>1. PICK first \in Int : first = Midnight(range[1]) /\ IsMidnight(first)
  OBVIOUS
<1>2. PICK n \in Nat : n = DaySpan(range)
  OBVIOUS
<1>3. Day \in Nat \ {0} /\ zone \in Int
  BY DEF StatsAssumption, StatsType
<1>4. ASSUME NEW k \in Nat PROVE first + k * Day \in Int /\ IsMidnight(first + k * Day)
  <2>1. PICK q \in Int : first + zone = q * Day
    BY <1>1 DEF IsMidnight
  <2>2. (q + k) * Day = q * Day + k * Day /\ k * Day \in Int /\ q * Day \in Int
    BY <1>3
  <2>3. (first + k * Day) + zone = (q + k) * Day /\ q + k \in Int
    BY <1>3, <2>1, <2>2
  <2>4. QED
    BY <2>2, <2>3 DEF IsMidnight
<1>5. ASSUME NEW k \in 1 .. n
      PROVE  /\ DayAt(range, k) = first + (k - 1) * Day /\ k - 1 \in Nat
             /\ first + k * Day = DayAt(range, k) + Day
  <2>1. k - 1 \in Nat /\ ((k - 1) + 1) * Day = (k - 1) * Day + Day /\ (k - 1) + 1 = k
        /\ (k - 1) * Day \in Int
    BY <1>3
  <2>2. DayAt(range, k) = first + (k - 1) * Day
    BY <1>1 DEF DayAt
  <2>3. QED
    BY <1>3, <2>1, <2>2
<1> DEFINE g == [k \in 0 .. n |-> Taken(first + k * Day)]
           R(h) == [k \in 0 .. DaySpan(range) |->
                      IF k = 0 THEN 1
                      ELSE IF h[k - 1] <= Len(daily) /\ daily[h[k - 1]].day = DayAt(range, k)
                             THEN h[k - 1] + 1
                      ELSE h[k - 1]]
<1>6. \A k \in 1 .. n : DayAt(range, k) \in Int /\ IsMidnight(DayAt(range, k))
  BY <1>4, <1>5
<1>7. g[0] = 1
  <2>1. Below(Days(buckets), first) = {}
    BY <1>1 DEF Below
  <2>2. first + 0 * Day = first
    BY <1>3
  <2>3. Taken(first) = 1
    BY <2>1, FS_EmptySet DEF Taken
  <2>4. QED
    BY <2>2, <2>3
<1>8. ASSUME NEW k \in 1 .. n
      PROVE  g[k - 1] = Taken(DayAt(range, k)) /\ g[k] = Taken(DayAt(range, k) + Day)
  <2>1. k - 1 \in 0 .. n /\ k \in 0 .. n
    OBVIOUS
  <2>2. g[k - 1] = Taken(first + (k - 1) * Day) /\ g[k] = Taken(first + k * Day)
    BY <2>1
  <2> HIDE DEF g
  <2>3. QED
    BY <1>5, <2>2
<1>9. Fills(g, n, daily, range)
  <2>1. SUFFICES ASSUME NEW k \in 1 .. n
        PROVE  g[k] = IF g[k - 1] <= Len(daily) /\ daily[g[k - 1]].day = DayAt(range, k)
                      THEN g[k - 1] + 1 ELSE g[k - 1]
    BY <1>7 DEF Fills
  <2>2. PICK c \in Int : c = DayAt(range, k) /\ IsMidnight(c)
    BY <1>6
  <2>3. /\ c \in Days(buckets) <=> Taken(c) <= Len(daily) /\ daily[Taken(c)].day = c
        /\ Taken(c + Day) = IF c \in Days(buckets) THEN Taken(c) + 1 ELSE Taken(c)
    BY <2>2, TakenFacts
  <2>4. g[k - 1] = Taken(c) /\ g[k] = Taken(c + Day)
    BY <1>8, <2>2
  <2> HIDE DEF g
  <2>5. QED
    BY <2>2, <2>3, <2>4
<1>10. ASSUME NEW h PROVE h = R(h) => Fills(h, n, daily, range)
  <2>1. SUFFICES ASSUME h = R(h) PROVE Fills(h, n, daily, range)
    OBVIOUS
  <2>2. h[0] = R(h)[0] /\ \A k \in 1 .. n : h[k] = R(h)[k]
    BY <2>1
  <2>3. R(h)[0] = 1
    BY <1>2
  <2>4. \A k \in 1 .. n :
          R(h)[k] = IF h[k - 1] <= Len(daily) /\ daily[h[k - 1]].day = DayAt(range, k)
                    THEN h[k - 1] + 1 ELSE h[k - 1]
    BY <1>2
  <2> HIDE DEF R
  <2>5. QED
    BY <2>2, <2>3, <2>4 DEF Fills
<1>11. g = R(g)
  <2>1. \A k \in 0 .. n : g[k] = R(g)[k]
    <3>1. R(g)[0] = 1
      BY <1>2
    <3>2. \A k \in 1 .. n :
            R(g)[k] = IF g[k - 1] <= Len(daily) /\ daily[g[k - 1]].day = DayAt(range, k)
                      THEN g[k - 1] + 1 ELSE g[k - 1]
      BY <1>2
    <3> HIDE DEF R, g
    <3>3. QED
      BY <1>9, <3>1, <3>2 DEF Fills
  <2>2. g = [k \in 0 .. n |-> g[k]]
    OBVIOUS
  <2>3. R(g) = [k \in 0 .. n |-> R(g)[k]]
    BY <1>2
  <2> HIDE DEF R, g
  <2>4. QED
    BY <2>1, <2>2, <2>3
<1> HIDE DEF g
<1>12. PICK f : f = NextCount(daily, range)
  OBVIOUS
<1>13. f = R(f)
  BY <1>11, <1>12 DEF NextCount
<1> HIDE DEF R
<1>14. \A k \in 0 .. n : f[k] = g[k]
  BY <1>9, <1>10, <1>13, NextIsUnique
<1>15. ASSUME NEW k \in 1 .. n
       PROVE  f[k - 1] = Taken(DayAt(range, k)) /\ f[k] = Taken(DayAt(range, k) + Day)
  <2>1. k - 1 \in 0 .. n /\ k \in 0 .. n
    OBVIOUS
  <2>2. f[k - 1] = g[k - 1] /\ f[k] = g[k]
    BY <1>14, <2>1
  <2>3. QED
    BY <1>8, <2>2
<1>16. QED
  BY <1>2, <1>6, <1>12, <1>15

\* The chart has a day for every day of the range.
LEMMA SpanFacts ==
  ASSUME StatsAssumption, StatsType, NEW range,
         NEW first \in Int, first = Midnight(range[1]), IsMidnight(first),
         NEW last \in Int, last = Midnight(range[2]), IsMidnight(last), first <= last
  PROVE  /\ DaySpan(range) \in Nat
         /\ \A d \in Int : IsMidnight(d) /\ first <= d /\ d <= last =>
              \E k \in 1 .. DaySpan(range) : d = DayAt(range, k)
         /\ \A j, k \in 1 .. DaySpan(range) :
              j < k => DayAt(range, j) < DayAt(range, k)
<1>1. Day \in Nat \ {0}
  BY DEF StatsAssumption
<1>2. PICK n \in Nat : last = first + n * Day
  BY MidnightsApart
<1>3. DaySpan(range) = n + 1
  <2>1. n * Day \in Int /\ last - first = n * Day
    BY <1>1, <1>2
  <2>2. (n * Day) \div Day = n
    BY <1>1
  <2>3. Max({n, 0}) = n
    <3>1. n \in Int /\ 0 \in Int /\ n >= 0
      OBVIOUS
    <3>2. QED
      BY <3>1, MinMax
  <2>4. QED
    BY <2>1, <2>2, <2>3 DEF DaySpan
<1>4. ASSUME NEW d \in Int, IsMidnight(d), first <= d, d <= last
      PROVE  \E k \in 1 .. n + 1 : d = DayAt(range, k)
  <2>1. PICK m \in Nat : d = first + m * Day
    BY <1>4, MidnightsApart
  <2>2. m <= n
    <3>1. m * Day \in Int /\ n * Day \in Int /\ m * Day <= n * Day
      BY <1>1, <1>2, <1>4, <2>1
    <3>2. n < m => n * Day < m * Day
      <4>1. SUFFICES ASSUME n < m PROVE n * Day < m * Day
        OBVIOUS
      <4>2. m - n \in Nat \ {0} /\ n + (m - n) = m
        BY <4>1
      <4>3. (n + (m - n)) * Day = n * Day + (m - n) * Day /\ (m - n) * Day > 0
        BY <1>1, <4>2
      <4>4. (m - n) * Day \in Int
        BY <1>1
      <4>5. QED
        BY <3>1, <4>2, <4>3, <4>4
    <3>3. QED
      BY <3>1, <3>2
  <2>3. m + 1 \in 1 .. n + 1 /\ (m + 1) - 1 = m
    BY <2>2
  <2>4. DayAt(range, m + 1) = d
    BY <2>1, <2>3 DEF DayAt
  <2>5. QED
    BY <2>3, <2>4
<1>5. ASSUME NEW j \in 1 .. n + 1, NEW k \in 1 .. n + 1, j < k
      PROVE  DayAt(range, j) < DayAt(range, k)
  <2>1. PICK a \in Nat : a = j - 1
    OBVIOUS
  <2>2. PICK b \in Nat : b = k - 1 /\ a < b
    BY <1>5, <2>1
  <2>3. b - a \in Nat \ {0} /\ a + (b - a) = b
    BY <2>2
  <2>4. (a + (b - a)) * Day = a * Day + (b - a) * Day /\ (b - a) * Day > 0
    BY <1>1, <2>3
  <2>5. a * Day \in Int /\ b * Day \in Int /\ (b - a) * Day \in Int
    BY <1>1
  <2>6. a * Day < b * Day
    BY <2>3, <2>4, <2>5
  <2>7. DayAt(range, j) = first + a * Day /\ DayAt(range, k) = first + b * Day
    BY <2>1, <2>2 DEF DayAt
  <2>8. QED
    BY <2>5, <2>6, <2>7
<1>6. QED
  BY <1>3, <1>4, <1>5

\* What daily_requests shows of the rows of a query.
LEMMA ChartFacts ==
  ASSUME StatsAssumption, StatsType, Within(buckets),
         ~(/\ zone % Hour # 0
           /\ \E r \in buckets : HourOf(r) < Midnight(Validated(asked)[1])),
         NEW chart, chart = Chart
  PROVE  /\ \A r \in buckets : \E i \in DOMAIN chart : chart[i].day = DayOf(r)
         /\ \A i \in DOMAIN chart :
              chart[i].count = Rows(chart[i].day)
         /\ \A i, j \in DOMAIN chart : i < j => chart[i].day < chart[j].day
<1>1. PICK range : range = Validated(asked)
  OBVIOUS
<1>2. PICK daily : daily = AggregateDaily(buckets)
  OBVIOUS
<1>3. PICK first : first = Midnight(range[1])
  OBVIOUS
<1>4. PICK last : last = Midnight(range[2])
  OBVIOUS
<1>5. /\ first \in Int /\ last \in Int /\ IsMidnight(first) /\ IsMidnight(last) /\ first <= last
      /\ \A d \in Days(buckets) : d \in Int /\ IsMidnight(d) /\ first <= d /\ d <= last
  BY <1>1, <1>3, <1>4, DaysInRange
<1>6. /\ DaySpan(range) \in Nat
      /\ \A d \in Int : IsMidnight(d) /\ first <= d /\ d <= last =>
           \E k \in 1 .. DaySpan(range) : d = DayAt(range, k)
      /\ \A j, k \in 1 .. DaySpan(range) : j < k => DayAt(range, j) < DayAt(range, k)
  BY <1>3, <1>4, <1>5, SpanFacts
<1>7. /\ Days(buckets) \in SUBSET Int /\ IsFiniteSet(Days(buckets))
      /\ Cardinality(Days(buckets)) \in Nat
      /\ daily \in Seq([day : Int, count : Nat]) /\ Len(daily) = Cardinality(Days(buckets))
      /\ \A i \in 1 .. Len(daily) :
           /\ daily[i].day \in Days(buckets)
           /\ Cardinality(Below(Days(buckets), daily[i].day)) = i - 1
           /\ daily[i].count = Rows(daily[i].day)
  BY <1>2, DailyFacts
<1>8. CASE DaySpan(range) > MaxFilled
  <2>1. chart = daily /\ DOMAIN daily = 1 .. Len(daily) /\ Len(daily) \in Nat
    <3>1. chart = daily
      BY <1>1, <1>2, <1>8 DEF Chart, FillDailyRange
    <3>2. QED
      BY <1>7, <3>1
  <2>2. PICK S \in SUBSET Int : S = Days(buckets) /\ IsFiniteSet(S)
    BY <1>7
  <2>3. PICK n \in Nat : n = Len(daily)
    BY <2>1
  <2>4. PICK rank : rank = [d \in S |-> Cardinality(Below(S, d))]
    OBVIOUS
  <2>5. /\ \A d \in S : rank[d] \in 0 .. n - 1
        /\ \A c, d \in S : c < d => rank[c] < rank[d]
        /\ \A c, d \in S : rank[c] = rank[d] => c = d
    <3>1. Cardinality(S) = n
      BY <1>7, <2>2, <2>3
    <3>2. /\ \A d \in S : Cardinality(Below(S, d)) \in 0 .. Cardinality(S) - 1
          /\ \A c, d \in S : c < d => Cardinality(Below(S, c)) < Cardinality(Below(S, d))
          /\ \A c, d \in S : Cardinality(Below(S, c)) = Cardinality(Below(S, d)) => c = d
      BY <2>2, Ranks
    <3>3. \A d \in S : rank[d] = Cardinality(Below(S, d))
      BY <2>4
    <3>4. QED
      BY <3>1, <3>2, <3>3
  <2>6. \A i \in 1 .. n : daily[i].day \in S /\ rank[daily[i].day] = i - 1
    BY <1>7, <2>2, <2>3, <2>4
  <2>7. ASSUME NEW d \in S PROVE \E i \in 1 .. n : daily[i].day = d
    <3>1. PICK m \in 0 .. n - 1 : m = rank[d]
      BY <2>5
    <3>2. PICK i \in 1 .. n : i - 1 = m
      <4>1. m + 1 \in 1 .. n /\ (m + 1) - 1 = m
        OBVIOUS
      <4>2. QED
        BY <4>1
    <3>3. QED
      BY <2>5, <2>6, <3>1, <3>2
  <2>8. ASSUME NEW i \in 1 .. n, NEW j \in 1 .. n,
               i < j PROVE daily[i].day < daily[j].day
    <3>1. PICK c \in S : c = daily[i].day /\ rank[c] = i - 1
      BY <2>6
    <3>2. PICK d \in S : d = daily[j].day /\ rank[d] = j - 1
      BY <2>6
    <3>3. c \in Int /\ d \in Int
      BY <2>2
    <3>4. QED
      BY <2>5, <2>8, <3>1, <3>2, <3>3
  <2>9. \A r \in buckets : DayOf(r) \in S
    BY <2>2 DEF Days
  <2>10. \A i \in 1 .. n :
           daily[i].count = Rows(daily[i].day)
    BY <1>7, <2>3
  <2>11. QED
    BY <2>1, <2>3, <2>7, <2>8, <2>9, <2>10
<1>9. CASE ~(DaySpan(range) > MaxFilled)
  <2>1. PICK next : next = NextCount(daily, range)
    OBVIOUS
  <2>2. chart = [k \in 1 .. DaySpan(range) |->
                   [day   |-> DayAt(range, k),
                    count |-> IF next[k] > next[k - 1] THEN daily[next[k - 1]].count ELSE 0]]
    BY <1>1, <1>2, <1>9, <2>1 DEF Chart, FillDailyRange
  <2>3. \A k \in 1 .. DaySpan(range) :
          /\ DayAt(range, k) \in Int /\ IsMidnight(DayAt(range, k))
          /\ next[k - 1] = Taken(DayAt(range, k))
          /\ next[k] = Taken(DayAt(range, k) + Day)
    BY <1>2, <1>3, <1>5, <1>6, <2>1, NextFacts
  <2>4. DOMAIN chart = 1 .. DaySpan(range)
    BY <2>2
  <2>5. \A k \in 1 .. DaySpan(range) :
          /\ chart[k].day = DayAt(range, k)
          /\ chart[k].count = IF next[k] > next[k - 1] THEN daily[next[k - 1]].count ELSE 0
    BY <2>2
  <2>6. ASSUME NEW k \in 1 .. DaySpan(range)
        PROVE  chart[k].count = Rows(chart[k].day)
    <3>1. PICK c \in Int : c = DayAt(range, k) /\ IsMidnight(c)
      BY <2>3
    <3>2. PICK m \in Nat \ {0} :
            /\ m = Taken(c)
            /\ c \in Days(buckets) <=> m <= Len(daily) /\ daily[m].day = c
            /\ Taken(c + Day) = IF c \in Days(buckets) THEN m + 1 ELSE m
      BY <1>2, <1>5, <3>1, TakenFacts
    <3>3. chart[k].count = IF Taken(c + Day) > m THEN daily[m].count ELSE 0
      BY <2>3, <2>5, <3>1, <3>2
    <3>4. CASE c \in Days(buckets)
      <4>1. m \in 1 .. Len(daily) /\ daily[m].day = c
        BY <1>7, <3>2, <3>4
      <4>2. daily[m].count = Rows(c)
        BY <1>7, <4>1
      <4>3. Taken(c + Day) > m
        BY <3>2, <3>4
      <4>4. QED
        BY <2>5, <3>1, <3>3, <4>2, <4>3
    <3>5. CASE c \notin Days(buckets)
      <4>1. {r \in buckets : DayOf(r) = c} = {}
        BY <3>5 DEF Days
      <4>2. ~(Taken(c + Day) > m)
        BY <3>2, <3>5
      <4>3. QED
        BY <2>5, <3>1, <3>3, <4>1, <4>2, FS_EmptySet DEF Rows
    <3>6. QED
      BY <3>4, <3>5
  <2>7. ASSUME NEW r \in buckets
        PROVE  \E k \in 1 .. DaySpan(range) : chart[k].day = DayOf(r)
    <3>1. DayOf(r) \in Days(buckets)
      BY DEF Days
    <3>2. PICK k \in 1 .. DaySpan(range) : DayOf(r) = DayAt(range, k)
      BY <1>5, <1>6, <3>1
    <3>3. QED
      BY <2>5, <3>2
  <2>8. QED
    BY <1>6, <2>4, <2>5, <2>6, <2>7
<1>10. QED
  BY <1>8, <1>9

\* aggregate_daily and fill_daily_range: for every range, zone, log and cap on the
\* days the chart has every row at its day, or the bucket of a cut hour is lost.
THEOREM ChartIsComplete == StatsSpec => []ChartShowsAll
<1>1. StatsInv => ChartShowsAll
  <2>1. SUFFICES ASSUME StatsInv, phase = "answered" PROVE ChartShowsAll
    BY DEF ChartShowsAll
  <2>2. StatsType /\ Within(buckets)
    BY <2>1 DEF StatsInv, ScansFollow
  <2>3. PICK chart : chart = Chart
    OBVIOUS
  <2>4. CASE ~(/\ zone % Hour # 0
               /\ \E r \in buckets : HourOf(r) < Midnight(Validated(asked)[1]))
    <3>1. /\ \A r \in buckets : \E i \in DOMAIN chart : chart[i].day = DayOf(r)
          /\ \A i \in DOMAIN chart :
               chart[i].count = Rows(chart[i].day)
          /\ \A i, j \in DOMAIN chart : i < j => chart[i].day < chart[j].day
      BY StatsAssumption, <2>2, <2>3, <2>4, ChartFacts
    <3>2. ASSUME NEW i \in DOMAIN chart
          PROVE  chart[i].count = Cardinality({r \in buckets : DayOf(r) = chart[i].day})
      BY <3>1 DEF Rows
    <3>3. QED
      BY <2>3, <3>1, <3>2 DEF ChartShowsAll
  <2>5. QED
    BY <2>4 DEF ChartShowsAll
<1>2. QED
  BY <1>1, StatsInvariance, PTL
=============================================================================
