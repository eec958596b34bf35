-------------------------- MODULE LogPipelineProofs --------------------------
(***************************************************************************)
(* What holds of LogPipeline for every set of events and every channel,    *)
(* batch and retention setting.  Inv joins the shape of the state, the     *)
(* place of each event, the content of the open transaction, and the       *)
(* position of the shutdown message in the FIFO.                           *)
(***************************************************************************)
EXTENDS LogPipeline, TLAPS

\* What the transaction holds at each place of flush_events.
Transaction ==
  /\ wpc \in {"access", "proxy", "audit", "commit"} => txOpen
  /\ wpc = "access" => appended = {}
  /\ wpc = "proxy" => appended = buffer \cap Access
  /\ wpc = "audit" => appended = buffer \cap (Access \cup Proxy)
  /\ wpc = "commit" => appended = buffer

\* An event is queued once and has one place.
Placed == IsInjective(chan) /\ EachEventOnce

\* The signal: sent at most once, by a caller that keeps the senders alive;
\* events accepted before it are ahead of it in the FIFO, so that once the
\* worker has taken it they are all in the buffer or already written.
SignalOrder ==
  /\ spc \in {"live", "signal", "left"} => Shutdown \notin Range(chan) /\ ~shutdown
  /\ spc \in {"signal", "join", "joined", "left"} => senders = "live"
  /\ \A i, j \in DOMAIN chan : chan[i] = Shutdown /\ i < j => chan[j] \notin early
  /\ shutdown => Shutdown \notin Range(chan) /\ Queued \cap early = {}
  /\ early \cap (fresh \cup dropped) = {}

\* The worker leaves worker_loop only with an empty buffer, and only when it
\* has the signal or has lost its senders.
Leaving ==
  /\ wpc \in {"checkpoint", "exited"} => buffer = {}
  /\ wpc \in {"checkpoint", "exited"}
       \/ (wpc \in {"begin", "access", "proxy", "audit", "commit", "rollback"}
             /\ ret = "checkpoint")
     => shutdown \/ senders = "dropped"
  /\ wpc = "retention" => ret # "checkpoint"
  /\ spc = "joined" => wpc = "exited"

Inv == TypeOK /\ Transaction /\ Placed /\ SignalOrder /\ Leaving

-----------------------------------------------------------------------------
(* sequences *)

\* Appending adds one element to the range.
LEMMA AppendRange ==
  ASSUME NEW S, NEW s \in Seq(S), NEW e \in S
  PROVE  /\ Append(s, e) \in Seq(S)
         /\ Len(Append(s, e)) = Len(s) + 1
         /\ Range(Append(s, e)) = Range(s) \cup {e}
         /\ IsInjective(s) /\ e \notin Range(s) => IsInjective(Append(s, e))
<1>1. /\ Append(s, e) \in Seq(S)
      /\ Len(Append(s, e)) = Len(s) + 1
      /\ DOMAIN Append(s, e) = 1 .. Len(s) + 1
      /\ DOMAIN s = 1 .. Len(s)
      /\ \A i \in 1 .. Len(s) : Append(s, e)[i] = s[i]
      /\ Append(s, e)[Len(s) + 1] = e
      /\ Len(s) \in Nat
  OBVIOUS
<1>2. Range(Append(s, e)) = Range(s) \cup {e}
  BY <1>1 DEF Range
<1>3. IsInjective(s) /\ e \notin Range(s) => IsInjective(Append(s, e))
  BY <1>1 DEF Range, IsInjective
<1>4. QED
  BY <1>1, <1>2, <1>3

\* Taking the head removes one element from the range of a sequence without
\* duplicates.
LEMMA TailRange ==
  ASSUME NEW S, NEW s \in Seq(S), s # <<>>, IsInjective(s)
  PROVE  /\ Tail(s) \in Seq(S)
         /\ Len(Tail(s)) = Len(s) - 1
         /\ Head(s) \in S
         /\ Head(s) \in Range(s)
         /\ Range(Tail(s)) = Range(s) \ {Head(s)}
         /\ IsInjective(Tail(s))
<1>1. /\ Tail(s) \in Seq(S)
      /\ Len(s) \in Nat \ {0}
      /\ Len(Tail(s)) = Len(s) - 1
      /\ DOMAIN Tail(s) = 1 .. Len(s) - 1
      /\ DOMAIN s = 1 .. Len(s)
      /\ \A i \in 1 .. Len(s) - 1 : Tail(s)[i] = s[i + 1]
      /\ Head(s) = s[1]
  OBVIOUS
<1>2. Head(s) \in S /\ Head(s) \in Range(s)
  BY <1>1 DEF Range
<1>3. Range(Tail(s)) = Range(s) \ {Head(s)}
  <2>1. ASSUME NEW x \in Range(s) \ {Head(s)} PROVE x \in Range(Tail(s))
    <3>1. PICK i \in 1 .. Len(s) : s[i] = x
      BY <1>1, <2>1 DEF Range
    <3>2. i # 1
      BY <1>1, <2>1, <3>1
    <3>3. i - 1 \in 1 .. Len(s) - 1 /\ Tail(s)[i - 1] = x
      BY <1>1, <3>1, <3>2
    <3>4. QED
      BY <1>1, <3>3 DEF Range
  <2>2. ASSUME NEW x \in Range(Tail(s)) PROVE x \in Range(s) \ {Head(s)}
    <3>1. PICK i \in 1 .. Len(s) - 1 : s[i + 1] = x
      BY <1>1, <2>2 DEF Range
    <3>2. i + 1 \in DOMAIN s /\ 1 \in DOMAIN s /\ i + 1 # 1
      BY <1>1
    <3>3. s[i + 1] # s[1]
      BY <3>2 DEF IsInjective
    <3>4. QED
      BY <1>1, <3>1, <3>2, <3>3 DEF Range
  <2>3. QED
    BY <2>1, <2>2
<1>4. IsInjective(Tail(s))
  BY <1>1 DEF IsInjective
<1>5. QED
  BY <1>1, <1>2, <1>3, <1>4

\* What a caller's send does to the channel.
LEMMA SendFacts ==
  ASSUME TypeOK, IsInjective(chan), NEW m \in Events \cup {Shutdown}, m \notin Range(chan),
         Len(chan) < ChannelCap, chan' = Append(chan, m)
  PROVE  /\ chan' \in Seq(Events \cup {Shutdown}) /\ Len(chan') <= ChannelCap
         /\ Range(chan') = Range(chan) \cup {m}
         /\ IsInjective(chan')
         /\ \A i \in DOMAIN chan' : \/ i \in DOMAIN chan /\ chan'[i] = chan[i]
                                    \/ i = Len(chan) + 1 /\ chan'[i] = m
<1>1. /\ chan' \in Seq(Events \cup {Shutdown})
      /\ Len(chan') = Len(chan) + 1
      /\ Range(chan') = Range(chan) \cup {m}
      /\ IsInjective(chan')
  BY AppendRange DEF TypeOK
<1>2. Len(chan') <= ChannelCap
  BY <1>1, LogAssumption DEF TypeOK
<1>3. \A i \in DOMAIN chan' : \/ i \in DOMAIN chan /\ chan'[i] = chan[i]
                              \/ i = Len(chan) + 1 /\ chan'[i] = m
  BY DEF TypeOK
<1>4. QED
  BY <1>1, <1>2, <1>3

\* What the worker's receive does to the channel.
LEMMA TakeFacts ==
  ASSUME TypeOK, IsInjective(chan), Take
  PROVE  /\ chan' \in Seq(Events \cup {Shutdown}) /\ Len(chan') <= ChannelCap
         /\ Head(chan) \in Events \cup {Shutdown}
         /\ Head(chan) \in Range(chan)
         /\ Range(chan') = Range(chan) \ {Head(chan)}
         /\ IsInjective(chan')
         /\ 1 \in DOMAIN chan /\ Head(chan) = chan[1]
         /\ \A i \in DOMAIN chan' : i + 1 \in DOMAIN chan /\ 1 < i + 1 /\ chan'[i] = chan[i + 1]
<1>1. /\ chan' \in Seq(Events \cup {Shutdown})
      /\ Len(chan') = Len(chan) - 1
      /\ Head(chan) \in Events \cup {Shutdown}
      /\ Head(chan) \in Range(chan)
      /\ Range(chan') = Range(chan) \ {Head(chan)}
      /\ IsInjective(chan')
  BY TailRange DEF TypeOK, Take
<1>2. Len(chan') <= ChannelCap
  BY <1>1, LogAssumption DEF TypeOK
<1>3. /\ 1 \in DOMAIN chan /\ Head(chan) = chan[1]
      /\ \A i \in DOMAIN chan' : i + 1 \in DOMAIN chan /\ 1 < i + 1 /\ chan'[i] = chan[i + 1]
  BY DEF TypeOK, Take
<1>4. QED
  BY <1>1, <1>2, <1>3

-----------------------------------------------------------------------------
(* Inv is inductive *)

\* The initial state satisfies the invariant.
LEMMA InitInv == Init => Inv
<1> SUFFICES ASSUME Init PROVE Inv
  OBVIOUS
<1>1. chan \in Seq(Events \cup {Shutdown}) /\ Len(chan) = 0 /\ DOMAIN chan = {} /\ Range(chan) = {}
  BY DEF Init, Range
<1>2. TypeOK
  <2>1. Len(chan) <= ChannelCap
    BY <1>1, LogAssumption
  <2>2. wpc \in WorkerPlaces /\ spc \in CallerPlaces
    BY DEF Init, WorkerPlaces, CallerPlaces
  <2>3. QED
    BY <1>1, <2>1, <2>2 DEF Init, TypeOK
<1>3. Placed
  BY <1>1, LogAssumption DEF Init, Placed, IsInjective, EachEventOnce, Queued
<1>4. Transaction /\ SignalOrder /\ Leaving
  BY <1>1 DEF Init, Transaction, SignalOrder, Leaving, Queued
<1>5. QED
  BY <1>2, <1>3, <1>4 DEF Inv

\* Every step keeps the types and the bound of the channel.
LEMMA TypeStep ==
  ASSUME Inv, [Next]_vars
  PROVE  TypeOK'
<1> USE Inv, LogAssumption
  DEF Inv, Placed, TypeOK, WorkerPlaces, CallerPlaces, worker, db, callers
<1>1. ASSUME NEW e \in Events, LogAccepted(e) PROVE TypeOK'
  <2>1. e \notin Range(chan) /\ e # Shutdown
    BY <1>1 DEF LogAccepted, EachEventOnce, Queued
  <2>2. QED
    BY <1>1, <2>1, SendFacts DEF LogAccepted
<1>2. ASSUME NEW e \in Events, LogDropped(e) PROVE TypeOK'
  BY <1>2 DEF LogDropped
<1>3. ASSUME Signal PROVE TypeOK'
  <2>1. Shutdown \notin Range(chan)
    BY <1>3 DEF Signal, SignalOrder
  <2>2. QED
    BY <1>3, <2>1, SendFacts DEF Signal
<1>4. ASSUME Recv \/ DrainOne PROVE TypeOK'
  BY <1>4, TakeFacts DEF Recv, DrainOne, Take, WGoto
<1>5. ASSUME CallShutdown PROVE TypeOK'
  BY <1>5 DEF CallShutdown
<1>6. ASSUME SignalTimesOut PROVE TypeOK'
  BY <1>6 DEF SignalTimesOut
<1>7. ASSUME Join PROVE TypeOK'
  BY <1>7 DEF Join
<1>8. ASSUME ProcessEnds PROVE TypeOK'
  BY <1>8 DEF ProcessEnds
<1>9. ASSUME DropManagers PROVE TypeOK'
  BY <1>9 DEF DropManagers
<1>10. ASSUME RecvTimeout PROVE TypeOK'
  BY <1>10 DEF RecvTimeout, WGoto
<1>11. ASSUME RecvDisconnected PROVE TypeOK'
  BY <1>11 DEF RecvDisconnected, WGoto
<1>12. ASSUME DrainEnds PROVE TypeOK'
  BY <1>12 DEF DrainEnds, WGoto
<1>13. ASSUME CheckBatch PROVE TypeOK'
  BY <1>13 DEF CheckBatch, WGoto
<1>14. ASSUME LoopOrExit PROVE TypeOK'
  BY <1>14 DEF LoopOrExit, WGoto
<1>15. ASSUME Exit PROVE TypeOK'
  BY <1>15 DEF Exit, WGoto
<1>16. ASSUME Begin PROVE TypeOK'
  BY <1>16 DEF Begin, WGoto
<1>17. ASSUME BeginFails PROVE TypeOK'
  BY <1>17 DEF BeginFails, GiveUpBatch, WGoto
<1>18. ASSUME AppendFails PROVE TypeOK'
  BY <1>18 DEF AppendFails, Tables, WGoto
<1>19. ASSUME Commit PROVE TypeOK'
  <2>1. wpc' \in WorkerPlaces
    BY <1>19 DEF Commit, WGoto
  <2>2. flushCount' \in Nat
    BY <1>19 DEF Commit, Flushed
  <2>3. QED
    BY <1>19, <2>1, <2>2 DEF Commit
<1>20. ASSUME CommitFails PROVE TypeOK'
  BY <1>20 DEF CommitFails, GiveUpBatch, WGoto
<1>21. ASSUME Rollback PROVE TypeOK'
  BY <1>21 DEF Rollback, GiveUpBatch, WGoto
<1>22. ASSUME Retention PROVE TypeOK'
  BY <1>22 DEF Retention, Delete, WGoto
<1>23. ASSUME \/ AppendTo("access", Access, "proxy")
           \/ AppendTo("proxy", Proxy, "audit")
           \/ AppendTo("audit", Audit, "commit")
      PROVE TypeOK'
  BY <1>23 DEF AppendTo, WGoto
<1>24. ASSUME NEW r \in Events \cup OldRows, Ages(r) PROVE TypeOK'
  BY <1>24 DEF Ages
<1>25. CASE UNCHANGED vars
  BY <1>25 DEF vars
<1>26. QED
  BY <1>1, <1>2, <1>3, <1>4, <1>5, <1>6, <1>7, <1>8, <1>9, <1>10, <1>11,
     <1>12, <1>13, <1>14, <1>15, <1>16, <1>17, <1>18, <1>19, <1>20, <1>21,
     <1>22, <1>23, <1>24, <1>25 DEF Next, ShutdownStep, WorkerStep

\* Every step keeps the content of the transaction.
LEMMA TransactionStep ==
  ASSUME Inv, [Next]_vars
  PROVE  Transaction'
<1> USE Inv, LogAssumption
  DEF Inv, TypeOK, Placed, Transaction, Events, worker, db, callers
<1>1. ASSUME NEW e \in Events, LogAccepted(e) PROVE Transaction'
  <2>1. e \notin Range(chan) /\ e # Shutdown
    BY <1>1 DEF LogAccepted, EachEventOnce, Queued
  <2>2. QED
    BY <1>1, <2>1, SendFacts DEF LogAccepted
<1>2. ASSUME NEW e \in Events, LogDropped(e) PROVE Transaction'
  BY <1>2 DEF LogDropped
<1>3. ASSUME Signal PROVE Transaction'
  <2>1. Shutdown \notin Range(chan)
    BY <1>3 DEF Signal, SignalOrder
  <2>2. QED
    BY <1>3, <2>1, SendFacts DEF Signal
<1>4. ASSUME Recv \/ DrainOne PROVE Transaction'
  BY <1>4, TakeFacts DEF Recv, DrainOne, Take, WGoto
<1>5. ASSUME CallShutdown PROVE Transaction'
  BY <1>5 DEF CallShutdown
<1>6. ASSUME SignalTimesOut PROVE Transaction'
  BY <1>6 DEF SignalTimesOut
<1>7. ASSUME Join PROVE Transaction'
  BY <1>7 DEF Join
<1>8. ASSUME ProcessEnds PROVE Transaction'
  BY <1>8 DEF ProcessEnds
<1>9. ASSUME DropManagers PROVE Transaction'
  BY <1>9 DEF DropManagers
<1>10. ASSUME RecvTimeout PROVE Transaction'
  BY <1>10 DEF RecvTimeout, WGoto
<1>11. ASSUME RecvDisconnected PROVE Transaction'
  BY <1>11 DEF RecvDisconnected, WGoto
<1>12. ASSUME DrainEnds PROVE Transaction'
  BY <1>12 DEF DrainEnds, WGoto
<1>13. ASSUME CheckBatch PROVE Transaction'
  BY <1>13 DEF CheckBatch, WGoto
<1>14. ASSUME LoopOrExit PROVE Transaction'
  BY <1>14 DEF LoopOrExit, WGoto
<1>15. ASSUME Exit PROVE Transaction'
  BY <1>15 DEF Exit, WGoto
<1>16. ASSUME Begin PROVE Transaction'
  BY <1>16 DEF Begin, WGoto
<1>17. ASSUME BeginFails PROVE Transaction'
  BY <1>17 DEF BeginFails, GiveUpBatch, WGoto
<1>18. ASSUME AppendFails PROVE Transaction'
  BY <1>18 DEF AppendFails, Tables, WGoto
<1>19. ASSUME Commit PROVE Transaction'
  BY <1>19 DEF Commit, Flushed, WGoto
<1>20. ASSUME CommitFails PROVE Transaction'
  BY <1>20 DEF CommitFails, GiveUpBatch, WGoto
<1>21. ASSUME Rollback PROVE Transaction'
  BY <1>21 DEF Rollback, GiveUpBatch, WGoto
<1>22. ASSUME Retention PROVE Transaction'
  BY <1>22 DEF Retention, Delete, WGoto
<1>23. ASSUME \/ AppendTo("access", Access, "proxy")
           \/ AppendTo("proxy", Proxy, "audit")
           \/ AppendTo("audit", Audit, "commit")
      PROVE Transaction'
  BY <1>23 DEF AppendTo, WGoto
<1>24. ASSUME NEW r \in Events \cup OldRows, Ages(r) PROVE Transaction'
  BY <1>24 DEF Ages
<1>25. CASE UNCHANGED vars
  BY <1>25 DEF vars
<1>26. QED
  BY <1>1, <1>2, <1>3, <1>4, <1>5, <1>6, <1>7, <1>8, <1>9, <1>10, <1>11,
     <1>12, <1>13, <1>14, <1>15, <1>16, <1>17, <1>18, <1>19, <1>20, <1>21,
     <1>22, <1>23, <1>24, <1>25 DEF Next, ShutdownStep, WorkerStep

\* Every step moves an event from one place to one other.
LEMMA PlacedStep ==
  ASSUME Inv, [Next]_vars
  PROVE  Placed'
<1> USE Inv, LogAssumption
  DEF Inv, TypeOK, Transaction, Placed, EachEventOnce, Queued, worker, db,
   callers
<1>1. ASSUME NEW e \in Events, LogAccepted(e) PROVE Placed'
  <2>1. e \notin Range(chan) /\ e # Shutdown
    BY <1>1 DEF LogAccepted
  <2>2. QED
    BY <1>1, <2>1, SendFacts DEF LogAccepted
<1>2. ASSUME NEW e \in Events, LogDropped(e) PROVE Placed'
  BY <1>2 DEF LogDropped
<1>3. ASSUME Signal PROVE Placed'
  <2>1. Shutdown \notin Range(chan)
    BY <1>3 DEF Signal, SignalOrder
  <2>2. QED
    BY <1>3, <2>1, SendFacts DEF Signal
<1>4. ASSUME Recv \/ DrainOne PROVE Placed'
  <2>1. Take /\ UNCHANGED <<fresh, dropped, failed, table, expired, aged>>
    BY <1>4 DEF Recv, DrainOne
  <2>2. /\ IsInjective(chan')
        /\ Head(chan) \in Range(chan) /\ Head(chan) \in Events \cup {Shutdown}
        /\ Range(chan') = Range(chan) \ {Head(chan)}
    BY <2>1, TakeFacts
  <2>3. EachEventOnce
    OBVIOUS
  <2>4. CASE Head(chan) = Shutdown
    <3>1. Queued' = Queued /\ buffer' = buffer
      BY <2>1, <2>2, <2>4 DEF Take
    <3>2. QED
      BY <2>1, <2>2, <2>3, <3>1
  <2>5. CASE Head(chan) # Shutdown
    <3>1. /\ Head(chan) \in Queued /\ Queued' = Queued \ {Head(chan)}
          /\ buffer' = buffer \cup {Head(chan)}
      BY <2>1, <2>2, <2>5 DEF Take
    <3>2. QED
      BY <2>1, <2>2, <2>3, <3>1
  <2>6. QED
    BY <2>4, <2>5
<1>5. ASSUME CallShutdown PROVE Placed'
  BY <1>5 DEF CallShutdown
<1>6. ASSUME SignalTimesOut PROVE Placed'
  BY <1>6 DEF SignalTimesOut
<1>7. ASSUME Join PROVE Placed'
  BY <1>7 DEF Join
<1>8. ASSUME ProcessEnds PROVE Placed'
  BY <1>8 DEF ProcessEnds
<1>9. ASSUME DropManagers PROVE Placed'
  BY <1>9 DEF DropManagers
<1>10. ASSUME RecvTimeout PROVE Placed'
  BY <1>10 DEF RecvTimeout, WGoto
<1>11. ASSUME RecvDisconnected PROVE Placed'
  BY <1>11 DEF RecvDisconnected, WGoto
<1>12. ASSUME DrainEnds PROVE Placed'
  BY <1>12 DEF DrainEnds, WGoto
<1>13. ASSUME CheckBatch PROVE Placed'
  BY <1>13 DEF CheckBatch, WGoto
<1>14. ASSUME LoopOrExit PROVE Placed'
  BY <1>14 DEF LoopOrExit, WGoto
<1>15. ASSUME Exit PROVE Placed'
  BY <1>15 DEF Exit, WGoto
<1>16. ASSUME Begin PROVE Placed'
  BY <1>16 DEF Begin, WGoto
<1>17. ASSUME BeginFails PROVE Placed'
  BY <1>17 DEF BeginFails, GiveUpBatch, WGoto
<1>18. ASSUME AppendFails PROVE Placed'
  BY <1>18 DEF AppendFails, Tables, WGoto
<1>19. ASSUME Commit PROVE Placed'
  BY <1>19 DEF Commit, Flushed, WGoto
<1>20. ASSUME CommitFails PROVE Placed'
  BY <1>20 DEF CommitFails, GiveUpBatch, WGoto
<1>21. ASSUME Rollback PROVE Placed'
  BY <1>21 DEF Rollback, GiveUpBatch, WGoto
<1>22. ASSUME Retention PROVE Placed'
  BY <1>22 DEF Retention, Delete, WGoto
<1>23. ASSUME \/ AppendTo("access", Access, "proxy")
           \/ AppendTo("proxy", Proxy, "audit")
           \/ AppendTo("audit", Audit, "commit")
      PROVE Placed'
  BY <1>23 DEF AppendTo, WGoto
<1>24. ASSUME NEW r \in Events \cup OldRows, Ages(r) PROVE Placed'
  BY <1>24 DEF Ages
<1>25. CASE UNCHANGED vars
  BY <1>25 DEF vars
<1>26. QED
  BY <1>1, <1>2, <1>3, <1>4, <1>5, <1>6, <1>7, <1>8, <1>9, <1>10, <1>11,
     <1>12, <1>13, <1>14, <1>15, <1>16, <1>17, <1>18, <1>19, <1>20, <1>21,
     <1>22, <1>23, <1>24, <1>25 DEF Next, ShutdownStep, WorkerStep

\* Every step keeps the order of the signal and the events before it.
LEMMA SignalStep ==
  ASSUME Inv, [Next]_vars
  PROVE  SignalOrder'
<1> USE Inv, LogAssumption
  DEF Inv, TypeOK, Placed, SignalOrder, EachEventOnce, Queued, Range, worker,
   db, callers
<1>1. ASSUME NEW e \in Events, LogAccepted(e) PROVE SignalOrder'
  <2>1. e \notin Range(chan) /\ e # Shutdown
    BY <1>1 DEF LogAccepted
  <2>2. QED
    BY <1>1, <2>1, SendFacts DEF LogAccepted
<1>2. ASSUME NEW e \in Events, LogDropped(e) PROVE SignalOrder'
  BY <1>2 DEF LogDropped
<1>3. ASSUME Signal PROVE SignalOrder'
  <2>1. Shutdown \notin Range(chan)
    BY <1>3 DEF Signal
  <2>2. QED
    BY <1>3, <2>1, SendFacts DEF Signal
<1>4. ASSUME Recv \/ DrainOne PROVE SignalOrder'
  <2>1. Take /\ UNCHANGED <<senders, spc, fresh, dropped, early>>
    BY <1>4 DEF Recv, DrainOne
  <2>2. /\ Head(chan) \in Range(chan)
        /\ Range(chan') = Range(chan) \ {Head(chan)}
        /\ 1 \in DOMAIN chan /\ Head(chan) = chan[1]
        /\ \A i \in DOMAIN chan' : i + 1 \in DOMAIN chan /\ 1 < i + 1 /\ chan'[i] = chan[i + 1]
    BY <2>1, TakeFacts
  <2>3. \A i, j \in DOMAIN chan' : chan'[i] = Shutdown /\ i < j => chan'[j] \notin early'
    <3>1. \A i \in DOMAIN chan' : i \in Int
      BY <2>1, TakeFacts
    <3>2. QED
      BY <2>1, <2>2, <3>1
  <2>4. shutdown' => Shutdown \notin Range(chan') /\ Queued' \cap early' = {}
    <3>1. CASE Head(chan) = Shutdown
      <4>1. \A i \in DOMAIN chan' : chan'[i] \notin early
        BY <2>2, <3>1
      <4>2. QED
        BY <2>1, <2>2, <3>1, <4>1
    <3>2. CASE Head(chan) # Shutdown
      BY <2>1, <2>2, <3>2 DEF Take
    <3>3. QED
      BY <3>1, <3>2
  <2>5. QED
    BY <2>1, <2>2, <2>3, <2>4 DEF Take
<1>5. ASSUME CallShutdown PROVE SignalOrder'
  BY <1>5 DEF CallShutdown
<1>6. ASSUME SignalTimesOut PROVE SignalOrder'
  BY <1>6 DEF SignalTimesOut
<1>7. ASSUME Join PROVE SignalOrder'
  BY <1>7 DEF Join
<1>8. ASSUME ProcessEnds PROVE SignalOrder'
  BY <1>8 DEF ProcessEnds
<1>9. ASSUME DropManagers PROVE SignalOrder'
  BY <1>9 DEF DropManagers
<1>10. ASSUME RecvTimeout PROVE SignalOrder'
  BY <1>10 DEF RecvTimeout, WGoto
<1>11. ASSUME RecvDisconnected PROVE SignalOrder'
  BY <1>11 DEF RecvDisconnected, WGoto
<1>12. ASSUME DrainEnds PROVE SignalOrder'
  BY <1>12 DEF DrainEnds, WGoto
<1>13. ASSUME CheckBatch PROVE SignalOrder'
  BY <1>13 DEF CheckBatch, WGoto
<1>14. ASSUME LoopOrExit PROVE SignalOrder'
  BY <1>14 DEF LoopOrExit, WGoto
<1>15. ASSUME Exit PROVE SignalOrder'
  BY <1>15 DEF Exit, WGoto
<1>16. ASSUME Begin PROVE SignalOrder'
  BY <1>16 DEF Begin, WGoto
<1>17. ASSUME BeginFails PROVE SignalOrder'
  BY <1>17 DEF BeginFails, GiveUpBatch, WGoto
<1>18. ASSUME AppendFails PROVE SignalOrder'
  BY <1>18 DEF AppendFails, Tables, WGoto
<1>19. ASSUME Commit PROVE SignalOrder'
  BY <1>19 DEF Commit, Flushed, WGoto
<1>20. ASSUME CommitFails PROVE SignalOrder'
  BY <1>20 DEF CommitFails, GiveUpBatch, WGoto
<1>21. ASSUME Rollback PROVE SignalOrder'
  BY <1>21 DEF Rollback, GiveUpBatch, WGoto
<1>22. ASSUME Retention PROVE SignalOrder'
  BY <1>22 DEF Retention, Delete, WGoto
<1>23. ASSUME \/ AppendTo("access", Access, "proxy")
           \/ AppendTo("proxy", Proxy, "audit")
           \/ AppendTo("audit", Audit, "commit")
      PROVE SignalOrder'
  BY <1>23 DEF AppendTo, WGoto
<1>24. ASSUME NEW r \in Events \cup OldRows, Ages(r) PROVE SignalOrder'
  BY <1>24 DEF Ages
<1>25. CASE UNCHANGED vars
  BY <1>25 DEF vars
<1>26. QED
  BY <1>1, <1>2, <1>3, <1>4, <1>5, <1>6, <1>7, <1>8, <1>9, <1>10, <1>11,
     <1>12, <1>13, <1>14, <1>15, <1>16, <1>17, <1>18, <1>19, <1>20, <1>21,
     <1>22, <1>23, <1>24, <1>25 DEF Next, ShutdownStep, WorkerStep

\* Every step keeps the reasons for which the worker leaves its loop.
LEMMA LeavingStep ==
  ASSUME Inv, [Next]_vars
  PROVE  Leaving'
<1> USE Inv, LogAssumption
  DEF Inv, TypeOK, Placed, Leaving, SignalOrder, CallerPlaces, worker, db,
   callers
<1>1. ASSUME NEW e \in Events, LogAccepted(e) PROVE Leaving'
  <2>1. e \notin Range(chan) /\ e # Shutdown
    BY <1>1 DEF LogAccepted, EachEventOnce, Queued
  <2>2. QED
    BY <1>1, <2>1, SendFacts DEF LogAccepted
<1>2. ASSUME NEW e \in Events, LogDropped(e) PROVE Leaving'
  BY <1>2 DEF LogDropped
<1>3. ASSUME Signal PROVE Leaving'
  <2>1. Shutdown \notin Range(chan)
    BY <1>3 DEF Signal
  <2>2. QED
    BY <1>3, <2>1, SendFacts DEF Signal
<1>4. ASSUME Recv \/ DrainOne PROVE Leaving'
  BY <1>4, TakeFacts DEF Recv, DrainOne, Take, WGoto
<1>5. ASSUME CallShutdown PROVE Leaving'
  BY <1>5 DEF CallShutdown
<1>6. ASSUME SignalTimesOut PROVE Leaving'
  BY <1>6 DEF SignalTimesOut
<1>7. ASSUME Join PROVE Leaving'
  BY <1>7 DEF Join
<1>8. ASSUME ProcessEnds PROVE Leaving'
  BY <1>8 DEF ProcessEnds
<1>9. ASSUME DropManagers PROVE Leaving'
  BY <1>9 DEF DropManagers
<1>10. ASSUME RecvTimeout PROVE Leaving'
  BY <1>10 DEF RecvTimeout, WGoto
<1>11. ASSUME RecvDisconnected PROVE Leaving'
  BY <1>11 DEF RecvDisconnected, WGoto
<1>12. ASSUME DrainEnds PROVE Leaving'
  BY <1>12 DEF DrainEnds, WGoto
<1>13. ASSUME CheckBatch PROVE Leaving'
  BY <1>13 DEF CheckBatch, WGoto
<1>14. ASSUME LoopOrExit PROVE Leaving'
  BY <1>14 DEF LoopOrExit, WGoto
<1>15. ASSUME Exit PROVE Leaving'
  BY <1>15 DEF Exit, WGoto
<1>16. ASSUME Begin PROVE Leaving'
  BY <1>16 DEF Begin, WGoto
<1>17. ASSUME BeginFails PROVE Leaving'
  BY <1>17 DEF BeginFails, GiveUpBatch, WGoto
<1>18. ASSUME AppendFails PROVE Leaving'
  BY <1>18 DEF AppendFails, Tables, WGoto
<1>19. ASSUME Commit PROVE Leaving'
  BY <1>19 DEF Commit, Flushed, WGoto
<1>20. ASSUME CommitFails PROVE Leaving'
  BY <1>20 DEF CommitFails, GiveUpBatch, WGoto
<1>21. ASSUME Rollback PROVE Leaving'
  BY <1>21 DEF Rollback, GiveUpBatch, WGoto
<1>22. ASSUME Retention PROVE Leaving'
  BY <1>22 DEF Retention, Delete, WGoto
<1>23. ASSUME \/ AppendTo("access", Access, "proxy")
           \/ AppendTo("proxy", Proxy, "audit")
           \/ AppendTo("audit", Audit, "commit")
      PROVE Leaving'
  BY <1>23 DEF AppendTo, WGoto
<1>24. ASSUME NEW r \in Events \cup OldRows, Ages(r) PROVE Leaving'
  BY <1>24 DEF Ages
<1>25. CASE UNCHANGED vars
  BY <1>25 DEF vars
<1>26. QED
  BY <1>1, <1>2, <1>3, <1>4, <1>5, <1>6, <1>7, <1>8, <1>9, <1>10, <1>11,
     <1>12, <1>13, <1>14, <1>15, <1>16, <1>17, <1>18, <1>19, <1>20, <1>21,
     <1>22, <1>23, <1>24, <1>25 DEF Next, ShutdownStep, WorkerStep

\* Inv is an invariant.
THEOREM Invariance == Spec => []Inv
<1>1. ASSUME Inv, [Next]_vars PROVE Inv'
  BY <1>1, TypeStep, TransactionStep, PlacedStep, SignalStep, LeavingStep DEF Inv
<1>2. QED
  BY InitInv, <1>1, PTL DEF Spec

\* Type correctness, the channel's bound included.
THEOREM TypeCorrect == Spec => []TypeOK
<1>1. Inv => TypeOK
  BY DEF Inv
<1>2. QED
  BY Invariance, <1>1, PTL

\* No event is duplicated and none vanishes.
THEOREM EventsAreConserved == Spec => []EachEventOnce
<1>1. Inv => EachEventOnce
  BY DEF Inv, Placed
<1>2. QED
  BY Invariance, <1>1, PTL

\* shutdown() returns from join only when everything accepted before its
\* signal has reached the tables or was in a failed batch.
THEOREM ShutdownIsClean == Spec => []ShutdownFlushes
<1>1. ASSUME Inv PROVE ShutdownFlushes
  <2> SUFFICES ASSUME spc = "joined" PROVE early \subseteq table \cup failed \cup expired
    BY DEF ShutdownFlushes
  <2>1. wpc = "exited" /\ senders = "live"
    BY <1>1 DEF Inv, Leaving, SignalOrder
  <2>2. buffer = {} /\ shutdown
    BY <1>1, <2>1 DEF Inv, Leaving
  <2>3. Queued \cap early = {} /\ early \cap (fresh \cup dropped) = {}
    BY <1>1, <2>2 DEF Inv, SignalOrder
  <2>4. early \subseteq fresh \cup Queued \cup buffer \cup dropped \cup failed \cup table
                       \cup expired
    BY <1>1 DEF Inv, TypeOK, Placed, EachEventOnce
  <2>5. QED
    BY <2>2, <2>3, <2>4
<1>2. QED
  BY Invariance, <1>1, PTL

\* Batches are all or nothing, whichever statement fails.
THEOREM BatchesAreWhole == Spec => WholeBatches
<1> DEFINE stores == table' = table \cup buffer /\ failed' = failed
           givesUp == table' = table /\ failed' = failed \cup buffer
           Whole ==
             /\ ~(buffer \subseteq buffer') => stores \/ givesUp
             /\ ~(table' \subseteq table) => stores
             /\ failed' # failed => givesUp
<1>1. ASSUME Inv, Next PROVE Whole
  <2>1. ASSUME NEW e \in Events, LogAccepted(e) \/ LogDropped(e) PROVE Whole
    BY <2>1 DEF LogAccepted, LogDropped, worker, db
  <2>2. ASSUME \/ CallShutdown \/ ShutdownStep \/ ProcessEnds \/ DropManagers
               \/ \E r \in Events \cup OldRows : Ages(r)
        PROVE Whole
    BY <2>2 DEF Ages, CallShutdown, ShutdownStep, Signal, SignalTimesOut, Join, ProcessEnds,
                DropManagers, worker, db
  <2>3. CASE Commit
    BY <1>1, <2>3 DEF Commit, Inv, TypeOK, Transaction
  <2>4. CASE Retention
    BY <2>4 DEF Retention, Delete
  <2>5. CASE BeginFails \/ CommitFails \/ Rollback
    BY <2>5 DEF BeginFails, CommitFails, Rollback, GiveUpBatch
  <2>6. CASE \/ Recv \/ RecvTimeout \/ RecvDisconnected \/ DrainOne \/ DrainEnds
             \/ CheckBatch \/ LoopOrExit \/ Exit \/ Begin \/ AppendFails
             \/ AppendTo("access", Access, "proxy")
             \/ AppendTo("proxy", Proxy, "audit")
             \/ AppendTo("audit", Audit, "commit")
    BY <2>6 DEF Recv, RecvTimeout, RecvDisconnected, DrainOne, DrainEnds, CheckBatch,
                LoopOrExit, Exit, Begin, AppendFails, AppendTo, Take, db
  <2>7. QED
    BY <1>1, <2>1, <2>2, <2>3, <2>4, <2>5, <2>6 DEF Next, WorkerStep
<1>2. ASSUME Inv, [Next]_vars PROVE [Whole]_vars
  BY <1>1, <1>2
<1>3. QED
  BY Invariance, <1>2, PTL DEF Spec, WholeBatches

-----------------------------------------------------------------------------
(* the pipeline implements the abstract event log *)

Held == Queued \cup buffer

\* The variables of EventLog under the refinement mapping.
MappedUnchanged ==
  UNCHANGED <<fresh, Held, table, dropped \cup failed, aged, spc = "gone">>

\* The worker's receives only move events between the channel and the buffer.
LEMMA TakeKeepsHeld ==
  ASSUME Inv, Take
  PROVE  Held' = Held
<1>1. /\ Head(chan) \in Range(chan)
      /\ Range(chan') = Range(chan) \ {Head(chan)}
  BY TakeFacts DEF Inv, Placed
<1>2. CASE Head(chan) = Shutdown
  BY <1>1, <1>2 DEF Take, Held, Queued
<1>3. CASE Head(chan) # Shutdown
  BY <1>1, <1>3 DEF Take, Held, Queued
<1>4. QED
  BY <1>2, <1>3

\* Every step of the pipeline is a step of the event log or leaves it alone.
LEMMA StepRefines ==
  ASSUME Inv, [Next]_vars
  PROVE  Log!LogNext \/ MappedUnchanged
<1> USE DEF Held
<1>1. ASSUME NEW e \in Events, LogAccepted(e) PROVE Log!Offer(e)
  <2>1. e \notin Range(chan) /\ e # Shutdown
    BY <1>1, LogAssumption DEF LogAccepted, Inv, Placed, EachEventOnce, Queued
  <2>2. Range(chan') = Range(chan) \cup {e}
    BY <1>1, <2>1, SendFacts DEF LogAccepted, Inv, Placed
  <2>3. Queued' = Queued \cup {e} /\ buffer' = buffer
    BY <1>1, <2>1, <2>2 DEF Queued, LogAccepted, worker
  <2>4. QED
    BY <1>1, <2>3 DEF Log!Offer, LogAccepted, Running, worker, db
<1>2. ASSUME NEW e \in Events, LogDropped(e) PROVE Log!Offer(e)
  <2>1. Queued' = Queued
    BY <1>2 DEF LogDropped, Queued
  <2>2. QED
    BY <1>2, <2>1 DEF Log!Offer, LogDropped, Running, worker, db
<1>3. CASE ProcessEnds
  <2>1. Queued' = Queued
    BY <1>3 DEF ProcessEnds, Queued
  <2>2. Log!Close
    BY <1>3, <2>1 DEF Log!Close, ProcessEnds, Running, worker, db, callers
  <2>3. QED
    BY <2>2 DEF Log!LogNext
<1>4. CASE Signal
  <2>1. Shutdown \notin Range(chan)
    BY <1>4 DEF Signal, Inv, SignalOrder
  <2>2. Range(chan') = Range(chan) \cup {Shutdown}
    BY <1>4, <2>1, SendFacts DEF Signal, Inv, Placed
  <2>3. Queued' = Queued
    BY <2>1, <2>2 DEF Queued
  <2>4. QED
    BY <1>4, <2>3 DEF Signal, MappedUnchanged, worker, db, callers
<1>5. CASE CallShutdown \/ SignalTimesOut \/ Join \/ DropManagers \/ UNCHANGED vars
  <2>1. Queued' = Queued
    BY <1>5 DEF CallShutdown, SignalTimesOut, Join, DropManagers, vars, Queued
  <2>2. QED
    BY <1>5, <2>1
      DEF CallShutdown, SignalTimesOut, Join, DropManagers, vars,
       MappedUnchanged, worker, db, callers
<1>6. CASE Recv \/ DrainOne
  <2>1. Held' = Held
    BY <1>6, TakeKeepsHeld DEF Recv, DrainOne
  <2>2. QED
    BY <1>6, <2>1 DEF Recv, DrainOne, MappedUnchanged, db, callers
<1>7. CASE \/ RecvTimeout \/ RecvDisconnected \/ DrainEnds \/ CheckBatch \/ LoopOrExit \/ Exit
           \/ Begin \/ AppendFails
           \/ AppendTo("access", Access, "proxy")
           \/ AppendTo("proxy", Proxy, "audit")
           \/ AppendTo("audit", Audit, "commit")
  <2>1. Queued' = Queued
    BY <1>7
      DEF RecvTimeout, RecvDisconnected, DrainEnds, CheckBatch, LoopOrExit,
       Exit, Begin, AppendFails, AppendTo, Queued
  <2>2. QED
    BY <1>7, <2>1
      DEF RecvTimeout, RecvDisconnected, DrainEnds, CheckBatch, LoopOrExit,
       Exit, Begin, AppendFails, AppendTo, MappedUnchanged, db, callers
<1>8. CASE BeginFails \/ CommitFails \/ Rollback
  <2>1. Queued' = Queued
    BY <1>8 DEF BeginFails, CommitFails, Rollback, Queued
  <2>2. buffer \in SUBSET Events /\ Queued \cap buffer = {}
    BY DEF Inv, TypeOK, Placed, EachEventOnce
  <2>3. CASE buffer = {}
    BY <1>8, <2>1, <2>3
    DEF BeginFails, CommitFails, Rollback, GiveUpBatch, MappedUnchanged, callers
  <2>4. CASE buffer # {}
    <3>1. Log!Lose(buffer)
      BY <1>8, <2>1, <2>2, <2>4
      DEF BeginFails, CommitFails, Rollback, GiveUpBatch, Log!Lose, Running, callers
    <3>2. QED
      BY <2>2, <3>1 DEF Log!LogNext
  <2>5. QED
    BY <2>3, <2>4
<1>9. CASE Commit
  <2>1. Queued' = Queued
    BY <1>9 DEF Commit, Queued
  <2>2. buffer \in SUBSET Events /\ Queued \cap buffer = {} /\ appended = buffer
    BY <1>9 DEF Commit, Inv, TypeOK, Transaction, Placed, EachEventOnce
  <2>3. CASE buffer = {}
    BY <1>9, <2>1, <2>2, <2>3 DEF Commit, MappedUnchanged, callers
  <2>4. CASE buffer # {}
    <3>1. Log!Store(buffer)
      BY <1>9, <2>1, <2>2, <2>4 DEF Commit, Log!Store, Running, callers
    <3>2. QED
      BY <2>2, <3>1 DEF Log!LogNext
  <2>5. QED
    BY <2>3, <2>4
<1>10. CASE Retention
  <2>1. Queued' = Queued
    BY <1>10 DEF Retention, Delete, Queued
  <2>2. PICK gone \in SUBSET (table \cap aged) : Delete(gone)
    BY <1>10 DEF Retention
  <2>3. Log!Expire(gone)
    BY <1>10, <2>1, <2>2 DEF Retention, Delete, Log!Expire, Running, callers
  <2>4. gone \in SUBSET (Events \cup OldRows)
    BY <2>2 DEF Inv, TypeOK
  <2>5. QED
    BY <2>3, <2>4 DEF Log!LogNext
<1>11. ASSUME NEW r \in Events \cup OldRows, Ages(r) PROVE Log!Age(r)
  <2>1. Queued' = Queued
    BY <1>11 DEF Ages, Queued
  <2>2. QED
    BY <1>11, <2>1 DEF Log!Age, Ages, Running, worker, db, callers
<1>12. QED
  BY <1>1, <1>2, <1>3, <1>4, <1>5, <1>6, <1>7, <1>8, <1>9, <1>10, <1>11
  DEF Next, ShutdownStep, WorkerStep, Log!LogNext

\* The pipeline refines EventLog: acceptance is final, batches are atomic, rows
\* leave only once aged past retention, and nothing happens after the process ends.
THEOREM Refinement == Spec => ImplementsEventLog
<1>1. Init => Log!LogInit
  <2> SUFFICES ASSUME Init PROVE Log!LogInit
    OBVIOUS
  <2>1. Queued = {}
    BY DEF Init, Queued, Range
  <2>2. QED
    BY <2>1 DEF Init, Log!LogInit
<1>2. ASSUME Inv, [Next]_vars PROVE [Log!LogNext]_(Log!logVars)
  BY <1>2, StepRefines DEF MappedUnchanged, Held, Log!logVars
<1>3. QED
  BY Invariance, <1>1, <1>2, PTL DEF Spec, ImplementsEventLog, Log!LogSpec
=============================================================================
