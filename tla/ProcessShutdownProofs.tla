-------------------------- MODULE ProcessShutdownProofs --------------------------
(***************************************************************************)
(* What holds of ProcessShutdown for every number of requests, every size  *)
(* of the channels and of Loki's batches and any number of signals: no     *)
(* record that a worker accepted in time is lost when the process ends.    *)
(***************************************************************************)
EXTENDS ProcessShutdown, FiniteSetTheorems, TLAPS

Elems(q) == {q[i] : i \in DOMAIN q}

Early == {"serving", "gap", "draining"}

\* A worker that has seen its Shutdown, or will, was sent it by main, who waits
\* for the worker before it goes on.
Stages ==
  /\ Shutdown \in Elems(logChan) \/ logPc # "loop" => "log" \in delivered
  /\ "log" \in delivered => main \notin Early \cup {"logSignal"}
  /\ "log" \in delivered /\ main # "logJoin" => logPc = "gone"
  /\ Shutdown \in Elems(lokiChan) => "loki" \in delivered
  /\ lokiShut => "loki" \in delivered
  /\ lokiPc = "push" /\ lokiRet = "gone" => "loki" \in delivered
  /\ "loki" \in delivered => main \in {"lokiJoin", "analytics", "exit"}
  /\ "loki" \in delivered /\ main # "lokiJoin" => lokiPc = "gone"

\* Until the log worker's last flush a record taken in time is in the channel, in
\* the buffer or in the table; from then on it is in the table.
LogFlow ==
  /\ logPc \in {"loop", "leaving"} =>
       logEarly \subseteq stored \cup logBuf \cup Elems(logChan)
  /\ logPc \in {"last", "gone"} => logEarly \subseteq stored

\* Unless the exit is forced no request runs once shutdown() has begun, and the
\* record of each was taken in time or refused.
Graceful ==
  ~forced =>
    /\ main \notin Early => \A r \in Requests : req[r] \in {"none", "ended"}
    /\ \A r \in Requests : req[r] = "ended" => r \in logEarly \cup refused

\* The Loki worker empties the channel and its buffer before the push it returns
\* from, and what comes later was not accepted in time.
LokiFlow ==
  /\ lokiPc \notin {"off", "gone"} =>
       lokiEarly \subseteq pushed \cup unpushed \cup sending \cup lokiBuf \cup Elems(lokiChan)
  /\ lokiPc = "push" /\ lokiRet = "gone" => lokiEarly \subseteq pushed \cup unpushed \cup sending
  /\ lokiPc = "gone" => lokiEarly \subseteq pushed \cup unpushed

\* No record is in the channel twice.
Once(q) == \A i, j \in DOMAIN q : q[i] = q[j] /\ q[i] # Shutdown => i = j

\* A record is in one place of the Loki worker's only, and once.
LokiOnce ==
  /\ \A r \in pushed \cup unpushed \cup sending \cup lokiBuf \cup (Elems(lokiChan) \ {Shutdown}) :
       req[r] \in {"logging", "ended"}
  /\ pushed \cap unpushed = {}
  /\ sending \cap (pushed \cup unpushed) = {}
  /\ lokiBuf \cap (pushed \cup unpushed \cup sending) = {}
  /\ Elems(lokiChan) \cap (pushed \cup unpushed \cup sending \cup lokiBuf) = {}
  /\ Once(lokiChan)

Inv == TypeOK /\ Stages /\ LogFlow /\ Graceful /\ LokiFlow /\ LokiOnce

-----------------------------------------------------------------------------
(* the channels *)

\* A send adds its message to the channel.
LEMMA AppendFacts ==
  ASSUME NEW S, NEW q \in Seq(S), NEW e \in S
  PROVE  /\ Append(q, e) \in Seq(S) /\ Len(Append(q, e)) = Len(q) + 1 /\ Len(q) \in Nat
         /\ Elems(Append(q, e)) = Elems(q) \cup {e}
<1>1. /\ DOMAIN Append(q, e) = 1 .. Len(q) + 1
      /\ DOMAIN q = 1 .. Len(q)
      /\ \A i \in 1 .. Len(q) : Append(q, e)[i] = q[i]
      /\ Append(q, e)[Len(q) + 1] = e
      /\ Len(q) \in Nat
  OBVIOUS
<1>2. \A x : x \in Elems(Append(q, e)) <=> x \in Elems(q) \/ x = e
  BY <1>1 DEF Elems
<1>3. QED
  BY <1>1, <1>2

\* A receive takes the first message off the channel.
LEMMA TailFacts ==
  ASSUME NEW S, NEW q \in Seq(S), q # <<>>
  PROVE  /\ Tail(q) \in Seq(S) /\ Len(Tail(q)) <= Len(q) /\ Len(q) \in Nat
         /\ Head(q) \in S /\ Elems(q) = Elems(Tail(q)) \cup {Head(q)}
<1>1. /\ Len(q) \in Nat \ {0}
      /\ Tail(q) \in Seq(S) /\ Len(Tail(q)) = Len(q) - 1
      /\ DOMAIN Tail(q) = 1 .. Len(q) - 1
      /\ DOMAIN q = 1 .. Len(q)
      /\ \A i \in 1 .. Len(q) - 1 : Tail(q)[i] = q[i + 1]
      /\ Head(q) = q[1] /\ Head(q) \in S
  OBVIOUS
<1>2. ASSUME NEW x \in Elems(q) PROVE x \in Elems(Tail(q)) \cup {Head(q)}
  <2>1. PICK i \in 1 .. Len(q) : x = q[i]
    BY <1>1 DEF Elems
  <2>2. CASE i = 1
    BY <1>1, <2>1, <2>2
  <2>3. CASE i # 1
    <3>1. i - 1 \in 1 .. Len(q) - 1 /\ (i - 1) + 1 = i
      BY <1>1, <2>1, <2>3
    <3>2. Tail(q)[i - 1] = x
      BY <1>1, <2>1, <3>1
    <3>3. QED
      BY <1>1, <3>1, <3>2 DEF Elems
  <2>4. QED
    BY <2>2, <2>3
<1>3. ASSUME NEW x \in Elems(Tail(q)) \cup {Head(q)} PROVE x \in Elems(q)
  BY <1>1 DEF Elems
<1>4. QED
  BY <1>1, <1>2, <1>3

\* An empty channel holds nothing.
LEMMA EmptyElems == Elems(<<>>) = {} /\ Once(<<>>)
  BY DEF Elems, Once

\* A send of a record that is not in the channel keeps its records different.
LEMMA AppendOnce ==
  ASSUME NEW S, NEW q \in Seq(S), NEW e \in S, Once(q), e = Shutdown \/ e \notin Elems(q)
  PROVE  Once(Append(q, e))
<1>1. /\ DOMAIN Append(q, e) = 1 .. Len(q) + 1
      /\ DOMAIN q = 1 .. Len(q)
      /\ \A i \in 1 .. Len(q) : Append(q, e)[i] = q[i]
      /\ Append(q, e)[Len(q) + 1] = e
      /\ Len(q) \in Nat
  OBVIOUS
<1>2. \A i \in 1 .. Len(q) : e # Shutdown => q[i] # e
  BY <1>1 DEF Elems
<1>3. QED
  BY <1>1, <1>2 DEF Once

\* A receive leaves the record it takes nowhere else in the channel.
LEMMA TailOnce ==
  ASSUME NEW S, NEW q \in Seq(S), q # <<>>, Once(q)
  PROVE  Once(Tail(q)) /\ (Head(q) # Shutdown => Head(q) \notin Elems(Tail(q)))
<1>1. /\ Len(q) \in Nat \ {0}
      /\ DOMAIN Tail(q) = 1 .. Len(q) - 1
      /\ DOMAIN q = 1 .. Len(q)
      /\ \A i \in 1 .. Len(q) - 1 : Tail(q)[i] = q[i + 1] /\ i + 1 \in 1 .. Len(q)
      /\ Head(q) = q[1]
  OBVIOUS
<1>2. Once(Tail(q))
  <2>1. SUFFICES ASSUME NEW i \in 1 .. Len(q) - 1, NEW j \in 1 .. Len(q) - 1,
                        Tail(q)[i] = Tail(q)[j], Tail(q)[i] # Shutdown
                 PROVE  i = j
    BY <1>1 DEF Once
  <2>2. i + 1 = j + 1
    BY <1>1, <2>1 DEF Once
  <2>3. QED
    BY <2>2
<1>3. ASSUME Head(q) # Shutdown, Head(q) \in Elems(Tail(q)) PROVE FALSE
  <2>1. PICK i \in 1 .. Len(q) - 1 : q[i + 1] = q[1]
    BY <1>1, <1>3 DEF Elems
  <2>2. i + 1 = 1
    BY <1>1, <1>3, <2>1 DEF Once
  <2>3. QED
    BY <2>2
<1>4. QED
  BY <1>2, <1>3

-----------------------------------------------------------------------------
(* Inv is inductive *)

\* The initial state satisfies the invariant.
LEMMA InitInv == Init => Inv
<1> SUFFICES ASSUME Init PROVE Inv
  OBVIOUS
<1> USE DEF Init
<1>1. TypeOK
  <2>1. /\ signals \in 0 .. MaxSignals
        /\ logChan \in Seq(Requests \cup {Shutdown}) /\ Len(logChan) <= LogCap
        /\ lokiChan \in Seq(Requests \cup {Shutdown}) /\ Len(lokiChan) <= LokiCap
    BY ShutdownAssumption
  <2>2. /\ main \in MainPlaces
        /\ req \in [Requests -> {"none", "running", "logging", "ended"}]
    BY DEF MainPlaces
  <2>3. lokiPc = "push" <=> sending # {}
    OBVIOUS
  <2>4. QED
    BY <2>1, <2>2, <2>3, Zenon DEF TypeOK
<1>2. Elems(logChan) = {} /\ Elems(lokiChan) = {} /\ Once(lokiChan)
  BY EmptyElems
<1>3. Stages /\ LogFlow /\ Graceful /\ LokiFlow /\ LokiOnce
  BY <1>2 DEF Stages, LogFlow, Graceful, LokiFlow, LokiOnce, Early
<1>4. QED
  BY <1>1, <1>3 DEF Inv

\* Every step keeps the types.
LEMMA TypeStep ==
  ASSUME Inv, [Next]_vars
  PROVE  TypeOK'
<1>0. TypeOK /\ ShutdownAssumption
  BY ShutdownAssumption DEF Inv
<1>c. /\ logChan \in Seq(Requests \cup {Shutdown}) /\ Len(logChan) <= LogCap
      /\ lokiChan \in Seq(Requests \cup {Shutdown}) /\ Len(lokiChan) <= LokiCap
      /\ LogCap \in Nat /\ LokiCap \in Nat
  BY <1>0 DEF TypeOK, ShutdownAssumption
<1>1. ASSUME NEW r \in Requests, Arrive(r) PROVE TypeOK'
  BY <1>0, <1>1 DEF Arrive, mainVars, logVars, lokiVars, histories, TypeOK,
     MainPlaces
<1>2. ASSUME NEW r \in Requests, SendToLoki(r) PROVE TypeOK'
  <2>1. /\ Append(lokiChan, r) \in Seq(Requests \cup {Shutdown})
        /\ Len(Append(lokiChan, r)) = Len(lokiChan) + 1 /\ Len(lokiChan) \in Nat
    BY <1>0, AppendFacts DEF TypeOK
  <2>2. lokiChan' \in Seq(Requests \cup {Shutdown}) /\ Len(lokiChan') <= LokiCap
    BY <1>c, <1>2, <2>1 DEF SendToLoki, LokiTakes
  <2>3. QED
    BY <1>0, <1>2, <2>2 DEF SendToLoki, TypeOK, mainVars, logVars
<1>3. ASSUME NEW r \in Requests, SendToLog(r) PROVE TypeOK'
  <2>1. /\ Append(logChan, r) \in Seq(Requests \cup {Shutdown})
        /\ Len(Append(logChan, r)) = Len(logChan) + 1 /\ Len(logChan) \in Nat
    BY <1>0, AppendFacts DEF TypeOK
  <2>2. logChan' \in Seq(Requests \cup {Shutdown}) /\ Len(logChan') <= LogCap
    <3>1. CASE LogTakes
      BY <1>c, <1>3, <2>1, <3>1 DEF SendToLog, LogTakes
    <3>2. CASE ~LogTakes
      BY <1>c, <1>3, <3>2 DEF SendToLog
    <3>3. QED
      BY <3>1, <3>2
  <2>3. QED
    BY <1>0, <1>3, <2>2 DEF SendToLog, TypeOK, mainVars, lokiVars
<1>4. ASSUME Signal PROVE TypeOK'
  BY <1>0, <1>4 DEF Signal, Goto, mainVars, logVars, lokiVars, histories, TypeOK,
     MainPlaces
<1>5. ASSUME Listen PROVE TypeOK'
  BY <1>0, <1>5 DEF Listen, Goto, mainVars, logVars, lokiVars, histories, TypeOK,
     MainPlaces
<1>6. ASSUME ServerEnds PROVE TypeOK'
  BY <1>0, <1>6 DEF ServerEnds, Goto, mainVars, logVars, lokiVars, histories,
     TypeOK, MainPlaces
<1>7. ASSUME GracefulTimeout PROVE TypeOK'
  BY <1>0, <1>7 DEF GracefulTimeout, Goto, mainVars, logVars, lokiVars, histories,
     TypeOK, MainPlaces
<1>8. ASSUME SignalLog PROVE TypeOK'
  <2>1. /\ Append(logChan, Shutdown) \in Seq(Requests \cup {Shutdown})
        /\ Len(Append(logChan, Shutdown)) = Len(logChan) + 1 /\ Len(logChan) \in Nat
    BY <1>0, AppendFacts DEF TypeOK
  <2>2. logChan' \in Seq(Requests \cup {Shutdown}) /\ Len(logChan') <= LogCap
    <3>1. CASE Len(logChan) < LogCap /\ logChan' = Append(logChan, Shutdown)
      BY <1>c, <2>1, <3>1
    <3>2. CASE UNCHANGED logChan
      BY <1>c, <3>2
    <3>3. QED
      BY <1>8, <3>1, <3>2 DEF SignalLog
  <2>3. QED
    BY <1>0, <1>8, <2>2 DEF SignalLog, Goto, TypeOK, MainPlaces, lokiVars
<1>9. ASSUME JoinLog PROVE TypeOK'
  BY <1>0, <1>9 DEF JoinLog, Goto, mainVars, logVars, lokiVars, histories, TypeOK,
     MainPlaces
<1>10. ASSUME SignalLoki PROVE TypeOK'
  <2>1. /\ Append(lokiChan, Shutdown) \in Seq(Requests \cup {Shutdown})
        /\ Len(Append(lokiChan, Shutdown)) = Len(lokiChan) + 1 /\ Len(lokiChan) \in Nat
    BY <1>0, AppendFacts DEF TypeOK
  <2>2. lokiChan' \in Seq(Requests \cup {Shutdown}) /\ Len(lokiChan') <= LokiCap
    BY <1>c, <1>10, <2>1 DEF SignalLoki
  <2>3. QED
    BY <1>0, <1>10, <2>2 DEF SignalLoki, Goto, TypeOK, MainPlaces, logVars
<1>11. ASSUME JoinLoki PROVE TypeOK'
  BY <1>0, <1>11 DEF JoinLoki, Goto, mainVars, logVars, lokiVars, histories, TypeOK,
     MainPlaces
<1>12. ASSUME Exit PROVE TypeOK'
  BY <1>0, <1>12 DEF Exit, Goto, mainVars, logVars, lokiVars, histories, TypeOK,
     MainPlaces
<1>13. ASSUME LogTake PROVE TypeOK'
  <2>1. /\ Tail(logChan) \in Seq(Requests \cup {Shutdown})
        /\ Len(Tail(logChan)) <= Len(logChan) /\ Len(logChan) \in Nat
        /\ Head(logChan) \in Requests \cup {Shutdown}
    BY <1>0, <1>13, TailFacts DEF LogTake, TypeOK
  <2>2. logChan' \in Seq(Requests \cup {Shutdown}) /\ Len(logChan') <= LogCap
    BY <1>c, <1>13, <2>1 DEF LogTake
  <2>3. logBuf' \subseteq Requests /\ logPc' \in {"loop", "leaving", "last", "gone"}
    BY <1>0, <1>13, <2>1 DEF LogTake, TypeOK
  <2>4. QED
    BY <1>0, <1>13, <2>2, <2>3 DEF LogTake, TypeOK, mainVars, lokiVars, histories
<1>14. ASSUME LogFlush PROVE TypeOK'
  BY <1>0, <1>14 DEF LogFlush, mainVars, logVars, lokiVars, histories, TypeOK,
     MainPlaces
<1>15. ASSUME LogLast PROVE TypeOK'
  BY <1>0, <1>15 DEF LogLast, mainVars, logVars, lokiVars, histories, TypeOK,
     MainPlaces
<1>16. ASSUME LogExit PROVE TypeOK'
  BY <1>0, <1>16 DEF LogExit, mainVars, logVars, lokiVars, histories, TypeOK,
     MainPlaces
<1>17. ASSUME LokiTake PROVE TypeOK'
  <2>1. /\ Tail(lokiChan) \in Seq(Requests \cup {Shutdown})
        /\ Len(Tail(lokiChan)) <= Len(lokiChan) /\ Len(lokiChan) \in Nat
        /\ Head(lokiChan) \in Requests \cup {Shutdown}
    BY <1>0, <1>17, TailFacts DEF LokiTake, TypeOK
  <2>2. lokiChan' \in Seq(Requests \cup {Shutdown}) /\ Len(lokiChan') <= LokiCap
    BY <1>c, <1>17, <2>1 DEF LokiTake
  <2>3. lokiBuf' \subseteq Requests /\ lokiShut' \in BOOLEAN
    BY <1>0, <1>17, <2>1 DEF LokiTake, TypeOK
  <2>4. QED
    BY <1>0, <1>17, <2>2, <2>3 DEF LokiTake, LokiFrame, TypeOK, mainVars, logVars,
       histories
<1>18. ASSUME LokiInterval PROVE TypeOK'
  BY <1>0, <1>18 DEF LokiInterval, Push, LokiFrame, mainVars, logVars, lokiVars,
     histories, TypeOK, MainPlaces
<1>19. ASSUME LokiCheck PROVE TypeOK'
  <2>1. Cardinality({}) = 0
    BY FS_EmptySet
  <2>2. Cardinality(lokiBuf) >= LokiBatch => lokiBuf # {}
    BY <1>0, <2>1 DEF ShutdownAssumption
  <2>3. /\ lokiBuf' \subseteq Requests /\ sending' \subseteq Requests
        /\ lokiPc' \in {"off", "recv", "drain", "push", "gone"}
        /\ lokiRet' \in {"recv", "drain", "gone"}
        /\ lokiPc' = "push" <=> sending' # {}
    <3>1. CASE Push(IF lokiShut THEN "gone" ELSE "recv") /\ lokiBuf # {}
      BY <1>0, <1>19, <3>1 DEF LokiCheck, Push, TypeOK
    <3>2. CASE /\ lokiPc' = IF lokiShut THEN "gone" ELSE "recv"
               /\ UNCHANGED <<lokiBuf, sending, lokiRet>>
      BY <1>0, <1>19, <3>2 DEF LokiCheck, TypeOK
    <3>3. QED
      BY <1>0, <1>19, <2>2, <3>1, <3>2 DEF LokiCheck
  <2>4. QED
    BY <1>0, <1>19, <2>3 DEF LokiCheck, LokiFrame, TypeOK, mainVars, logVars, histories
<1>20. ASSUME LokiPushed PROVE TypeOK'
  BY <1>0, <1>20 DEF LokiPushed, LokiFrame, mainVars, logVars, lokiVars, histories,
     TypeOK, MainPlaces
<1>21. CASE UNCHANGED vars
  BY <1>0, <1>21 DEF vars, mainVars, logVars, lokiVars, histories, TypeOK,
     MainPlaces
<1>22. QED
  BY <1>1, <1>2, <1>3, <1>4, <1>5, <1>6, <1>7, <1>8, <1>9, <1>10, <1>11, <1>12,
     <1>13, <1>14, <1>15, <1>16, <1>17, <1>18, <1>19, <1>20, <1>21 DEF Next,
     MainStep, LogStep, LokiStep

\* Every step of the shutdown is taken by main after the worker before it.
LEMMA StagesStep ==
  ASSUME Inv, [Next]_vars
  PROVE  Stages'
<1>0. TypeOK /\ Stages /\ ShutdownAssumption
  BY ShutdownAssumption DEF Inv
<1>1. ASSUME NEW r \in Requests, Arrive(r) PROVE Stages'
  BY <1>0, <1>1 DEF Arrive, mainVars, logVars, lokiVars, histories, Stages, Early
<1>2. ASSUME NEW r \in Requests, SendToLoki(r) PROVE Stages'
  <2>1. Elems(Append(lokiChan, r)) = Elems(lokiChan) \cup {r} /\ r # Shutdown
    BY <1>0, AppendFacts DEF TypeOK, ShutdownAssumption
  <2>2. QED
    BY <1>0, <1>2, <2>1
    DEF SendToLoki, LokiTakes, mainVars, logVars, lokiVars, histories, Stages, Early
<1>3. ASSUME NEW r \in Requests, SendToLog(r) PROVE Stages'
  <2>1. Elems(Append(logChan, r)) = Elems(logChan) \cup {r} /\ r # Shutdown
    BY <1>0, AppendFacts DEF TypeOK, ShutdownAssumption
  <2>2. QED
    BY <1>0, <1>3, <2>1
    DEF SendToLog, LogTakes, mainVars, logVars, lokiVars, histories, Stages, Early
<1>4. ASSUME Signal PROVE Stages'
  BY <1>0, <1>4 DEF Signal, Goto, mainVars, logVars, lokiVars, histories, Stages,
     Early
<1>5. ASSUME Listen PROVE Stages'
  BY <1>0, <1>5 DEF Listen, Goto, mainVars, logVars, lokiVars, histories, Stages,
     Early
<1>6. ASSUME ServerEnds PROVE Stages'
  BY <1>0, <1>6 DEF ServerEnds, Goto, mainVars, logVars, lokiVars, histories,
     Stages, Early
<1>7. ASSUME GracefulTimeout PROVE Stages'
  BY <1>0, <1>7 DEF GracefulTimeout, Goto, mainVars, logVars, lokiVars, histories,
     Stages, Early
<1>8. ASSUME SignalLog PROVE Stages'
  <2>1. Elems(Append(logChan, Shutdown)) = Elems(logChan) \cup {Shutdown}
    BY <1>0, AppendFacts DEF TypeOK
  <2>2. QED
    BY <1>0, <1>8, <2>1
    DEF SignalLog, Goto, mainVars, logVars, lokiVars, histories, Stages, Early
<1>9. ASSUME JoinLog PROVE Stages'
  BY <1>0, <1>9 DEF JoinLog, Goto, mainVars, logVars, lokiVars, histories, Stages,
     Early
<1>10. ASSUME SignalLoki PROVE Stages'
  <2>1. Elems(Append(lokiChan, Shutdown)) = Elems(lokiChan) \cup {Shutdown}
    BY <1>0, AppendFacts DEF TypeOK
  <2>2. QED
    BY <1>0, <1>10, <2>1
    DEF SignalLoki, Goto, mainVars, logVars, lokiVars, histories, Stages, Early
<1>11. ASSUME JoinLoki PROVE Stages'
  BY <1>0, <1>11 DEF JoinLoki, Goto, mainVars, logVars, lokiVars, histories, Stages,
     Early
<1>12. ASSUME Exit PROVE Stages'
  BY <1>0, <1>12 DEF Exit, Goto, mainVars, logVars, lokiVars, histories, Stages,
     Early
<1>13. ASSUME LogTake PROVE Stages'
  <2>1. Elems(logChan) = Elems(logChan') \cup {Head(logChan)} /\ Shutdown \notin logEarly
    BY <1>0, <1>13, TailFacts DEF LogTake, TypeOK, ShutdownAssumption
  <2>2. QED
    BY <1>0, <1>13, <2>1
    DEF LogTake, mainVars, logVars, lokiVars, histories, Stages, Early
<1>14. ASSUME LogFlush PROVE Stages'
  BY <1>0, <1>14 DEF LogFlush, mainVars, logVars, lokiVars, histories, Stages, Early
<1>15. ASSUME LogLast PROVE Stages'
  BY <1>0, <1>15 DEF LogLast, mainVars, logVars, lokiVars, histories, Stages, Early
<1>16. ASSUME LogExit PROVE Stages'
  <2>1. Elems(logChan') = {}
    BY <1>16, EmptyElems DEF LogExit
  <2>2. QED
    BY <1>0, <1>16, <2>1
    DEF LogExit, mainVars, logVars, lokiVars, histories, Stages, Early
<1>17. ASSUME LokiTake PROVE Stages'
  <2>1. Elems(lokiChan) = Elems(lokiChan') \cup {Head(lokiChan)} /\ Shutdown \notin lokiEarly
    BY <1>0, <1>17, TailFacts DEF LokiTake, TypeOK, ShutdownAssumption
  <2>2. QED
    BY <1>0, <1>17, <2>1
    DEF LokiTake, LokiFrame, mainVars, logVars, lokiVars, histories, Stages, Early
<1>18. ASSUME LokiInterval PROVE Stages'
  BY <1>0, <1>18 DEF LokiInterval, Push, LokiFrame, mainVars, logVars, lokiVars,
     histories, Stages, Early
<1>19. ASSUME LokiCheck PROVE Stages'
  BY <1>0, <1>19 DEF LokiCheck, Push, LokiFrame, mainVars, logVars, lokiVars,
     histories, Stages, Early
<1>20. ASSUME LokiPushed PROVE Stages'
  <2>1. Elems(lokiChan') \in {{}, Elems(lokiChan)} /\ (lokiRet # "gone" => lokiChan' = lokiChan)
    BY <1>20, EmptyElems DEF LokiPushed
  <2>2. QED
    BY <1>0, <1>20, <2>1
    DEF LokiPushed, LokiFrame, mainVars, logVars, lokiVars, histories, Stages, Early
<1>21. CASE UNCHANGED vars
  BY <1>0, <1>21 DEF vars, mainVars, logVars, lokiVars, histories, Stages, Early
<1>22. QED
  BY <1>1, <1>2, <1>3, <1>4, <1>5, <1>6, <1>7, <1>8, <1>9, <1>10, <1>11, <1>12,
     <1>13, <1>14, <1>15, <1>16, <1>17, <1>18, <1>19, <1>20, <1>21 DEF Next,
     MainStep, LogStep, LokiStep

\* No step loses a record that the log channel took in time.
LEMMA LogFlowStep ==
  ASSUME Inv, [Next]_vars
  PROVE  LogFlow'
<1>0. TypeOK /\ Stages /\ LogFlow /\ ShutdownAssumption
  BY ShutdownAssumption DEF Inv
<1>1. ASSUME NEW r \in Requests, Arrive(r) PROVE LogFlow'
  BY <1>0, <1>1 DEF Arrive, mainVars, logVars, lokiVars, histories, Stages, Early,
     LogFlow
<1>2. ASSUME NEW r \in Requests, SendToLoki(r) PROVE LogFlow'
  BY <1>0, <1>2 DEF SendToLoki, LokiTakes, mainVars, logVars, lokiVars, histories,
     Stages, Early, LogFlow
<1>3. ASSUME NEW r \in Requests, SendToLog(r) PROVE LogFlow'
  <2>1. Elems(Append(logChan, r)) = Elems(logChan) \cup {r} /\ r # Shutdown
    BY <1>0, AppendFacts DEF TypeOK, ShutdownAssumption
  <2>2. QED
    BY <1>0, <1>3, <2>1
    DEF SendToLog, LogTakes, mainVars, logVars, lokiVars, histories, Stages, Early,
        LogFlow
<1>4. ASSUME Signal PROVE LogFlow'
  BY <1>0, <1>4 DEF Signal, Goto, mainVars, logVars, lokiVars, histories, Stages,
     Early, LogFlow
<1>5. ASSUME Listen PROVE LogFlow'
  BY <1>0, <1>5 DEF Listen, Goto, mainVars, logVars, lokiVars, histories, Stages,
     Early, LogFlow
<1>6. ASSUME ServerEnds PROVE LogFlow'
  BY <1>0, <1>6 DEF ServerEnds, Goto, mainVars, logVars, lokiVars, histories,
     Stages, Early, LogFlow
<1>7. ASSUME GracefulTimeout PROVE LogFlow'
  BY <1>0, <1>7 DEF GracefulTimeout, Goto, mainVars, logVars, lokiVars, histories,
     Stages, Early, LogFlow
<1>8. ASSUME SignalLog PROVE LogFlow'
  <2>1. Elems(Append(logChan, Shutdown)) = Elems(logChan) \cup {Shutdown}
    BY <1>0, AppendFacts DEF TypeOK
  <2>2. QED
    BY <1>0, <1>8, <2>1
    DEF SignalLog, Goto, mainVars, logVars, lokiVars, histories, Stages, Early, LogFlow
<1>9. ASSUME JoinLog PROVE LogFlow'
  BY <1>0, <1>9 DEF JoinLog, Goto, mainVars, logVars, lokiVars, histories, Stages,
     Early, LogFlow
<1>10. ASSUME SignalLoki PROVE LogFlow'
  BY <1>0, <1>10 DEF SignalLoki, Goto, mainVars, logVars, lokiVars, histories,
     Stages, Early, LogFlow
<1>11. ASSUME JoinLoki PROVE LogFlow'
  BY <1>0, <1>11 DEF JoinLoki, Goto, mainVars, logVars, lokiVars, histories, Stages,
     Early, LogFlow
<1>12. ASSUME Exit PROVE LogFlow'
  BY <1>0, <1>12 DEF Exit, Goto, mainVars, logVars, lokiVars, histories, Stages,
     Early, LogFlow
<1>13. ASSUME LogTake PROVE LogFlow'
  <2>1. Elems(logChan) = Elems(logChan') \cup {Head(logChan)} /\ Shutdown \notin logEarly
    BY <1>0, <1>13, TailFacts DEF LogTake, TypeOK, ShutdownAssumption
  <2>2. QED
    BY <1>0, <1>13, <2>1
    DEF LogTake, mainVars, logVars, lokiVars, histories, Stages, Early, LogFlow
<1>14. ASSUME LogFlush PROVE LogFlow'
  BY <1>0, <1>14 DEF LogFlush, mainVars, logVars, lokiVars, histories, Stages,
     Early, LogFlow
<1>15. ASSUME LogLast PROVE LogFlow'
  <2>1. Elems(logChan) = {}
    BY <1>15, EmptyElems DEF LogLast
  <2>2. QED
    BY <1>0, <1>15, <2>1
    DEF LogLast, mainVars, logVars, lokiVars, histories, Stages, Early, LogFlow
<1>16. ASSUME LogExit PROVE LogFlow'
  <2>1. Elems(logChan') = {}
    BY <1>16, EmptyElems DEF LogExit
  <2>2. QED
    BY <1>0, <1>16, <2>1
    DEF LogExit, mainVars, logVars, lokiVars, histories, Stages, Early, LogFlow
<1>17. ASSUME LokiTake PROVE LogFlow'
  BY <1>0, <1>17 DEF LokiTake, LokiFrame, mainVars, logVars, lokiVars, histories,
     Stages, Early, LogFlow
<1>18. ASSUME LokiInterval PROVE LogFlow'
  BY <1>0, <1>18 DEF LokiInterval, Push, LokiFrame, mainVars, logVars, lokiVars,
     histories, Stages, Early, LogFlow
<1>19. ASSUME LokiCheck PROVE LogFlow'
  BY <1>0, <1>19 DEF LokiCheck, Push, LokiFrame, mainVars, logVars, lokiVars,
     histories, Stages, Early, LogFlow
<1>20. ASSUME LokiPushed PROVE LogFlow'
  BY <1>0, <1>20 DEF LokiPushed, LokiFrame, mainVars, logVars, lokiVars, histories,
     Stages, Early, LogFlow
<1>21. CASE UNCHANGED vars
  BY <1>0, <1>21 DEF vars, mainVars, logVars, lokiVars, histories, Stages, Early,
     LogFlow
<1>22. QED
  BY <1>1, <1>2, <1>3, <1>4, <1>5, <1>6, <1>7, <1>8, <1>9, <1>10, <1>11, <1>12,
     <1>13, <1>14, <1>15, <1>16, <1>17, <1>18, <1>19, <1>20, <1>21 DEF Next,
     MainStep, LogStep, LokiStep

\* Unless the exit is forced, the last request ends before shutdown() begins.
LEMMA GracefulStep ==
  ASSUME Inv, [Next]_vars
  PROVE  Graceful'
<1>0. TypeOK /\ Graceful /\ ShutdownAssumption
  BY ShutdownAssumption DEF Inv
<1>1. ASSUME NEW r \in Requests, Arrive(r) PROVE Graceful'
  BY <1>0, <1>1 DEF Arrive, mainVars, logVars, lokiVars, histories, Early, Graceful,
     TypeOK
<1>2. ASSUME NEW r \in Requests, SendToLoki(r) PROVE Graceful'
  BY <1>0, <1>2 DEF SendToLoki, LokiTakes, mainVars, logVars, lokiVars, histories,
     Early, Graceful, TypeOK
<1>3. ASSUME NEW r \in Requests, SendToLog(r) PROVE Graceful'
  BY <1>0, <1>3 DEF SendToLog, LogTakes, mainVars, logVars, lokiVars, histories,
     Early, Graceful, TypeOK
<1>4. ASSUME Signal PROVE Graceful'
  BY <1>0, <1>4 DEF Signal, Goto, mainVars, logVars, lokiVars, histories, Early,
     Graceful, TypeOK
<1>5. ASSUME Listen PROVE Graceful'
  BY <1>0, <1>5 DEF Listen, Goto, mainVars, logVars, lokiVars, histories, Early,
     Graceful, TypeOK
<1>6. ASSUME ServerEnds PROVE Graceful'
  BY <1>0, <1>6 DEF ServerEnds, Goto, mainVars, logVars, lokiVars, histories, Early,
     Graceful, TypeOK
<1>7. ASSUME GracefulTimeout PROVE Graceful'
  BY <1>0, <1>7 DEF GracefulTimeout, Goto, mainVars, logVars, lokiVars, histories,
     Early, Graceful, TypeOK
<1>8. ASSUME SignalLog PROVE Graceful'
  BY <1>0, <1>8 DEF SignalLog, Goto, mainVars, logVars, lokiVars, histories, Early,
     Graceful, TypeOK
<1>9. ASSUME JoinLog PROVE Graceful'
  BY <1>0, <1>9 DEF JoinLog, Goto, mainVars, logVars, lokiVars, histories, Early,
     Graceful, TypeOK
<1>10. ASSUME SignalLoki PROVE Graceful'
  BY <1>0, <1>10 DEF SignalLoki, Goto, mainVars, logVars, lokiVars, histories,
     Early, Graceful, TypeOK
<1>11. ASSUME JoinLoki PROVE Graceful'
  BY <1>0, <1>11 DEF JoinLoki, Goto, mainVars, logVars, lokiVars, histories, Early,
     Graceful, TypeOK
<1>12. ASSUME Exit PROVE Graceful'
  BY <1>0, <1>12 DEF Exit, Goto, mainVars, logVars, lokiVars, histories, Early,
     Graceful, TypeOK
<1>13. ASSUME LogTake PROVE Graceful'
  BY <1>0, <1>13 DEF LogTake, mainVars, logVars, lokiVars, histories, Early,
     Graceful, TypeOK
<1>14. ASSUME LogFlush PROVE Graceful'
  BY <1>0, <1>14 DEF LogFlush, mainVars, logVars, lokiVars, histories, Early,
     Graceful, TypeOK
<1>15. ASSUME LogLast PROVE Graceful'
  BY <1>0, <1>15 DEF LogLast, mainVars, logVars, lokiVars, histories, Early,
     Graceful, TypeOK
<1>16. ASSUME LogExit PROVE Graceful'
  BY <1>0, <1>16 DEF LogExit, mainVars, logVars, lokiVars, histories, Early,
     Graceful, TypeOK
<1>17. ASSUME LokiTake PROVE Graceful'
  BY <1>0, <1>17 DEF LokiTake, LokiFrame, mainVars, logVars, lokiVars, histories,
     Early, Graceful, TypeOK
<1>18. ASSUME LokiInterval PROVE Graceful'
  BY <1>0, <1>18 DEF LokiInterval, Push, LokiFrame, mainVars, logVars, lokiVars,
     histories, Early, Graceful, TypeOK
<1>19. ASSUME LokiCheck PROVE Graceful'
  BY <1>0, <1>19 DEF LokiCheck, Push, LokiFrame, mainVars, logVars, lokiVars,
     histories, Early, Graceful, TypeOK
<1>20. ASSUME LokiPushed PROVE Graceful'
  BY <1>0, <1>20 DEF LokiPushed, LokiFrame, mainVars, logVars, lokiVars, histories,
     Early, Graceful, TypeOK
<1>21. CASE UNCHANGED vars
  BY <1>0, <1>21 DEF vars, mainVars, logVars, lokiVars, histories, Early, Graceful,
     TypeOK
<1>22. QED
  BY <1>1, <1>2, <1>3, <1>4, <1>5, <1>6, <1>7, <1>8, <1>9, <1>10, <1>11, <1>12,
     <1>13, <1>14, <1>15, <1>16, <1>17, <1>18, <1>19, <1>20, <1>21 DEF Next,
     MainStep, LogStep, LokiStep

\* No step loses a record that the Loki channel took in time.
LEMMA LokiFlowStep ==
  ASSUME Inv, [Next]_vars
  PROVE  LokiFlow'
<1>0. TypeOK /\ Stages /\ LokiFlow /\ ShutdownAssumption
  BY ShutdownAssumption DEF Inv
<1>1. ASSUME NEW r \in Requests, Arrive(r) PROVE LokiFlow'
  BY <1>0, <1>1 DEF Arrive, mainVars, logVars, lokiVars, histories, Stages,
     LokiFlow, TypeOK
<1>2. ASSUME NEW r \in Requests, SendToLoki(r) PROVE LokiFlow'
  <2>1. Elems(Append(lokiChan, r)) = Elems(lokiChan) \cup {r} /\ r # Shutdown
    BY <1>0, AppendFacts DEF TypeOK, ShutdownAssumption
  <2>2. QED
    BY <1>0, <1>2, <2>1
    DEF SendToLoki, LokiTakes, mainVars, logVars, lokiVars, histories, Stages,
        LokiFlow, TypeOK
<1>3. ASSUME NEW r \in Requests, SendToLog(r) PROVE LokiFlow'
  BY <1>0, <1>3 DEF SendToLog, LogTakes, mainVars, logVars, lokiVars, histories,
     Stages, LokiFlow, TypeOK
<1>4. ASSUME Signal PROVE LokiFlow'
  BY <1>0, <1>4 DEF Signal, Goto, mainVars, logVars, lokiVars, histories, Stages,
     LokiFlow, TypeOK
<1>5. ASSUME Listen PROVE LokiFlow'
  BY <1>0, <1>5 DEF Listen, Goto, mainVars, logVars, lokiVars, histories, Stages,
     LokiFlow, TypeOK
<1>6. ASSUME ServerEnds PROVE LokiFlow'
  BY <1>0, <1>6 DEF ServerEnds, Goto, mainVars, logVars, lokiVars, histories,
     Stages, LokiFlow, TypeOK
<1>7. ASSUME GracefulTimeout PROVE LokiFlow'
  BY <1>0, <1>7 DEF GracefulTimeout, Goto, mainVars, logVars, lokiVars, histories,
     Stages, LokiFlow, TypeOK
<1>8. ASSUME SignalLog PROVE LokiFlow'
  BY <1>0, <1>8 DEF SignalLog, Goto, mainVars, logVars, lokiVars, histories, Stages,
     LokiFlow, TypeOK
<1>9. ASSUME JoinLog PROVE LokiFlow'
  BY <1>0, <1>9 DEF JoinLog, Goto, mainVars, logVars, lokiVars, histories, Stages,
     LokiFlow, TypeOK
<1>10. ASSUME SignalLoki PROVE LokiFlow'
  <2>1. Elems(Append(lokiChan, Shutdown)) = Elems(lokiChan) \cup {Shutdown}
    BY <1>0, AppendFacts DEF TypeOK
  <2>2. QED
    BY <1>0, <1>10, <2>1
    DEF SignalLoki, Goto, mainVars, logVars, lokiVars, histories, Stages, LokiFlow,
        TypeOK
<1>11. ASSUME JoinLoki PROVE LokiFlow'
  BY <1>0, <1>11 DEF JoinLoki, Goto, mainVars, logVars, lokiVars, histories, Stages,
     LokiFlow, TypeOK
<1>12. ASSUME Exit PROVE LokiFlow'
  BY <1>0, <1>12 DEF Exit, Goto, mainVars, logVars, lokiVars, histories, Stages,
     LokiFlow, TypeOK
<1>13. ASSUME LogTake PROVE LokiFlow'
  BY <1>0, <1>13 DEF LogTake, mainVars, logVars, lokiVars, histories, Stages,
     LokiFlow, TypeOK
<1>14. ASSUME LogFlush PROVE LokiFlow'
  BY <1>0, <1>14 DEF LogFlush, mainVars, logVars, lokiVars, histories, Stages,
     LokiFlow, TypeOK
<1>15. ASSUME LogLast PROVE LokiFlow'
  BY <1>0, <1>15 DEF LogLast, mainVars, logVars, lokiVars, histories, Stages,
     LokiFlow, TypeOK
<1>16. ASSUME LogExit PROVE LokiFlow'
  BY <1>0, <1>16 DEF LogExit, mainVars, logVars, lokiVars, histories, Stages,
     LokiFlow, TypeOK
<1>17. ASSUME LokiTake PROVE LokiFlow'
  <2>1. Elems(lokiChan) = Elems(lokiChan') \cup {Head(lokiChan)} /\ Shutdown \notin lokiEarly
    BY <1>0, <1>17, TailFacts DEF LokiTake, TypeOK, ShutdownAssumption
  <2>2. QED
    BY <1>0, <1>17, <2>1
    DEF LokiTake, LokiFrame, mainVars, logVars, lokiVars, histories, Stages, LokiFlow,
        TypeOK
<1>18. ASSUME LokiInterval PROVE LokiFlow'
  BY <1>0, <1>18 DEF LokiInterval, Push, LokiFrame, mainVars, logVars, lokiVars,
     histories, Stages, LokiFlow, TypeOK
<1>19. ASSUME LokiCheck PROVE LokiFlow'
  <2>1. Elems(lokiChan) = {}
    BY <1>19, EmptyElems DEF LokiCheck
  <2>2. QED
    BY <1>0, <1>19, <2>1
    DEF LokiCheck, Push, LokiFrame, mainVars, logVars, lokiVars, histories, Stages,
        LokiFlow, TypeOK
<1>20. ASSUME LokiPushed PROVE LokiFlow'
  <2>1. Elems(lokiChan') \in {{}, Elems(lokiChan)} /\ (lokiRet # "gone" => lokiChan' = lokiChan)
    BY <1>20, EmptyElems DEF LokiPushed
  <2>2. QED
    BY <1>0, <1>20, <2>1
    DEF LokiPushed, LokiFrame, mainVars, logVars, lokiVars, histories, Stages,
        LokiFlow, TypeOK
<1>21. CASE UNCHANGED vars
  BY <1>0, <1>21 DEF vars, mainVars, logVars, lokiVars, histories, Stages, LokiFlow,
     TypeOK
<1>22. QED
  BY <1>1, <1>2, <1>3, <1>4, <1>5, <1>6, <1>7, <1>8, <1>9, <1>10, <1>11, <1>12,
     <1>13, <1>14, <1>15, <1>16, <1>17, <1>18, <1>19, <1>20, <1>21 DEF Next,
     MainStep, LogStep, LokiStep

\* No step puts a record into two places of the Loki worker's.
LEMMA LokiOnceStep ==
  ASSUME Inv, [Next]_vars
  PROVE  LokiOnce'
<1>0. TypeOK /\ LokiOnce /\ ShutdownAssumption
  BY ShutdownAssumption DEF Inv
<1>1. ASSUME NEW r \in Requests, Arrive(r) PROVE LokiOnce'
  <2>1. UNCHANGED <<pushed, unpushed, sending, lokiBuf, lokiChan>>
    BY <1>1 DEF Arrive, lokiVars
  <2>2. \A q : req[q] \in {"logging", "ended"} => req'[q] = req[q]
    BY <1>0, <1>1 DEF Arrive, TypeOK
  <2>3. QED
    BY <1>0, <2>1, <2>2 DEF LokiOnce
<1>2. ASSUME NEW r \in Requests, SendToLoki(r) PROVE LokiOnce'
  <2>1. Elems(Append(lokiChan, r)) = Elems(lokiChan) \cup {r} /\ r # Shutdown
    BY <1>0, AppendFacts DEF TypeOK, ShutdownAssumption
  <2>2. r \notin pushed \cup unpushed \cup sending \cup lokiBuf \cup Elems(lokiChan)
    BY <1>0, <1>2, <2>1 DEF SendToLoki, LokiOnce
  <2>3. Once(Append(lokiChan, r)) /\ Once(lokiChan)
    BY <1>0, <2>2, AppendOnce DEF TypeOK, LokiOnce
  <2>4. /\ \A q \in Requests : q # r => req'[q] = req[q]
        /\ req'[r] = "logging"
    BY <1>0, <1>2 DEF SendToLoki, TypeOK
  <2>5. /\ lokiChan' = lokiChan \/ lokiChan' = Append(lokiChan, r)
        /\ UNCHANGED <<pushed, unpushed, sending, lokiBuf>>
    BY <1>2 DEF SendToLoki
  <2>6. ASSUME NEW q \in pushed \cup unpushed \cup sending \cup lokiBuf
                          \cup (Elems(lokiChan') \ {Shutdown})
        PROVE  req'[q] \in {"logging", "ended"}
    <3>1. CASE q = r
      BY <2>4, <3>1
    <3>2. CASE q # r
      <4>1. q \in pushed \cup unpushed \cup sending \cup lokiBuf
                  \cup (Elems(lokiChan) \ {Shutdown})
        BY <2>1, <2>5, <2>6, <3>2
      <4>2. Elems(lokiChan) \subseteq Requests \cup {Shutdown}
        BY <1>0 DEF TypeOK, Elems
      <4>3. q \in Requests
        BY <1>0, <4>1, <4>2 DEF TypeOK
      <4>4. req'[q] = req[q]
        BY <2>4, <3>2, <4>3
      <4>5. QED
        BY <1>0, <4>1, <4>4 DEF LokiOnce
    <3>3. QED
      BY <3>1, <3>2
  <2>7. QED
    BY <1>0, <2>1, <2>2, <2>3, <2>5, <2>6 DEF LokiOnce
<1>3. ASSUME NEW r \in Requests, SendToLog(r) PROVE LokiOnce'
  <2>1. UNCHANGED <<pushed, unpushed, sending, lokiBuf, lokiChan>>
    BY <1>3 DEF SendToLog, lokiVars
  <2>2. \A q : req[q] \in {"logging", "ended"} => req'[q] \in {"logging", "ended"}
    BY <1>0, <1>3 DEF SendToLog, TypeOK
  <2>3. QED
    BY <1>0, <2>1, <2>2 DEF LokiOnce
<1>4. ASSUME Signal PROVE LokiOnce'
  BY <1>0, <1>4 DEF Signal, Goto, mainVars, logVars, lokiVars, histories, LokiOnce
<1>5. ASSUME Listen PROVE LokiOnce'
  BY <1>0, <1>5 DEF Listen, Goto, mainVars, logVars, lokiVars, histories, LokiOnce
<1>6. ASSUME ServerEnds PROVE LokiOnce'
  BY <1>0, <1>6 DEF ServerEnds, Goto, mainVars, logVars, lokiVars, histories,
     LokiOnce
<1>7. ASSUME GracefulTimeout PROVE LokiOnce'
  BY <1>0, <1>7 DEF GracefulTimeout, Goto, mainVars, logVars, lokiVars, histories,
     LokiOnce
<1>8. ASSUME SignalLog PROVE LokiOnce'
  BY <1>0, <1>8 DEF SignalLog, Goto, mainVars, logVars, lokiVars, histories,
     LokiOnce
<1>9. ASSUME JoinLog PROVE LokiOnce'
  BY <1>0, <1>9 DEF JoinLog, Goto, mainVars, logVars, lokiVars, histories, LokiOnce
<1>10. ASSUME SignalLoki PROVE LokiOnce'
  <2>1. Elems(Append(lokiChan, Shutdown)) = Elems(lokiChan) \cup {Shutdown}
    BY <1>0, AppendFacts DEF TypeOK
  <2>2. Shutdown \notin pushed \cup unpushed \cup sending \cup lokiBuf
    BY <1>0 DEF TypeOK, ShutdownAssumption
  <2>3. Once(Append(lokiChan, Shutdown)) /\ Once(lokiChan)
    BY <1>0, AppendOnce DEF TypeOK, LokiOnce
  <2>4. QED
    BY <1>0, <1>10, <2>1, <2>2, <2>3 DEF SignalLoki, LokiOnce, logVars
<1>11. ASSUME JoinLoki PROVE LokiOnce'
  BY <1>0, <1>11 DEF JoinLoki, Goto, mainVars, logVars, lokiVars, histories,
     LokiOnce
<1>12. ASSUME Exit PROVE LokiOnce'
  BY <1>0, <1>12 DEF Exit, Goto, mainVars, logVars, lokiVars, histories, LokiOnce
<1>13. ASSUME LogTake PROVE LokiOnce'
  BY <1>0, <1>13 DEF LogTake, mainVars, logVars, lokiVars, histories, LokiOnce
<1>14. ASSUME LogFlush PROVE LokiOnce'
  BY <1>0, <1>14 DEF LogFlush, mainVars, logVars, lokiVars, histories, LokiOnce
<1>15. ASSUME LogLast PROVE LokiOnce'
  BY <1>0, <1>15 DEF LogLast, mainVars, logVars, lokiVars, histories, LokiOnce
<1>16. ASSUME LogExit PROVE LokiOnce'
  BY <1>0, <1>16 DEF LogExit, mainVars, logVars, lokiVars, histories, LokiOnce
<1>17. ASSUME LokiTake PROVE LokiOnce'
  <2>1. Elems(lokiChan) = Elems(lokiChan') \cup {Head(lokiChan)} /\ Shutdown \notin lokiEarly
    BY <1>0, <1>17, TailFacts DEF LokiTake, TypeOK, ShutdownAssumption
  <2>2. /\ Once(lokiChan')
        /\ Head(lokiChan) # Shutdown => Head(lokiChan) \notin Elems(lokiChan')
    BY <1>0, <1>17, TailOnce DEF LokiTake, TypeOK, LokiOnce
  <2>3. UNCHANGED <<req, pushed, unpushed, sending>>
    BY <1>17 DEF LokiTake, LokiFrame
  <2>4. CASE Head(lokiChan) = Shutdown
    BY <1>0, <1>17, <2>1, <2>2, <2>3, <2>4 DEF LokiTake, LokiOnce
  <2>5. CASE Head(lokiChan) # Shutdown
    <3>1. lokiBuf' = lokiBuf \cup {Head(lokiChan)}
      BY <1>17, <2>5 DEF LokiTake
    <3>2. QED
      BY <1>0, <2>1, <2>2, <2>3, <2>5, <3>1 DEF LokiOnce
  <2>6. QED
    BY <2>4, <2>5
<1>18. ASSUME LokiInterval PROVE LokiOnce'
  <2>1. sending = {}
    BY <1>0, <1>18 DEF LokiInterval, TypeOK
  <2>2. QED
    BY <1>0, <1>18, <2>1 DEF LokiInterval, Push, LokiFrame, LokiOnce
<1>19. ASSUME LokiCheck PROVE LokiOnce'
  <2>1. sending = {}
    BY <1>0, <1>19 DEF LokiCheck, TypeOK
  <2>2. QED
    BY <1>0, <1>19, <2>1 DEF LokiCheck, Push, LokiFrame, LokiOnce
<1>20. ASSUME LokiPushed PROVE LokiOnce'
  <2>1. Elems(lokiChan') \subseteq Elems(lokiChan) /\ Once(lokiChan')
    BY <1>0, <1>20, EmptyElems DEF LokiPushed, LokiOnce
  <2>2. QED
    BY <1>0, <1>20, <2>1 DEF LokiPushed, LokiFrame, LokiOnce
<1>21. CASE UNCHANGED vars
  BY <1>0, <1>21 DEF vars, mainVars, logVars, lokiVars, histories, LokiOnce
<1>22. QED
  BY <1>1, <1>2, <1>3, <1>4, <1>5, <1>6, <1>7, <1>8, <1>9, <1>10, <1>11, <1>12,
     <1>13, <1>14, <1>15, <1>16, <1>17, <1>18, <1>19, <1>20, <1>21 DEF Next,
     MainStep, LogStep, LokiStep

\* The invariant holds in every reachable state.
LEMMA Invariance == Spec => []Inv
<1>1. Init => Inv
  BY InitInv
<1>2. Inv /\ [Next]_vars => Inv'
  BY TypeStep, StagesStep, LogFlowStep, GracefulStep, LokiFlowStep, LokiOnceStep DEF Inv
<1>3. QED
  BY <1>1, <1>2, PTL DEF Spec

-----------------------------------------------------------------------------
(* theorems *)

\* main(), the requests and the two workers keep the types of their state and
\* the capacities of the channels.
THEOREM TypeCorrect == Spec => []TypeOK
<1>1. Inv => TypeOK
  BY DEF Inv
<1>2. QED
  BY <1>1, Invariance, PTL

\* Whatever the order of signals, timeouts, requests and workers: when the process
\* ends, every record that a worker's channel took before LogManager::shutdown
\* (log) or LokiSink::signal_shutdown (Loki) is stored, or pushed once, provided
\* that the worker was sent its Shutdown; and a graceful exit has stored every
\* record but those the full log channel refused.
THEOREM NothingLostAtExit == Spec => []RecordsSurvive
<1>1. ASSUME Inv PROVE StoredAtExit
  <2>1. SUFFICES ASSUME main = "exit", "log" \in delivered
                 PROVE  /\ logEarly \subseteq stored
                        /\ ~forced => \A r \in Requests :
                                        req[r] = "none" \/ r \in stored \cup refused
    BY DEF StoredAtExit
  <2>2. logEarly \subseteq stored
    BY <1>1, <2>1 DEF Inv, Stages, LogFlow
  <2>3. ASSUME ~forced, NEW r \in Requests
        PROVE  req[r] = "none" \/ r \in stored \cup refused
    BY <1>1, <2>1, <2>2, <2>3 DEF Inv, Graceful, Early
  <2>4. QED
    BY <2>2, <2>3
<1>2. ASSUME Inv PROVE PushedAtExit
  <2>1. main = "exit" /\ "loki" \in delivered => lokiPc = "gone"
    BY <1>2 DEF Inv, Stages
  <2>2. QED
    BY <1>2, <2>1 DEF Inv, LokiFlow, LokiOnce, PushedAtExit
<1>3. Inv => RecordsSurvive
  BY <1>1, <1>2 DEF RecordsSurvive
<1>4. QED
  BY <1>3, Invariance, PTL
=============================================================================
