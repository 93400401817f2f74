-------------------------- MODULE BotProcessProofs --------------------------
(***************************************************************************)
(* Proofs about a bot's subprocesses and the portal's handlers             *)
(* (BotProcess), for any pids, handlers, requests and faults, and about    *)
(* how an engine leaves its deals (Exits), for any prices, distances and   *)
(* numbers of orders and deals.                                            *)
(***************************************************************************)
EXTENDS BotProcess, Exits, TLAPS

-----------------------------------------------------------------------------
\* The inductive invariant of BotProcess.

\* One start_bot at a time waits for its child.
OneWaits == \A g, h \in Handlers : pc[g] = "waiting" /\ pc[h] = "waiting" => g = h

\* A target that has got its SIGKILL is dead, and its pid is not used again.
Killed == \A h \in Handlers : pc[h] = "kill" => state[target[h]] \in {"zombie", "gone"}

\* Where a handler is follows from what it was asked.
Asked ==
    \A h \in Handlers :
        /\ pc[h] \in {"start", "waiting"} => op[h] \in {"start", "restart"}
        /\ pc[h] \in {"stop", "term", "kill"} => op[h] \in {"stop", "restart"}
        /\ pc[h] = "settle" => op[h] = "restart"

\* Only starts overlap.
Alone ==
    \A g, h \in Handlers :
        g # h /\ pc[g] # "idle" /\ pc[h] # "idle" => op[g] = "start" /\ op[h] = "start"

\* The pid file is that of the subprocess that has written it and not ended,
\* or of the one a stop under way has ended.
PidNamed ==
    /\ \A p \in Pids : state[p] \in {"load", "serve", "term"} => pidFile = p
    /\ pidFile # NoPid =>
           \/ state[pidFile] \in {"load", "serve", "term"}
           \/ \E h \in Handlers : pc[h] \in {"term", "kill"} /\ target[h] = pidFile
    /\ \A h \in Handlers : pc[h] \in {"term", "kill"} => pidFile \in {NoPid, target[h]}

\* A subprocess that boots has its start waiting for it, and no pid file.
Awaited ==
    \A p \in Pids :
        state[p] = "boot" =>
            /\ pidFile = NoPid
            /\ \E h \in Handlers : pc[h] = "waiting" /\ target[h] = p

Order == Alone /\ PidNamed /\ Awaited

PInv == TypeOK /\ OneWaits /\ Killed /\ Asked /\ (orderly => Order)

-----------------------------------------------------------------------------
\* Step lemmas, one for each conjunct.

\* Nothing runs and nothing is asked at first.
LEMMA ProcessInit == Init => PInv
<1> USE ConstantsAssumption
<1> SUFFICES ASSUME Init PROVE PInv
  OBVIOUS
<1>1. TypeOK
  BY DEF Init, TypeOK, Life
<1>2. OneWaits /\ Killed /\ Asked
  BY DEF Init, OneWaits, Killed, Asked
<1>3. Order
  BY DEF Init, Order, Alone, PidNamed, Awaited
<1> QED BY <1>1, <1>2, <1>3 DEF PInv

\* The types and the life of the start slot.
LEMMA SlotStep == TypeOK /\ OneWaits /\ [Next]_vars => TypeOK' /\ OneWaits'
<1> SUFFICES ASSUME TypeOK, OneWaits, [Next]_vars PROVE TypeOK' /\ OneWaits'
  OBVIOUS
<1> USE ConstantsAssumption DEF OneWaits
<1>1. ASSUME NEW p \in Pids, Process(p)
      PROVE  TypeOK' /\ OneWaits'
  <2>1. UNCHANGED <<children, handlerVars, starting>>
    BY <1>1 DEF Process, WritePid, EnterLoop, LeaveLoop, AtExit, Exits, Crashes
  <2>2. state' \in [Pids -> Life] /\ pidFile' \in Pids \cup {NoPid} /\ orderly' \in BOOLEAN
    BY <1>1 DEF Process, WritePid, EnterLoop, LeaveLoop, AtExit, Exits, Crashes, Moves,
                Ended, Life, TypeOK
  <2> QED BY <2>1, <2>2 DEF TypeOK, handlerVars
<1>2. ASSUME NEW h \in Handlers, Start(h)
      PROVE  TypeOK' /\ OneWaits'
  <2>1. CASE Refuse(h)
    BY <1>2, <2>1 DEF Start, Refuse, Reset, Become, processVars, TypeOK
  <2>2. ASSUME NEW p \in Pids, Spawn(h, p), UNCHANGED op
        PROVE  TypeOK' /\ OneWaits'
    <3>1. state' \in [Pids -> Life] /\ children' \in SUBSET Pids
      BY <2>2 DEF Spawn, Collected, Life, TypeOK
    <3>2. /\ pc' = [pc EXCEPT ![h] = "waiting"] /\ target' = [target EXCEPT ![h] = p]
          /\ starting' = TRUE /\ ~starting /\ UNCHANGED <<pidFile, orderly>>
      BY <2>2 DEF Spawn, Become
    <3> QED BY <1>2, <2>2, <3>1, <3>2 DEF TypeOK
  <2> QED BY <1>2, <2>1, <2>2 DEF Start
<1>3. ASSUME NEW h \in Handlers, StartReturns(h)
      PROVE  TypeOK' /\ OneWaits'
  <2>1. state' \in [Pids -> Life]
    BY <1>3 DEF StartReturns, Life, TypeOK
  <2>2. orderly' \in BOOLEAN
    BY <1>3 DEF StartReturns, TypeOK
  <2>3. /\ pc[h] = "waiting"
        /\ pc' = [pc EXCEPT ![h] = "idle"] /\ target' = [target EXCEPT ![h] = NoPid]
        /\ op' = [op EXCEPT ![h] = "none"]
        /\ starting' = FALSE /\ UNCHANGED <<children, pidFile>>
    BY <1>3 DEF StartReturns, Reset, Become
  <2> QED BY <2>1, <2>2, <2>3 DEF TypeOK
<1>4. ASSUME NEW h \in Handlers, StopNothing(h) \/ StopReturns(h)
      PROVE  TypeOK' /\ OneWaits'
  <2>1. pc[h] \in {"stop", "kill", "term"} /\ pidFile' \in Pids \cup {NoPid}
        /\ UNCHANGED <<processVars, starting, orderly>>
    BY <1>4 DEF StopNothing, StopReturns, TypeOK
  <2>2. /\ pc' = [pc EXCEPT ![h] = "settle"] \/ pc' = [pc EXCEPT ![h] = "idle"]
        /\ target' = [target EXCEPT ![h] = NoPid]
        /\ op' = op \/ op' = [op EXCEPT ![h] = "none"]
    BY <1>4 DEF StopNothing, StopReturns, StopAnswers, Reset, Become
  <2> QED BY <2>1, <2>2 DEF TypeOK, processVars
<1>5. ASSUME NEW h \in Handlers, StopSignals(h)
      PROVE  TypeOK' /\ OneWaits'
  <2>1. pidFile \in Pids
    BY <1>5 DEF StopSignals, Running, TypeOK
  <2>2. state' \in [Pids -> Life]
    BY <1>5, <2>1 DEF StopSignals, Terminated, Ended, Life, TypeOK
  <2> QED BY <1>5, <2>1, <2>2 DEF StopSignals, Become, TypeOK
<1>6. ASSUME NEW h \in Handlers, StopEscalates(h)
      PROVE  TypeOK' /\ OneWaits'
  <2>1. target[h] \in Pids
    BY <1>6 DEF StopEscalates, TypeOK
  <2>2. state' \in [Pids -> Life]
    BY <1>6, <2>1 DEF StopEscalates, Ended, Life, TypeOK
  <2> QED BY <1>6, <2>1, <2>2 DEF StopEscalates, Become, TypeOK
<1>7. ASSUME NEW h \in Handlers, Settle(h)
      PROVE  TypeOK' /\ OneWaits'
  BY <1>7 DEF Settle, Become, processVars, TypeOK
<1>8. ASSUME NEW h \in Handlers, NEW r \in Requests, Request(h, r)
      PROVE  TypeOK' /\ OneWaits'
  <2>1. orderly' \in BOOLEAN
    BY <1>8 DEF Request, TypeOK
  <2>2. r \in {"start", "stop", "restart"}
    OBVIOUS
  <2> QED BY <1>8, <2>1, <2>2 DEF Request, Become, processVars, TypeOK
<1>9. CASE OtherPopen
  BY <1>9 DEF OtherPopen, Collected, handlerVars, Life, TypeOK
<1>10. CASE PortalRestarts
  BY <1>10 DEF PortalRestarts, Life, TypeOK
<1>11. CASE UNCHANGED vars
  BY <1>11 DEF vars, processVars, handlerVars, TypeOK
<1> QED BY <1>1, <1>2, <1>3, <1>4, <1>5, <1>6, <1>7, <1>8, <1>9, <1>10, <1>11
        DEF Next, Handle, BulkRequest

\* No pid that a handler refers to is given to a new subprocess, and nobody
\* revives a dead one.
LEMMA KilledStep == TypeOK /\ Killed /\ [Next]_vars => Killed'
<1> SUFFICES ASSUME TypeOK, Killed, [Next]_vars PROVE Killed'
  OBVIOUS
<1> USE ConstantsAssumption DEF Killed
<1>1. ASSUME NEW p \in Pids, Process(p)
      PROVE  Killed'
  BY <1>1 DEF Process, WritePid, EnterLoop, LeaveLoop, AtExit, Exits, Crashes, Moves,
              Ended, Executing, handlerVars, TypeOK
<1>2. ASSUME NEW h \in Handlers, Start(h)
      PROVE  Killed'
  <2>1. CASE Refuse(h)
    BY <2>1 DEF Refuse, Reset, Become, processVars, TypeOK
  <2>2. ASSUME NEW p \in Pids, Spawn(h, p)
        PROVE  Killed'
    <3>1. /\ \A g \in Handlers : target[g] # p
          /\ pc' = [pc EXCEPT ![h] = "waiting"] /\ target' = [target EXCEPT ![h] = p]
      BY <2>2 DEF Spawn, Fresh, Become
    <3>2. \A q \in Pids : q # p /\ state[q] \in {"zombie", "gone"}
                             => state'[q] \in {"zombie", "gone"}
      BY <2>2 DEF Spawn, Collected, TypeOK
    <3>3. \A g \in Handlers : pc[g] = "kill" => target[g] \in Pids
      BY DEF TypeOK
    <3> QED BY <3>1, <3>2, <3>3 DEF TypeOK
  <2> QED BY <1>2, <2>1, <2>2 DEF Start
<1>3. ASSUME NEW h \in Handlers, StartReturns(h)
      PROVE  Killed'
  BY <1>3 DEF StartReturns, Reset, Become, TypeOK
<1>4. ASSUME NEW h \in Handlers, StopNothing(h) \/ StopReturns(h)
      PROVE  Killed'
  BY <1>4 DEF StopNothing, StopReturns, StopAnswers, Reset, Become, processVars, TypeOK
<1>5. ASSUME NEW h \in Handlers, StopSignals(h)
      PROVE  Killed'
  <2>1. /\ pidFile \in Pids /\ state' = [state EXCEPT ![pidFile] = Terminated(pidFile)]
        /\ pc[h] = "stop" /\ pc' = [pc EXCEPT ![h] = "term"]
        /\ target' = [target EXCEPT ![h] = pidFile]
    BY <1>5 DEF StopSignals, Running, Become, TypeOK
  <2>2. state[pidFile] \in {"zombie", "gone"} => Terminated(pidFile) = state[pidFile]
    BY DEF Terminated
  <2>3. \A p \in Pids : state[p] \in {"zombie", "gone"} => state'[p] \in {"zombie", "gone"}
    BY <2>1, <2>2 DEF TypeOK
  <2> QED BY <2>1, <2>3 DEF TypeOK
<1>6. ASSUME NEW h \in Handlers, StopEscalates(h)
      PROVE  Killed'
  <2>1. target[h] \in Pids /\ state[target[h]] \in Executing \cup {"zombie"}
    BY <1>6 DEF StopEscalates, PidAlive, TypeOK
  <2>2. state' = [state EXCEPT ![target[h]] =
                     IF @ \in Executing THEN Ended(target[h]) ELSE @]
        /\ pc' = [pc EXCEPT ![h] = "kill"] /\ target' = target
    BY <1>6 DEF StopEscalates, Become
  <2>3. state'[target[h]] \in {"zombie", "gone"}
    BY <2>1, <2>2 DEF Ended, TypeOK
  <2>4. \A p \in Pids : state[p] \in {"zombie", "gone"} => state'[p] \in {"zombie", "gone"}
    BY <2>1, <2>2 DEF Ended, TypeOK
  <2> QED BY <2>2, <2>3, <2>4 DEF TypeOK
<1>7. ASSUME NEW h \in Handlers, Settle(h)
      PROVE  Killed'
  BY <1>7 DEF Settle, Become, processVars, TypeOK
<1>8. ASSUME NEW h \in Handlers, NEW r \in Requests, Request(h, r)
      PROVE  Killed'
  BY <1>8 DEF Request, Become, processVars, TypeOK
<1>9. CASE OtherPopen
  BY <1>9 DEF OtherPopen, Collected, handlerVars, TypeOK
<1>10. CASE PortalRestarts
  BY <1>10 DEF PortalRestarts
<1>11. CASE UNCHANGED vars
  BY <1>11 DEF vars, processVars, handlerVars
<1> QED BY <1>1, <1>2, <1>3, <1>4, <1>5, <1>6, <1>7, <1>8, <1>9, <1>10, <1>11
        DEF Next, Handle, BulkRequest

\* A handler only gets to where its request takes it.
LEMMA AskedStep == TypeOK /\ Asked /\ [Next]_vars => Asked'
<1> SUFFICES ASSUME TypeOK, Asked, [Next]_vars PROVE Asked'
  OBVIOUS
<1> USE ConstantsAssumption DEF Asked, TypeOK
<1>1. ASSUME NEW p \in Pids, Process(p)
      PROVE  Asked'
  BY <1>1 DEF Process, WritePid, EnterLoop, LeaveLoop, AtExit, Exits, Crashes, handlerVars
<1>2. ASSUME NEW h \in Handlers, Start(h) \/ StartReturns(h)
      PROVE  Asked'
  BY <1>2 DEF Start, Refuse, Spawn, StartReturns, Reset, Become
<1>3. ASSUME NEW h \in Handlers, StopNothing(h) \/ StopReturns(h)
      PROVE  Asked'
  BY <1>3 DEF StopNothing, StopReturns, StopAnswers, Reset, Become
<1>4. ASSUME NEW h \in Handlers, StopSignals(h) \/ StopEscalates(h)
      PROVE  Asked'
  BY <1>4 DEF StopSignals, StopEscalates, Become
<1>5. ASSUME NEW h \in Handlers, Settle(h)
      PROVE  Asked'
  BY <1>5 DEF Settle, Become
<1>6. ASSUME NEW h \in Handlers, NEW r \in Requests, Request(h, r)
      PROVE  Asked'
  <2>1. r \in {"start", "stop", "restart"}
    OBVIOUS
  <2> QED BY <1>6, <2>1 DEF Request, Become
<1>7. CASE OtherPopen
  BY <1>7 DEF OtherPopen, handlerVars
<1>8. CASE PortalRestarts
  BY <1>8 DEF PortalRestarts
<1>9. CASE UNCHANGED vars
  BY <1>9 DEF vars, handlerVars
<1> QED BY <1>1, <1>2, <1>3, <1>4, <1>5, <1>6, <1>7, <1>8, <1>9
        DEF Next, Handle, BulkRequest

\* The orderly behaviours.
LEMMA OrderStep ==
    ASSUME TypeOK, OneWaits, Killed, Asked, Order, orderly, [Next]_vars, orderly'
    PROVE  Order'
<1> USE ConstantsAssumption DEF Order
<1>1. ASSUME NEW p \in Pids, Process(p)
      PROVE  Order'
  <2>1. /\ UNCHANGED <<children, handlerVars, starting>>
        /\ Alone'
    BY <1>1 DEF Process, WritePid, EnterLoop, LeaveLoop, AtExit, Exits, Crashes, handlerVars,
                Alone
  <2>2. CASE WritePid(p)
    <3>1. PICK g \in Handlers : pc[g] = "waiting" /\ target[g] = p
      BY <2>2 DEF WritePid, Moves, Awaited
    <3>2. pidFile = NoPid /\ pidFile' = p /\ state[p] = "boot"
          /\ state' = [state EXCEPT ![p] = "load"]
      BY <2>2 DEF WritePid, Moves, Awaited
    <3>3. \A h \in Handlers : pc[h] \notin {"term", "kill"}
      BY <3>1 DEF Alone, Asked, TypeOK
    <3>4. PidNamed'
      BY <2>1, <3>2, <3>3 DEF PidNamed, handlerVars, TypeOK
    <3>5. Awaited'
      BY <2>1, <3>1, <3>2 DEF Awaited, OneWaits, handlerVars, TypeOK
    <3> QED BY <2>1, <3>4, <3>5
  <2>3. CASE EnterLoop(p) \/ LeaveLoop(p)
    BY <2>1, <2>3 DEF EnterLoop, LeaveLoop, Moves, PidNamed, Awaited, handlerVars, TypeOK
  <2>4. CASE AtExit(p)
    <3>1. pidFile = p /\ pidFile' = NoPid /\ state' = [state EXCEPT ![p] = "left"]
      BY <2>4 DEF AtExit, Moves, PidNamed
    <3> QED BY <2>1, <3>1 DEF PidNamed, Awaited, handlerVars, TypeOK
  <2>5. CASE Exits(p)
    BY <2>1, <2>5 DEF Exits, Moves, Ended, PidNamed, Awaited, handlerVars, TypeOK
  <2>6. CASE Crashes(p)
    BY <2>6 DEF Crashes
  <2> QED BY <1>1, <2>2, <2>3, <2>4, <2>5, <2>6 DEF Process
<1>2. ASSUME NEW h \in Handlers, Start(h)
      PROVE  Order'
  <2>1. CASE Refuse(h)
    BY <1>2, <2>1 DEF Start, Refuse, Reset, Become, processVars, Alone, PidNamed, Awaited,
       Asked, TypeOK
  <2>2. ASSUME NEW p \in Pids, Spawn(h, p), UNCHANGED op
        PROVE  Order'
    <3>1. \A g \in Handlers : pc[g] \notin {"term", "kill", "waiting"}
      BY <1>2, <2>2 DEF Start, Spawn, Alone, Asked, TypeOK
    <3>2. pidFile = NoPid
      BY <2>2, <3>1 DEF Spawn, Running, PidAlive, Executing, PidNamed
    <3>3. \A q \in Pids : state[q] \notin {"boot", "load", "serve", "term"}
      BY <3>1, <3>2 DEF PidNamed, Awaited
    <3>4. \A q \in Pids : q # p => state'[q] \notin {"boot", "load", "serve", "term"}
      BY <2>2, <3>3 DEF Spawn, Collected, TypeOK
    <3>5. state'[p] = "boot"
      BY <2>2 DEF Spawn, Collected, TypeOK
    <3>6. pc' = [pc EXCEPT ![h] = "waiting"] /\ target' = [target EXCEPT ![h] = p]
          /\ pidFile' = pidFile
      BY <2>2 DEF Spawn, Become
    <3>7. Alone'
      BY <1>2, <2>2, <3>6 DEF Start, Alone, TypeOK
    <3>8. PidNamed'
      BY <3>1, <3>2, <3>4, <3>5, <3>6 DEF PidNamed, TypeOK
    <3>9. Awaited'
      BY <3>2, <3>4, <3>5, <3>6 DEF Awaited, TypeOK
    <3> QED BY <3>7, <3>8, <3>9
  <2> QED BY <1>2, <2>1, <2>2 DEF Start
<1>3. ASSUME NEW h \in Handlers, StartReturns(h)
      PROVE  Order'
  <2>1. /\ pc[h] = "waiting"
        /\ pidFile # NoPid \/ state[target[h]] # "boot"
        /\ pidFile' = pidFile
        /\ state' = [p \in Pids |-> IF p = target[h] /\ state[p] = "zombie"
                                   THEN "gone" ELSE state[p]]
        /\ pc' = [pc EXCEPT ![h] = "idle"] /\ target' = [target EXCEPT ![h] = NoPid]
        /\ op' = [op EXCEPT ![h] = "none"]
    BY <1>3 DEF StartReturns, Reset, Become
  <2>2. \A p \in Pids : state[p] # "boot"
    BY <2>1 DEF Awaited, OneWaits
  <2>3. Alone' /\ Awaited'
    BY <2>1, <2>2 DEF Alone, Awaited, TypeOK
  <2>4. PidNamed'
    BY <2>1 DEF PidNamed, TypeOK
  <2> QED BY <2>3, <2>4
<1>4. ASSUME NEW h \in Handlers, StopNothing(h) \/ StopReturns(h)
      PROVE  Order'
  <2>1. /\ pc[h] \in {"stop", "kill", "term"}
        /\ pidFile' = NoPid \/ (StopNothing(h) /\ pidFile' = pidFile)
        /\ state' = state
    BY <1>4 DEF StopNothing, StopReturns, processVars
  <2>2. /\ pc' = [pc EXCEPT ![h] = "settle"] \/ pc' = [pc EXCEPT ![h] = "idle"]
        /\ target' = [target EXCEPT ![h] = NoPid]
        /\ op' = op \/ op' = [op EXCEPT ![h] = "none"]
        /\ op' # op => pc' = [pc EXCEPT ![h] = "idle"]
    BY <1>4 DEF StopNothing, StopReturns, StopAnswers, Reset, Become
  <2>3. Alone'
    BY <2>1, <2>2 DEF Alone, TypeOK
  <2>4. \A p \in Pids : state[p] \notin {"load", "serve", "term"}
    <3>1. CASE StopNothing(h)
      BY <3>1 DEF StopNothing, Running, PidAlive, Executing, PidNamed
    <3>2. CASE StopReturns(h)
      <4>1. /\ target[h] \in Pids /\ pidFile \in {NoPid, target[h]}
            /\ state[target[h]] \notin {"load", "serve", "term"}
        BY <3>2 DEF StopReturns, PidAlive, Executing, Killed, PidNamed, TypeOK
      <4> QED BY <4>1 DEF PidNamed
    <3> QED BY <1>4, <3>1, <3>2
  <2>5. \A p \in Pids : state[p] # "boot"
    BY <2>1 DEF Awaited, Alone, Asked, TypeOK
  <2>6. \A g \in Handlers : g # h => pc[g] = "idle"
    BY <2>1 DEF Alone, Asked
  <2>7. pidFile' = NoPid
    <3>1. CASE StopNothing(h)
      <4>1. pidFile # NoPid => state[pidFile] \in {"load", "serve", "term"}
        BY <3>1, <2>6 DEF StopNothing, PidNamed
      <4>2. pidFile \in Pids \cup {NoPid}
        BY DEF TypeOK
      <4> QED BY <2>1, <2>4, <4>1, <4>2
    <3> QED BY <2>1, <3>1
  <2>8. PidNamed' /\ Awaited'
    BY <2>1, <2>4, <2>5, <2>7 DEF PidNamed, Awaited
  <2> QED BY <2>3, <2>8
<1>5. ASSUME NEW h \in Handlers, StopSignals(h)
      PROVE  Order'
  <2>1. /\ pc[h] = "stop" /\ pidFile \in Pids /\ pidFile' = pidFile
        /\ state' = [state EXCEPT ![pidFile] = Terminated(pidFile)]
        /\ target' = [target EXCEPT ![h] = pidFile]
        /\ pc' = [pc EXCEPT ![h] = "term"] /\ op' = op
    BY <1>5 DEF StopSignals, Running, Become, TypeOK
  <2>2. \A g \in Handlers : g # h => pc[g] = "idle"
    BY <2>1 DEF Alone, Asked
  <2>3. Alone'
    BY <2>1 DEF Alone, TypeOK
  <2>4. \A p \in Pids : p # pidFile => state[p] \notin {"boot", "load", "serve", "term"}
    BY <2>1 DEF PidNamed, Awaited
  <2>5. state[pidFile] # "boot" /\ state'[pidFile] # "boot"
    BY <2>1 DEF Awaited, Terminated, Ended, TypeOK
  <2>6. \A p \in Pids : p # pidFile => state'[p] \notin {"boot", "load", "serve", "term"}
    BY <2>1, <2>4 DEF TypeOK
  <2>7. PidNamed'
    BY <2>1, <2>2, <2>6 DEF PidNamed, TypeOK
  <2>8. Awaited'
    BY <2>5, <2>6 DEF Awaited
  <2> QED BY <2>3, <2>7, <2>8
<1>6. ASSUME NEW h \in Handlers, StopEscalates(h)
      PROVE  Order'
  <2>1. /\ pc[h] = "term" /\ target[h] \in Pids
        /\ state' = [state EXCEPT ![target[h]] =
                        IF @ \in Executing THEN Ended(target[h]) ELSE @]
        /\ pc' = [pc EXCEPT ![h] = "kill"] /\ UNCHANGED <<op, target, pidFile>>
    BY <1>6 DEF StopEscalates, PidAlive, Become, TypeOK
  <2>2. \A p \in Pids : state'[p] \in {"boot", "load", "serve", "term"} => state'[p] = state[p]
    BY <2>1 DEF Ended, TypeOK
  <2>3. Alone' /\ Awaited'
    BY <2>1, <2>2 DEF Alone, Awaited, TypeOK
  <2>4. PidNamed'
    <3>1. pidFile \in {NoPid, target[h]}
      BY <2>1 DEF PidNamed
    <3> QED BY <2>1, <2>2, <3>1 DEF PidNamed, TypeOK
  <2> QED BY <2>3, <2>4
<1>7. ASSUME NEW h \in Handlers, Settle(h)
      PROVE  Order'
  BY <1>7 DEF Settle, Become, processVars, Alone, PidNamed, Awaited, TypeOK
<1>8. ASSUME NEW h \in Handlers, NEW r \in Requests, Request(h, r)
      PROVE  Order'
  <2>1. /\ pc[h] = "idle" /\ op' = [op EXCEPT ![h] = r]
        /\ pc' = [pc EXCEPT ![h] = IF r = "start" THEN "start" ELSE "stop"]
        /\ UNCHANGED <<state, target, pidFile>>
    BY <1>8 DEF Request, Become, processVars
  <2>2. \A g \in Handlers : pc[g] # "idle" => r = "start" /\ op[g] = "start"
    <3>1. orderly' = (orderly /\ \A g \in Handlers : pc[g] # "idle" =>
                                r = "start" /\ op[g] = "start")
      BY <1>8 DEF Request
    <3> QED BY <3>1, Zenon
  <2>3. Alone'
    BY <2>1, <2>2 DEF Alone, TypeOK
  <2>4. PidNamed' /\ Awaited'
    BY <2>1 DEF PidNamed, Awaited, TypeOK
  <2> QED BY <2>3, <2>4
<1>9. CASE OtherPopen
  <2>1. UNCHANGED <<children, handlerVars, pidFile, starting, orderly>>
        /\ \A p \in Pids : state'[p] = state[p] \/ (state[p] = "zombie" /\ state'[p] = "gone")
    BY <1>9 DEF OtherPopen, Collected, TypeOK
  <2>2. \A p \in Pids : state'[p] \in {"boot", "load", "serve", "term"} <=>
                         state[p] \in {"boot", "load", "serve", "term"}
    BY <2>1
  <2> QED BY <2>1, <2>2 DEF Alone, PidNamed, Awaited, handlerVars, TypeOK
<1>10. CASE PortalRestarts
  BY <1>10 DEF PortalRestarts
<1>11. CASE UNCHANGED vars
  BY <1>11 DEF vars, processVars, handlerVars, Alone, PidNamed, Awaited
<1> QED BY <1>1, <1>2, <1>3, <1>4, <1>5, <1>6, <1>7, <1>8, <1>9, <1>10, <1>11
        DEF Next, Handle, BulkRequest

\* Disorder is for good.
LEMMA OrderlyStep == TypeOK /\ [Next]_vars /\ orderly' => orderly
<1> SUFFICES ASSUME TypeOK, [Next]_vars, orderly' PROVE orderly
  OBVIOUS
<1>1. ASSUME NEW h \in Handlers, StartReturns(h)
      PROVE  orderly
  <2>1. orderly' = (orderly /\ (pidFile # NoPid \/ state[target[h]] # "boot"))
    BY <1>1 DEF StartReturns
  <2> QED BY <2>1, Zenon
<1>2. ASSUME NEW h \in Handlers, NEW r \in Requests, Request(h, r)
      PROVE  orderly
  <2>1. orderly' = (orderly /\ \A g \in Handlers : pc[g] # "idle" =>
                                r = "start" /\ op[g] = "start")
    BY <1>2 DEF Request
  <2> QED BY <2>1, Zenon
<1> QED BY <1>1, <1>2 DEF Next, Process, Handle, BulkRequest, WritePid, EnterLoop, LeaveLoop,
        AtExit, Exits, Crashes, Start, Refuse, Spawn, StopNothing, StopSignals, StopEscalates,
        StopReturns, Settle, OtherPopen, PortalRestarts, vars

\* The invariant of BotProcess holds throughout.
LEMMA ProcessInvariance == Spec => []PInv
<1>1. PInv /\ [Next]_vars => PInv'
  BY SlotStep, KilledStep, AskedStep, OrderStep, OrderlyStep DEF PInv
<1> QED BY <1>1, ProcessInit, PTL DEF Spec

\* Under every fault: no early return, refused start, dead child or portal
\* restart leaves the start slot taken, which would refuse every later start, or
\* lends it to two start_bots, and a handler has a process in hand exactly while
\* it waits for one (start_bot, stop_bot).
THEOREM StartSlotIsLent == Spec => [](TypeOK /\ OneWaits)
<1>1. PInv => TypeOK /\ OneWaits
  BY DEF PInv
<1> QED BY <1>1, ProcessInvariance, PTL

\* While nothing has crashed, no boot was slow and a stop or restart had the
\* portal to itself, two subprocesses of the bot never trade at once (the
\* running check and the start slot of start_bot), for any number of
\* processes and requests.
THEOREM OneEngineTrades == Spec => []OneEngine
<1>1. PInv => OneEngine
  <2> SUFFICES ASSUME PInv, orderly, NEW p \in Pids, NEW q \in Pids,
                      state[p] \in {"boot", "load", "serve"},
                      state[q] \in {"boot", "load", "serve"}
               PROVE  p = q
    BY DEF OneEngine, NeverTwo
  <2>1. p # NoPid /\ q # NoPid
    BY ConstantsAssumption
  <2>2. CASE state[p] = "boot" /\ state[q] = "boot"
    BY <2>2 DEF PInv, Order, Awaited, OneWaits
  <2>3. CASE state[p] # "boot" \/ state[q] # "boot"
    BY <2>1, <2>3 DEF PInv, Order, PidNamed, Awaited
  <2> QED BY <2>2, <2>3
<1> QED BY <1>1, ProcessInvariance, PTL

\* Until then the pid file names the engine in its tick loop, which is what
\* the offline close relies on (web/routes/deals.py).
THEOREM PidFileNamesEngine == Spec => []RunningIsAuthoritative
<1>1. PInv => RunningIsAuthoritative
  BY DEF PInv, RunningIsAuthoritative, Authoritative, Order, PidNamed
<1> QED BY <1>1, ProcessInvariance, PTL

\* Under every fault, a stop_bot that answers has seen its process end: the
\* SIGKILL is not skipped because the pid file has gone, and the pid is not
\* given to a new process meanwhile.
THEOREM StopsAreFinal == Spec => StopIsFinal
<1>1. PInv => \A h \in Handlers : StopReturns(h) => state[target[h]] \notin Executing
  BY DEF PInv, Killed, StopReturns, PidAlive, Executing
<1> QED BY <1>1, ProcessInvariance, PTL DEF StopIsFinal

-----------------------------------------------------------------------------
\* The inductive invariant of Exits.

PaperDeal == [id : 1..MaxDeals, sum : Nat, orders : Nat, last : Nat, high : Nat,
              low : Nat, peak : Nat, tp : BOOLEAN,
              sl : {"none", "fixed", "trailing"}, dca : BOOLEAN]
Extremes == [1..MaxDeals -> [hi : Nat, lo : Nat]]

ExitTypeOK ==
    /\ rules \in [wicks : BOOLEAN, indicators : BOOLEAN]
    /\ at \in {"down", "idle", "sentinels", "entry", "write"}
    /\ price \in Nat
    /\ deal \in {NoDeal} \cup PaperDeal
    /\ kept \in {NoDeal} \cup PaperDeal
    /\ born \in 0..MaxDeals
    /\ asked \in {NoAsk} \cup [deal : 1..MaxDeals, action : {"edit", "close"}]
    /\ lived \in Extremes
    /\ left \in [id : 0..MaxDeals, num : Nat, den : Nat]

\* Ids are not used again.
Issued == deal.id <= born /\ kept.id <= born /\ left.id <= born

\* The trackers of d lie inside what its deal has lived through.
Within(d) == /\ lived[d.id].lo <= d.low /\ d.high <= lived[d.id].hi
             /\ d.peak <= lived[d.id].hi

\* Memory is never behind the file on the same deal, and both are Within: a
\* restart takes the file's trackers, so they need it as well.
Tracking ==
    /\ deal # NoDeal => Within(deal)
    /\ kept # NoDeal => Within(kept)
    /\ deal # NoDeal /\ deal.id = kept.id =>
           kept.high <= deal.high /\ deal.low <= kept.low /\ kept.peak <= deal.peak

\* The price a sentinel would close the open deal at is one it has seen.
Priced == at = "sentinels" /\ deal # NoDeal =>
              lived[deal.id].lo <= price /\ price <= lived[deal.id].hi

\* An exit belongs to its tick, and was inside what its deal lived through.
LeftInside ==
    /\ at \in {"down", "idle"} => left = NoExit
    /\ left.id # 0 => /\ lived[left.id].lo * left.den <= left.num
                      /\ left.num <= lived[left.id].hi * left.den

ExitInv == ExitTypeOK /\ Issued /\ Tracking /\ Priced /\ LeftInside

\* An engine that has yet to start holds no deal.
LEMMA ExitsBegin == ExitInit => ExitInv
  BY ExitConstantsAssumption
  DEF ExitInit, ExitInv, ExitTypeOK, Extremes, Issued, Tracking, Priced, LeftInside,
      NoDeal, NoAsk, NoExit, Unseen

\* A longer deal scales a bound on its price.
LEMMA Scaled ==
    ASSUME NEW a \in Nat, NEW b \in Nat, NEW c \in Nat, a <= b
    PROVE  a * c <= b * c
<1> DEFINE d == b - a
<1>1. d \in Nat /\ b = a + d
  OBVIOUS
<1> HIDE DEF d
<1>2. b * c = a * c + d * c /\ d * c \in Nat /\ a * c \in Nat
  BY <1>1
<1> QED BY <1>2

\* No deal is not a deal.
LEMMA DealIds == \A d \in PaperDeal : d.id \in 1..MaxDeals /\ d # NoDeal
  BY DEF PaperDeal, NoDeal

\* What a tick sees widens what the open deal has lived through, to take in
\* the price of the tick, and its trackers follow inside.
LEMMA Sight ==
    ASSUME ExitInv, NEW p \in Prices, deal # NoDeal, Sees(p)
    PROVE  /\ lived' \in Extremes
           /\ \A n \in 1..MaxDeals : /\ lived'[n].lo <= lived[n].lo
                                     /\ lived[n].hi <= lived'[n].hi
           /\ lived'[deal.id].lo <= p /\ p <= lived'[deal.id].hi
           /\ \A d \in {Tracked(deal, p), Trailed(Tracked(deal, p), p)} :
                 /\ d \in PaperDeal /\ d.id = deal.id
                 /\ lived'[d.id].lo <= d.low /\ d.high <= lived'[d.id].hi
                 /\ d.peak <= lived'[d.id].hi
                 /\ deal.high <= d.high /\ d.low <= deal.low /\ deal.peak <= d.peak
<1> DEFINE i == deal.id
           t == Tracked(deal, p)
<1>1. deal \in PaperDeal /\ i \in 1..MaxDeals /\ p \in Nat
  BY DealIds, ExitConstantsAssumption DEF ExitInv, ExitTypeOK
<1>2. lived \in Extremes /\ Within(deal) /\ rules \in [wicks : BOOLEAN, indicators : BOOLEAN]
  BY DEF ExitInv, ExitTypeOK, Tracking
<1>3. lived' = [lived EXCEPT ![i] = [hi |-> Higher(@.hi, p), lo |-> Lower(@.lo, p)]]
  BY DEF Sees
<1>4. /\ lived[i] \in [hi : Nat, lo : Nat]
      /\ lived'[i].hi = Higher(lived[i].hi, p) /\ lived'[i].lo = Lower(lived[i].lo, p)
      /\ \A n \in 1..MaxDeals : n # i => lived'[n] = lived[n]
  BY <1>1, <1>2, <1>3 DEF Extremes
<1>5. lived' \in Extremes
  BY <1>1, <1>2, <1>3, <1>4 DEF Extremes, Higher, Lower
<1>6. \A n \in 1..MaxDeals : lived'[n].lo <= lived[n].lo /\ lived[n].hi <= lived'[n].hi
  BY <1>1, <1>2, <1>4 DEF Extremes, Higher, Lower
<1>7. lived'[i].lo <= p /\ p <= lived'[i].hi
  BY <1>1, <1>4 DEF Higher, Lower
<1>8. /\ t \in PaperDeal /\ t.id = i /\ t.peak = deal.peak
      /\ t.high = Higher(deal.high, p) /\ t.low = Lower(deal.low, p)
  BY <1>1 DEF PaperDeal, Tracked, Higher, Lower
<1>9. /\ lived'[i].lo <= t.low /\ t.high <= lived'[i].hi /\ t.peak <= lived'[i].hi
      /\ deal.high <= t.high /\ t.low <= deal.low
  BY <1>1, <1>2, <1>4, <1>8 DEF Within, PaperDeal, Higher, Lower
<1> DEFINE d == Trailed(t, p)
           seen == IF rules.wicks THEN t.high ELSE p
           from == IF t.peak = 0 THEN p ELSE t.peak
<1>10. /\ d.id = t.id /\ d.high = t.high /\ d.low = t.low
       /\ d.peak = IF t.sl = "trailing" THEN Higher(from, seen) ELSE t.peak
       /\ d \in PaperDeal
  <2>1. CASE t.sl = "trailing"
    <3>1. d = [t EXCEPT !.peak = Higher(from, seen)]
      BY <1>8, <2>1 DEF Trailed, PaperDeal
    <3>2. Higher(from, seen) \in Nat
      BY <1>1, <1>8 DEF Higher, PaperDeal
    <3> QED BY <1>8, <2>1, <3>1, <3>2 DEF PaperDeal
  <2>2. CASE t.sl # "trailing"
    BY <1>8, <2>2 DEF Trailed
  <2> QED BY <2>1, <2>2
<1>11. d.peak <= lived'[i].hi /\ deal.peak <= d.peak
  <2>1. /\ seen \in Nat /\ from \in Nat /\ lived'[i].hi \in Nat /\ t.peak \in Nat
        /\ seen <= lived'[i].hi /\ from <= lived'[i].hi /\ t.peak <= from
    BY <1>1, <1>5, <1>7, <1>8, <1>9 DEF PaperDeal, Extremes
  <2> HIDE DEF seen, from
  <2> QED BY <1>8, <1>9, <1>10, <2>1 DEF Higher
<1> HIDE DEF t, d, i
<1>12. \A e \in {t, d} :
          /\ e \in PaperDeal /\ e.id = i
          /\ lived'[i].lo <= e.low /\ e.high <= lived'[i].hi /\ e.peak <= lived'[i].hi
          /\ deal.high <= e.high /\ e.low <= deal.low /\ deal.peak <= e.peak
  <2>1. deal.peak <= t.peak
    BY <1>1, <1>8 DEF PaperDeal
  <2> QED BY <1>8, <1>9, <1>10, <1>11, <2>1
<1> QED BY <1>5, <1>6, <1>7, <1>12 DEF t, d, i

\* A DCA order leaves the trackers alone.
LEMMA Ordered ==
    ASSUME NEW d \in PaperDeal, NEW p \in Nat
    PROVE  LET e == [d EXCEPT !.sum = @ + p, !.orders = @ + 1, !.last = p]
           IN  /\ e \in PaperDeal /\ e.id = d.id
               /\ e.high = d.high /\ e.low = d.low /\ e.peak = d.peak
<1>1. d.sum + p \in Nat /\ d.orders + 1 \in Nat
  BY DEF PaperDeal
<1>2. ASSUME NEW sum \in Nat, NEW orders \in Nat
      PROVE  LET e == [d EXCEPT !.sum = sum, !.orders = orders, !.last = p]
             IN  /\ e \in PaperDeal /\ e.id = d.id
                 /\ e.high = d.high /\ e.low = d.low /\ e.peak = d.peak
  BY DEF PaperDeal
<1> QED BY <1>1, <1>2, ZenonT(60)

\* A deal that is left in its tick is left inside what it lived through,
\* at the price of the tick or at its target.
LEMMA LeavesInside ==
    ASSUME ExitInv, NEW p \in Prices, deal # NoDeal, Sees(p), at' = "sentinels",
           UNCHANGED <<rules, kept, born, asked>>,
           NEW num \in Nat, NEW den \in Nat,
           deal' = NoDeal, left' = [id |-> deal.id, num |-> num, den |-> den],
           lived'[deal.id].lo * den <= num, num <= lived'[deal.id].hi * den
    PROVE  ExitInv'
<1>1. deal \in PaperDeal /\ p \in Nat /\ price' = p
  BY ExitConstantsAssumption DEF ExitInv, ExitTypeOK, Sees
<1>2. ExitTypeOK' /\ Issued'
  BY <1>1, Sight, DealIds DEF ExitInv, ExitTypeOK, Issued, NoDeal
<1>3. Tracking'
  <2>1. kept # NoDeal => /\ kept \in PaperDeal /\ kept.id \in 1..MaxDeals
                         /\ lived[kept.id] \in [hi : Nat, lo : Nat]
                         /\ lived'[kept.id] \in [hi : Nat, lo : Nat]
                         /\ lived'[kept.id].lo <= lived[kept.id].lo
                         /\ lived[kept.id].hi <= lived'[kept.id].hi
                         /\ Within(kept)
    BY Sight, DealIds DEF ExitInv, ExitTypeOK, Tracking, Extremes
  <2> QED BY <2>1 DEF Tracking, Within, PaperDeal
<1>4. Priced' /\ LeftInside'
  BY DEF Priced, LeftInside
<1> QED BY <1>2, <1>3, <1>4 DEF ExitInv

\* _monitor_open_deals.
LEMMA MonitorStep ==
    ASSUME ExitInv, NEW p \in Prices,
           Idles(p) \/ TakesProfit(p) \/ GroupTakes(p) \/ StopsOut(p) \/ Stays(p)
    PROVE  ExitInv'
<1>1. CASE Idles(p)
  <2>1. p \in Nat /\ price' = p /\ lived' = lived /\ left = NoExit
    BY <1>1, ExitConstantsAssumption DEF Idles, Sees, ExitInv, LeftInside
  <2>2. ExitTypeOK' /\ Issued'
    BY <1>1, <2>1 DEF Idles, ExitInv, ExitTypeOK, Issued
  <2>3. Tracking' /\ Priced' /\ LeftInside'
    BY <1>1, <2>1 DEF Idles, ExitInv, Tracking, Within, Priced, LeftInside, NoExit
  <2> QED BY <2>2, <2>3 DEF ExitInv
<1> SUFFICES ASSUME deal # NoDeal, Sees(p), at' = "sentinels",
                    UNCHANGED <<rules, kept, born, asked>>
             PROVE  ExitInv'
  BY <1>1 DEF TakesProfit, GroupTakes, StopsOut, Stays
<1>2. deal \in PaperDeal /\ deal.id \in 1..MaxDeals /\ p \in Nat
  BY DealIds, ExitConstantsAssumption DEF ExitInv, ExitTypeOK
<1>3. /\ lived'[deal.id] \in [hi : Nat, lo : Nat]
      /\ lived'[deal.id].lo <= p /\ p <= lived'[deal.id].hi
  BY <1>2, Sight DEF Extremes
<1> DEFINE t == Tracked(deal, p)
<1>4. t \in PaperDeal /\ t.id = deal.id /\ t.high <= lived'[deal.id].hi
  BY Sight
<1>5. ASSUME deal' = NoDeal, left' = [id |-> deal.id, num |-> p, den |-> 1]
      PROVE  ExitInv'
  <2>1. lived'[deal.id].lo * 1 <= p /\ p <= lived'[deal.id].hi * 1
    BY <1>2, <1>3
  <2> QED BY <1>2, <1>5, <2>1, LeavesInside
<1>6. CASE TakesProfit(p)
  <2>1. CASE Ticked(t, p)
    BY <1>4, <1>5, <1>6, <2>1 DEF TakesProfit, Leaves
  <2>2. CASE ~Ticked(t, p)
    <3>1. /\ Wicked(t, p) /\ deal' = NoDeal
          /\ left' = [id |-> deal.id, num |-> Target(t), den |-> t.orders]
      BY <1>4, <1>6, <2>2 DEF TakesProfit, TpHit, Leaves
    <3>2. t.orders \in Nat /\ t.high \in Nat /\ t.sum \in Nat
      BY <1>4 DEF PaperDeal
    <3>3. TpGap * t.orders \in Nat
      BY <3>2, ExitConstantsAssumption
    <3>4. Target(t) \in Nat
      BY <3>2, <3>3 DEF Target
    <3>5. /\ lived'[deal.id].lo * t.orders <= p * t.orders
          /\ t.high * t.orders <= lived'[deal.id].hi * t.orders
      BY <1>2, <1>3, <1>4, <3>2, Scaled
    <3>6. /\ lived'[deal.id].lo * t.orders \in Nat /\ p * t.orders \in Nat
          /\ t.high * t.orders \in Nat /\ lived'[deal.id].hi * t.orders \in Nat
      BY <1>2, <1>3, <3>2
    <3>7. p * t.orders < Target(t) /\ Target(t) <= t.high * t.orders
      BY <2>2, <3>1, <3>4, <3>6 DEF Ticked, Wicked
    <3>8. lived'[deal.id].lo * t.orders <= Target(t) /\ Target(t) <= lived'[deal.id].hi * t.orders
      BY <3>4, <3>5, <3>6, <3>7
    <3> QED BY <3>1, <3>2, <3>4, <3>8, LeavesInside
  <2> QED BY <2>1, <2>2
<1>7. CASE GroupTakes(p)
  BY <1>4, <1>5, <1>7 DEF GroupTakes, Leaves
<1> DEFINE d == Trailed(t, p)
<1>8. /\ d \in PaperDeal /\ d.id = deal.id
      /\ lived'[d.id].lo <= d.low /\ d.high <= lived'[d.id].hi /\ d.peak <= lived'[d.id].hi
      /\ deal.high <= d.high /\ d.low <= deal.low /\ deal.peak <= d.peak
  BY Sight
<1>9. CASE StopsOut(p)
  BY <1>5, <1>8, <1>9 DEF StopsOut, Leaves
<1>10. CASE Stays(p)
  <2> DEFINE e == [d EXCEPT !.sum = @ + p, !.orders = @ + 1, !.last = p]
  <2>1. deal' \in {d, e} /\ left' = left /\ price' = p /\ left = NoExit
    BY <1>10 DEF Stays, Sees, ExitInv, LeftInside
  <2>2. /\ e \in PaperDeal /\ e.id = d.id
        /\ e.high = d.high /\ e.low = d.low /\ e.peak = d.peak
    BY <1>2, <1>8, Ordered, ZenonT(60)
  <2> HIDE DEF e, d, t
  <2>3. /\ deal' \in PaperDeal /\ deal'.id = deal.id /\ deal' # NoDeal
        /\ lived'[deal'.id].lo <= deal'.low /\ deal'.high <= lived'[deal'.id].hi
        /\ deal'.peak <= lived'[deal'.id].hi
        /\ deal.high <= deal'.high /\ deal'.low <= deal.low /\ deal.peak <= deal'.peak
    BY <1>8, <2>1, <2>2, DealIds
  <2>4. ExitTypeOK' /\ Issued'
    BY <1>2, <2>1, <2>3, Sight DEF ExitInv, ExitTypeOK, Issued
  <2>5. Tracking'
    <3>1. kept # NoDeal => /\ kept \in PaperDeal /\ kept.id \in 1..MaxDeals
                           /\ lived[kept.id] \in [hi : Nat, lo : Nat]
                           /\ lived'[kept.id] \in [hi : Nat, lo : Nat]
                           /\ lived'[kept.id].lo <= lived[kept.id].lo
                           /\ lived[kept.id].hi <= lived'[kept.id].hi
                           /\ Within(kept)
      BY Sight, DealIds DEF ExitInv, ExitTypeOK, Tracking, Extremes
    <3>2. (kept # NoDeal => Within(kept))'
      BY <3>1 DEF Within, PaperDeal
    <3>3. Within(deal)'
      BY <2>3 DEF Within
    <3>4. deal'.id = kept.id => kept # NoDeal
      BY <1>2, <2>3 DEF NoDeal
    <3>5. deal'.id = kept.id =>
             kept.high <= deal'.high /\ deal'.low <= kept.low /\ kept.peak <= deal'.peak
      <4>1. deal.id = kept.id => 
               kept.high <= deal.high /\ deal.low <= kept.low /\ kept.peak <= deal.peak
        BY DEF ExitInv, Tracking
      <4> QED BY <1>2, <2>3, <3>1, <3>4, <4>1 DEF PaperDeal
    <3> QED BY <3>2, <3>3, <3>5 DEF Tracking
  <2>6. Priced' /\ LeftInside'
    BY <1>3, <2>1, <2>3 DEF Priced, LeftInside, NoExit
  <2> QED BY <2>4, <2>5, <2>6 DEF ExitInv
<1> QED BY <1>6, <1>7, <1>9, <1>10, <1>1

\* The steps outside _monitor_open_deals.
LEMMA RestStep ==
    ASSUME ExitInv,
           \/ \E n \in 1..MaxDeals, action \in {"edit", "close"} : Asks(n, action)
           \/ Consumes \/ Enters \/ Waits \/ Writes \/ Falls \/ Loads
    PROVE  ExitInv'
<1> USE DEF ExitInv
<1>1. ASSUME NEW n \in 1..MaxDeals, NEW action \in {"edit", "close"}, Asks(n, action)
      PROVE  ExitInv'
  BY <1>1 DEF Asks, ExitTypeOK, Issued, Tracking, Within, Priced, LeftInside
<1>2. CASE Consumes
  <2>1. /\ at = "sentinels" /\ at' = "entry" /\ asked' = NoAsk
        /\ UNCHANGED <<rules, price, kept, born, lived>>
    BY <1>2, ZenonT(60) DEF Consumes
  <2>2. CASE UNCHANGED <<deal, left>>
    BY <2>1, <2>2 DEF ExitTypeOK, Issued, Tracking, Within, Priced, LeftInside
  <2>3. ASSUME asked.deal = deal.id, asked.action \in {"edit", "close"}
        PROVE  deal \in PaperDeal /\ deal.id \in 1..MaxDeals /\ deal # NoDeal
    BY <2>3, DealIds DEF ExitTypeOK, NoAsk, NoDeal
  <2>4. ASSUME asked.deal = deal.id, asked.action = "edit", left' = left,
               NEW tp \in BOOLEAN, NEW dca \in BOOLEAN,
               NEW sl \in {"none", "fixed", "trailing"},
               deal' = [deal EXCEPT !.tp = tp, !.dca = dca, !.sl = sl]
        PROVE  ExitInv'
    <3>1. /\ deal \in PaperDeal /\ deal' \in PaperDeal /\ deal # NoDeal
          /\ deal'.id = deal.id /\ deal'.high = deal.high
          /\ deal'.low = deal.low /\ deal'.peak = deal.peak
      BY <2>3, <2>4 DEF PaperDeal
    <3> QED BY <2>1, <2>4, <3>1 DEF ExitTypeOK, Issued, Tracking, Within, Priced, LeftInside
  <2>5. CASE asked.deal = deal.id /\ asked.action = "close" /\ Leaves(deal, price, 1)
    <3>1. /\ deal \in PaperDeal /\ deal.id \in 1..MaxDeals /\ deal # NoDeal
          /\ lived[deal.id] \in [hi : Nat, lo : Nat] /\ price \in Nat
      BY <2>3, <2>5 DEF ExitTypeOK, Extremes
    <3>2. lived[deal.id].lo * 1 <= price /\ price <= lived[deal.id].hi * 1
      BY <2>1, <3>1 DEF Priced
    <3> QED BY <2>1, <2>5, <3>1, <3>2
            DEF Leaves, ExitTypeOK, Issued, Tracking, Within, Priced, LeftInside, NoDeal
  <2> QED BY <1>2, <2>2, <2>4, <2>5, ZenonT(60) DEF Consumes
<1>3. CASE Enters
  <2> DEFINE n == born + 1
             x == [hi |-> price, lo |-> price]
  <2>1. /\ n \in 1..MaxDeals /\ price \in Nat /\ born \in Nat
        /\ deal = NoDeal /\ born' = n /\ deal' = Opened(n, price)
        /\ lived' = [lived EXCEPT ![n] = x]
        /\ UNCHANGED <<rules, price, kept, asked, left>>
        /\ at' \in {"sentinels", "write"}
    BY <1>3, ExitConstantsAssumption DEF Enters, ExitTypeOK
  <2>2. /\ deal' \in PaperDeal /\ deal'.id = n
        /\ deal'.high = price /\ deal'.low = price /\ deal'.peak = 0
    BY <2>1 DEF Opened, PaperDeal
  <2>3. lived' \in Extremes /\ lived'[n] = x
        /\ \A m \in 1..MaxDeals : m # n => lived'[m] = lived[m]
    BY <2>1 DEF ExitTypeOK, Extremes
  <2>4. kept.id # n /\ left.id # n
    BY <2>1 DEF Issued, ExitTypeOK, NoDeal, PaperDeal
  <2> HIDE DEF n
  <2>5. ExitTypeOK'
    BY <2>1, <2>2, <2>3 DEF ExitTypeOK, n
  <2>6. Issued'
    BY <2>1, <2>2, DealIds DEF Issued, ExitTypeOK, NoDeal, n
  <2>7. Tracking'
    <3>1. kept # NoDeal => kept.id \in 1..MaxDeals /\ lived'[kept.id] = lived[kept.id]
      BY <2>3, <2>4, DealIds DEF ExitTypeOK
    <3> QED BY <2>1, <2>2, <2>3, <2>4, <3>1 DEF Tracking, Within
  <2>8. Priced'
    BY <2>1, <2>2, <2>3 DEF Priced
  <2>9. LeftInside'
    <3>1. left.id # 0 => left.id \in 1..MaxDeals /\ lived'[left.id] = lived[left.id]
      BY <2>3, <2>4 DEF ExitTypeOK
    <3> QED BY <2>1, <3>1 DEF LeftInside
  <2> QED BY <2>5, <2>6, <2>7, <2>8, <2>9
<1>4. CASE Waits
  BY <1>4 DEF Waits, ExitTypeOK, Issued, Tracking, Within, Priced, LeftInside
<1>5. CASE Writes
  <2>1. /\ at' = "idle" /\ kept' = deal /\ price' = 0 /\ left' = NoExit
        /\ lived' = [n \in 1..MaxDeals |-> IF n = deal.id THEN lived[n] ELSE Unseen]
        /\ UNCHANGED <<rules, deal, born, asked>>
    BY <1>5 DEF Writes, ToFile
  <2>2. lived' \in Extremes
    BY <2>1 DEF ExitTypeOK, Extremes, Unseen
  <2>3. deal # NoDeal => deal \in PaperDeal /\ lived'[deal.id] = lived[deal.id]
    BY <2>1, DealIds DEF ExitTypeOK
  <2>4. ExitTypeOK' /\ Issued'
    BY <2>1, <2>2, ExitConstantsAssumption DEF ExitTypeOK, Issued, NoExit
  <2>5. Tracking' /\ Priced' /\ LeftInside'
    BY <2>1, <2>3 DEF Tracking, Within, Priced, LeftInside, NoExit, PaperDeal
  <2> QED BY <2>4, <2>5
<1>6. CASE Falls
  <2>1. ExitTypeOK' /\ Issued'
    BY <1>6, ExitConstantsAssumption DEF Falls, ExitTypeOK, Issued, NoExit, NoDeal
  <2>2. Tracking' /\ Priced' /\ LeftInside'
    BY <1>6 DEF Falls, Tracking, Within, Priced, LeftInside, NoExit
  <2> QED BY <2>1, <2>2
<1>7. CASE Loads
  <2>1. at' = "idle" /\ deal' = kept /\ UNCHANGED <<rules, price, kept, born, asked, lived, left>>
    BY <1>7 DEF Loads, FromFile
  <2>2. left = NoExit
    BY <1>7 DEF Loads, LeftInside
  <2>3. ExitTypeOK' /\ Issued'
    BY <2>1 DEF ExitTypeOK, Issued
  <2>4. Tracking' /\ Priced' /\ LeftInside'
    BY <2>1, <2>2 DEF ExitTypeOK, PaperDeal, Tracking, Within, Priced, LeftInside, NoExit
  <2> QED BY <2>3, <2>4
<1> QED BY <1>1, <1>2, <1>3, <1>4, <1>5, <1>6, <1>7

\* A deal's trackers and its trailing peak are its own, through DCA orders,
\* overrides, ticks cut short and restarts, and no deal is left at a price
\* the market did not pass while it was open, wick fills included
\* (_check_tp, _check_sl, deal_to_dict and dict_to_deal).
THEOREM TrackersAreOwn == ExitSpec => []OwnExtremes
<1>1. ExitInv /\ [ExitNext]_exitVars => ExitInv'
  <2> SUFFICES ASSUME ExitInv, [ExitNext]_exitVars PROVE ExitInv'
    OBVIOUS
  <2>1. CASE UNCHANGED exitVars
    BY <2>1 DEF exitVars, ExitInv, ExitTypeOK, Issued, Tracking, Within, Priced, LeftInside
  <2>2. CASE ExitNext
    BY <2>2, MonitorStep, RestStep DEF ExitNext
  <2> QED BY <2>1, <2>2
<1>2. ExitInv => OwnExtremes
  BY DEF ExitInv, Tracking, Within, LeftInside, OwnExtremes
<1> QED BY <1>1, <1>2, ExitsBegin, PTL DEF ExitSpec
=============================================================================
