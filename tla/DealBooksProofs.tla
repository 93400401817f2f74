-------------------------- MODULE DealBooksProofs --------------------------
(***************************************************************************)
(* Proofs about DealBooks, for every set of deals, of portal workers and   *)
(* of faults: its safety invariants, that state.json implements            *)
(* DealHistory, that closes and the lock are not lost, and where rows that *)
(* nobody watches come from.                                               *)
(***************************************************************************)
EXTENDS DealBooks, TLAPS

\* What the engine is in the middle of.
StepInv ==
    /\ step = "closed"   => bot = "monitor" /\ cur \in Deals
    /\ step = "inserted" => /\ bot \in {"trigger", "entry"}
                            /\ cur \in Deals
                            /\ mem.st[cur] = "absent" /\ ledger[cur] # "absent"
                            /\ OpenDeals(mem) = {}
    /\ step \in {"handled", "recorded"} => bot = "sentinels" /\ cur \in Deals

\* Who holds the state lock.
Locked(c) == pc[c] \in {"locked", "checked", "loaded", "recorded"}
LockInv ==
    /\ bot = "load" <=> lock = "bot"
    /\ \A c \in Closers : Locked(c) <=> lock = c

\* What a portal worker has in hand; while it holds the lock and no engine
\* owns the state, its copy stays in step with the file.
CloserInv ==
    \A c \in Closers :
        /\ pc[c] # "idle" => want[c] \in Deals
        /\ pc[c] = "loaded" => snap[c] = file /\ file.st[want[c]] = "open"
        /\ pc[c] = "recorded" => /\ snap[c] = CloseIn(file, want[c])
                                 /\ file.st[want[c]] = "open"

\* The engine's memory is never behind the file it will overwrite.
AheadInv ==
    bot \in Owning =>
        \A d \in Deals : History!Forward(file.st[d], mem.st[d])

\* Which ledger rows are known to be closed, when no ledger write fails.
RowInv ==
    "db" \notin Faults =>
        \A d \in Deals :
            /\ file.st[d] = "closed" => ledger[d] = "closed"
            /\ mem.st[d] = "closed" =>
                   \/ ledger[d] = "closed"
                   \/ step \in {"closed", "handled"} /\ cur = d
            /\ \A c \in Closers :
                   pc[c] = "recorded" /\ want[c] = d => ledger[d] = "closed"

----------------------------------------------------------------------------
\* Books.

\* What PaperState.open_deal and close_deal do to each deal of the books.
LEMMA BookMoves ==
    ASSUME NEW b \in Books, NEW d \in Deals
    PROVE  /\ OpenIn(b, d) \in Books
           /\ \A e \in Deals :
                  /\ OpenIn(b, d).st[e] = IF e = d THEN "open" ELSE b.st[e]
                  /\ OpenIn(b, d).paid[e] = b.paid[e]
           /\ CloseIn(b, d) \in Books
           /\ b.st[d] # "open" => CloseIn(b, d) = b
           /\ b.st[d] = "open" =>
                  \A e \in Deals :
                     /\ CloseIn(b, d).st[e] =
                            IF e = d THEN "closed" ELSE b.st[e]
                     /\ CloseIn(b, d).paid[e] =
                            IF e = d THEN b.paid[e] + 1 ELSE b.paid[e]
  BY DEF OpenIn, CloseIn, Books, Status

\* The empty books a process starts from.
LEMMA EmptyBooks ==
    /\ NoBooks \in Books
    /\ \A d \in Deals : NoBooks.st[d] = "absent" /\ NoBooks.paid[d] = 0
  BY DEF NoBooks, Books, Status

\* The ledger statements keep the ledger a table of statuses.
LEMMA RowTypes ==
    ASSUME NEW l \in [Deals -> Status], NEW d \in Deals, NEW b \in Books
    PROVE  /\ RowClosed(l, d) \in [Deals -> Status]
           /\ RowSaved(l, d, "open") \in [Deals -> Status]
           /\ Replayed(l, b) \in [Deals -> Status]
           /\ \A e \in Deals :
                  /\ RowClosed(l, d)[e] = IF e = d /\ l[d] # "absent"
                                          THEN "closed" ELSE l[e]
                  /\ RowSaved(l, d, "open")[e] = IF e = d THEN "open" ELSE l[e]
                  /\ Replayed(l, b)[e] = IF l[e] = "absent" THEN b.st[e]
                                                            ELSE l[e]
  BY DEF RowClosed, RowSaved, Replayed, Books, Status

----------------------------------------------------------------------------
\* Type correctness.

\* Every step keeps every variable in its type.
LEMMA TypeStep == TypeOK /\ StepInv /\ CloserInv /\ [Next]_vars => TypeOK'
<1> SUFFICES ASSUME TypeOK, StepInv, CloserInv, [Next]_vars
             PROVE  TypeOK'
    OBVIOUS
<1> USE ConstantsAssumption, EmptyBooks
<1> USE DEF TypeOK, Owning, TickStages, engineVars, closerVars, diskVars, At
<1>1. CASE Spawn        BY <1>1 DEF Spawn
<1>2. CASE BootLock     BY <1>2 DEF BootLock
<1>3. CASE BootTimeout  BY <1>3 DEF BootTimeout
<1>4. CASE LoadState
      BY <1>4, RowTypes DEF LoadState, TryRow, Replayed, Books
<1>5. CASE BeginTick    BY <1>5 DEF BeginTick
<1>6. CASE NextStage    BY <1>6 DEF NextStage, Scan, After
<1>7. CASE TickFails    BY <1>7 DEF TickFails
<1>8. CASE WriteState   BY <1>8 DEF WriteState, TryWrite
<1>9. CASE RecordHit    BY <1>9, RowTypes DEF RecordHit, TryRow, StepInv
<1>10. CASE TrackDeal   BY <1>10, BookMoves DEF TrackDeal, Scan, After, StepInv
<1>11. CASE RecordHandled
       BY <1>11, RowTypes DEF RecordHandled, TryRow, StepInv
<1>12. CASE PersistHandled  BY <1>12 DEF PersistHandled, TryWrite
<1>13. ASSUME NEW d \in Deals, HitTarget(d) PROVE TypeOK'
       BY <1>13, BookMoves DEF HitTarget
<1>14. ASSUME NEW d \in Deals, PlaceDca(d) PROVE TypeOK'
       BY <1>14, RowTypes DEF PlaceDca
<1>15. ASSUME NEW d \in Deals, InsertDeal(d) PROVE TypeOK'
       BY <1>15 DEF InsertDeal, Status
<1>16. ASSUME NEW d \in Deals, TakeSentinel(d) PROVE TypeOK'
  <2>1. CloseIn(mem, d) \in Books
        BY BookMoves
  <2>2. cur' \in Deals \cup {NoDeal} /\ step' \in {step, "handled"}
        BY <1>16 DEF TakeSentinel
  <2>3. QED  BY <1>16, <2>1, <2>2 DEF TakeSentinel
<1>17. CASE Stop        BY <1>17 DEF Stop, Gone, TryWrite
<1>18. CASE LoopEnds    BY <1>18 DEF LoopEnds, Gone
<1>19. CASE Killed      BY <1>19 DEF Killed, Gone
<1>20. CASE PortalDies  BY <1>20 DEF PortalDies
<1>21. ASSUME NEW c \in Closers, NEW d \in Deals,
              AskSentinel(c, d) \/ AskOffline(c, d)
       PROVE  TypeOK'
       BY <1>21 DEF AskSentinel, AskOffline, Become
<1>22. ASSUME NEW c \in Closers, GiveUp(c) PROVE TypeOK'
       BY <1>22 DEF GiveUp, Reset, Become
<1>23. ASSUME NEW c \in Closers, CloserLock(c) PROVE TypeOK'
       BY <1>23 DEF CloserLock, Become
<1>24. ASSUME NEW c \in Closers, Recheck(c) PROVE TypeOK'
       BY <1>24 DEF Recheck, Reset, Become
<1>25. ASSUME NEW c \in Closers, LoadSnapshot(c) PROVE TypeOK'
       BY <1>25 DEF LoadSnapshot, Reset, Become
<1>26. ASSUME NEW c \in Closers, CloserRecord(c) PROVE TypeOK'
  <2>1. want[c] \in Deals
        BY <1>26 DEF CloserRecord, CloserInv
  <2>2. CloseIn(snap[c], want[c]) \in Books
        BY <2>1, BookMoves
  <2>3. RowClosed(ledger, want[c]) \in [Deals -> Status]
        BY <2>1, RowTypes
  <2>4. QED  BY <1>26, <2>2, <2>3 DEF CloserRecord, TryRow, Become
<1>27. ASSUME NEW c \in Closers, CloserPersist(c) PROVE TypeOK'
       BY <1>27 DEF CloserPersist, TryWrite, Reset, Become
<1>28. CASE UNCHANGED vars  BY <1>28 DEF vars
<1>29. QED
  BY <1>1, <1>2, <1>3, <1>4, <1>5, <1>6, <1>7, <1>8, <1>9, <1>10, <1>11,
     <1>12, <1>13, <1>14, <1>15, <1>16, <1>17, <1>18, <1>19, <1>20, <1>21,
     <1>22, <1>23, <1>24, <1>25, <1>26, <1>27, <1>28
     DEF Next, Boot, Tick, Exit, Ask, Serve

----------------------------------------------------------------------------
\* The lock protocol.

\* A tick is the business of an engine that owns the state; it touches
\* neither the lock nor the portal's workers.
LEMMA TickFrame ==
    ASSUME StepInv, Tick
    PROVE  /\ bot \in Owning /\ bot' \in Owning
           /\ UNCHANGED <<lock, pc, want, snap>>
<1> USE DEF Owning, TickStages, At, closerVars, diskVars, engineVars
<1>1. CASE BeginTick       BY <1>1 DEF BeginTick
<1>2. CASE NextStage       BY <1>2 DEF NextStage, After
<1>3. CASE TickFails       BY <1>3 DEF TickFails
<1>4. CASE WriteState      BY <1>4 DEF WriteState
<1>5. CASE RecordHit       BY <1>5 DEF RecordHit, StepInv
<1>6. CASE TrackDeal       BY <1>6 DEF TrackDeal, StepInv, After
<1>7. CASE RecordHandled   BY <1>7 DEF RecordHandled, StepInv
<1>8. CASE PersistHandled  BY <1>8 DEF PersistHandled, StepInv
<1>9. ASSUME NEW d \in Deals,
             HitTarget(d) \/ PlaceDca(d) \/ InsertDeal(d) \/ TakeSentinel(d)
      PROVE  /\ bot \in Owning /\ bot' \in Owning
             /\ UNCHANGED <<lock, pc, want, snap>>
      BY <1>9 DEF HitTarget, PlaceDca, InsertDeal, TakeSentinel
<1>10. QED
  BY <1>1, <1>2, <1>3, <1>4, <1>5, <1>6, <1>7, <1>8, <1>9 DEF Tick

\* The state lock has the holder the program counters say it has.
LEMMA LockStep == TypeOK /\ StepInv /\ LockInv /\ [Next]_vars => LockInv'
<1> SUFFICES ASSUME TypeOK, StepInv, LockInv, [Next]_vars
             PROVE  LockInv'
    OBVIOUS
<1> USE ConstantsAssumption
<1> USE DEF TypeOK, LockInv, Locked, Owning, TickStages, At,
            engineVars, closerVars, diskVars
<1>1. CASE Boot
      BY <1>1 DEF Boot, Spawn, BootLock, BootTimeout, LoadState
<1>2. CASE Tick
      BY <1>2, TickFrame
<1>3. CASE Exit
      BY <1>3 DEF Exit, Stop, LoopEnds, Killed, Gone
<1>4. CASE PortalDies
      BY <1>4 DEF PortalDies
<1>5. ASSUME NEW c \in Closers, Ask(c) PROVE LockInv'
      BY <1>5 DEF Ask, AskSentinel, AskOffline, Become
<1>6. ASSUME NEW c \in Closers, Serve(c) PROVE LockInv'
      BY <1>6 DEF Serve, GiveUp, CloserLock, Recheck, LoadSnapshot,
         CloserRecord, CloserPersist, Reset, Become
<1>7. CASE UNCHANGED vars
      BY <1>7 DEF vars
<1>8. QED
      BY <1>1, <1>2, <1>3, <1>4, <1>5, <1>6, <1>7 DEF Next

\* No engine comes to own the state while a portal worker works on it: the
\* worker holds the lock the engine must take before it loads.
LEMMA ExclusionStep ==
    TypeOK /\ StepInv /\ LockInv /\ CloserExcludesEngine /\ [Next]_vars
        => CloserExcludesEngine'
<1> SUFFICES ASSUME TypeOK, StepInv, LockInv, CloserExcludesEngine,
                    [Next]_vars
             PROVE  CloserExcludesEngine'
    OBVIOUS
<1> USE ConstantsAssumption
<1> USE DEF TypeOK, LockInv, Locked, CloserExcludesEngine, Owning,
            TickStages, At, engineVars, closerVars, diskVars
<1>1. CASE Boot
      BY <1>1 DEF Boot, Spawn, BootLock, BootTimeout, LoadState
<1>2. CASE Tick
      BY <1>2, TickFrame
<1>3. CASE Exit
      BY <1>3 DEF Exit, Stop, LoopEnds, Killed, Gone
<1>4. CASE PortalDies
      BY <1>4 DEF PortalDies
<1>5. ASSUME NEW c \in Closers, Ask(c) PROVE CloserExcludesEngine'
      BY <1>5 DEF Ask, AskSentinel, AskOffline, Become
<1>6. ASSUME NEW c \in Closers, Serve(c) PROVE CloserExcludesEngine'
      BY <1>6 DEF Serve, GiveUp, CloserLock, Recheck, LoadSnapshot,
         CloserRecord, CloserPersist, Reset, Become, BotRunning
<1>7. CASE UNCHANGED vars
      BY <1>7 DEF vars
<1>8. QED
      BY <1>1, <1>2, <1>3, <1>4, <1>5, <1>6, <1>7 DEF Next

----------------------------------------------------------------------------
\* How the file and the memory may change, action names forgotten.

FileKept == file' = file

\* The engine writes its memory, at the end of a tick or after a sentinel.
EngineWrites ==
    /\ file' = mem /\ mem' = mem
    /\ bot \in Owning /\ bot' \in Owning
    /\ step \in {"none", "recorded"} /\ step' = "none"
    /\ UNCHANGED <<ledger, pc, want, snap>>

\* A portal worker writes its copy.
CloserWrites(c) ==
    /\ pc[c] = "recorded" /\ file' = snap[c]
    /\ pc' = [pc EXCEPT ![c] = "idle"]
    /\ UNCHANGED <<engineVars, ledger>>

\* The only ways a step changes state.json: not at all, the engine's memory
\* over it, or one deal closed in it by the portal.
LEMMA FileMoves ==
    ASSUME StepInv, [Next]_vars
    PROVE  FileKept \/ EngineWrites \/ \E c \in Closers : CloserWrites(c)
<1> USE DEF FileKept, engineVars, closerVars, diskVars
<1>1. CASE Boot
      BY <1>1 DEF Boot, Spawn, BootLock, BootTimeout, LoadState
<1>2. CASE Tick
  <2>1. CASE WriteState
        BY <2>1, <1>2, TickFrame DEF WriteState, TryWrite, At, EngineWrites
  <2>2. CASE PersistHandled
        BY <2>2, <1>2, TickFrame DEF PersistHandled, TryWrite, EngineWrites
  <2>3. CASE BeginTick \/ NextStage \/ TickFails
        BY <2>3 DEF BeginTick, NextStage, TickFails
  <2>4. CASE RecordHit \/ TrackDeal \/ RecordHandled
        BY <2>4 DEF RecordHit, TrackDeal, RecordHandled
  <2>5. ASSUME NEW d \in Deals, HitTarget(d) \/ PlaceDca(d)
                                \/ InsertDeal(d) \/ TakeSentinel(d)
        PROVE  FileKept
        BY <2>5 DEF HitTarget, PlaceDca, InsertDeal, TakeSentinel
  <2>6. QED  BY <1>2, <2>1, <2>2, <2>3, <2>4, <2>5 DEF Tick
<1>3. CASE Exit
      BY <1>3 DEF Exit, Stop, LoopEnds, Killed, TryWrite
<1>4. CASE PortalDies
      BY <1>4 DEF PortalDies
<1>5. ASSUME NEW c \in Closers, Ask(c) PROVE FileKept
      BY <1>5 DEF Ask, AskSentinel, AskOffline
<1>6. ASSUME NEW c \in Closers, Serve(c) PROVE FileKept \/ CloserWrites(c)
  <2>1. CASE CloserPersist(c)
        BY <2>1 DEF CloserPersist, TryWrite, CloserWrites, Reset, Become
  <2>2. CASE GiveUp(c) \/ CloserLock(c) \/ Recheck(c) \/ LoadSnapshot(c)
                       \/ CloserRecord(c)
        BY <2>2 DEF GiveUp, CloserLock, Recheck, LoadSnapshot, CloserRecord
  <2>3. QED  BY <1>6, <2>1, <2>2 DEF Serve
<1>7. CASE UNCHANGED vars
      BY <1>7 DEF vars
<1>8. QED
      BY <1>1, <1>2, <1>3, <1>4, <1>5, <1>6, <1>7 DEF Next

MemKept == mem' = mem /\ (bot' \in Owning => bot \in Owning)

MemLoads == /\ bot = "load" /\ bot' = "idle" /\ mem' = file
            /\ ledger' = ledger \/ ledger' = Replayed(ledger, file)
            /\ UNCHANGED <<file, step, cur>>

MemCloses(d) ==
    /\ bot \in Owning /\ step = "none"
    /\ mem' = CloseIn(mem, d)
    /\ mem.st[d] = "open" => cur' = d /\ step' \in {"closed", "handled"}
    /\ mem.st[d] # "open" => UNCHANGED <<cur, step>>
    /\ UNCHANGED <<bot, file, ledger>>

MemTracks ==
    /\ step = "inserted" /\ step' = "none"
    /\ mem' = OpenIn(mem, cur)
    /\ bot \in Owning
    /\ UNCHANGED <<file, ledger>>

MemLost == mem' = NoBooks /\ bot' = "down" /\ step' = "none"

\* The only ways a step changes the engine's memory.
LEMMA MemMoves ==
    ASSUME StepInv, [Next]_vars
    PROVE  \/ MemKept \/ MemLoads \/ MemTracks \/ MemLost
           \/ \E d \in Deals : MemCloses(d)
<1> USE DEF MemKept, engineVars, closerVars, diskVars
<1>1. CASE Boot
  <2>1. CASE LoadState
        BY <2>1 DEF LoadState, TryRow, MemLoads
  <2>2. CASE Spawn \/ BootLock \/ BootTimeout
        BY <2>2 DEF Spawn, BootLock, BootTimeout, Owning, TickStages
  <2>3. QED  BY <1>1, <2>1, <2>2 DEF Boot
<1>2. CASE Tick
  <2>1. bot \in Owning /\ bot' \in Owning
        BY <1>2, TickFrame
  <2>2. CASE TrackDeal
        BY <2>2, <2>1 DEF TrackDeal, MemTracks
  <2>3. CASE BeginTick \/ NextStage \/ TickFails \/ WriteState
        BY <2>1, <2>3 DEF BeginTick, NextStage, TickFails, WriteState
  <2>4. CASE RecordHit \/ RecordHandled \/ PersistHandled
        BY <2>1, <2>4 DEF RecordHit, RecordHandled, PersistHandled
  <2>5. ASSUME NEW d \in Deals, PlaceDca(d) \/ InsertDeal(d)
        PROVE  MemKept
        BY <2>1, <2>5 DEF PlaceDca, InsertDeal
  <2>6. ASSUME NEW d \in Deals, HitTarget(d) \/ TakeSentinel(d)
        PROVE  MemCloses(d)
        BY <2>1, <2>6 DEF HitTarget, TakeSentinel, MemCloses, At
  <2>7. QED  BY <1>2, <2>2, <2>3, <2>4, <2>5, <2>6 DEF Tick
<1>3. CASE Exit
      BY <1>3 DEF Exit, Stop, LoopEnds, Killed, Gone, MemLost
<1>4. CASE PortalDies
      BY <1>4 DEF PortalDies
<1>5. ASSUME NEW c \in Closers, Ask(c) PROVE MemKept
      BY <1>5 DEF Ask, AskSentinel, AskOffline
<1>6. ASSUME NEW c \in Closers, Serve(c) PROVE MemKept
      BY <1>6 DEF Serve, GiveUp, CloserLock, Recheck, LoadSnapshot,
         CloserRecord, CloserPersist
<1>7. CASE UNCHANGED vars
      BY <1>7 DEF vars
<1>8. QED
      BY <1>1, <1>2, <1>3, <1>4, <1>5, <1>6, <1>7 DEF Next

\* No statement removes a ledger row.
LEMMA RowsKept ==
    ASSUME TypeOK, StepInv, CloserInv, [Next]_vars
    PROVE  \A d \in Deals : ledger[d] # "absent" => ledger'[d] # "absent"
<1> USE DEF engineVars, closerVars, diskVars
<1>0. ledger \in [Deals -> Status] /\ file \in Books
      BY DEF TypeOK
<1>1. CASE Boot
  <2>1. CASE LoadState
        BY <2>1, <1>0 DEF LoadState, TryRow, Replayed
  <2>2. CASE Spawn \/ BootLock \/ BootTimeout
        BY <2>2 DEF Spawn, BootLock, BootTimeout
  <2>3. QED  BY <1>1, <2>1, <2>2 DEF Boot
<1>2. CASE Tick
  <2>1. CASE RecordHit \/ RecordHandled
    <3>1. cur \in Deals
          BY <2>1 DEF RecordHit, RecordHandled, StepInv
    <3>2. ledger' \in {ledger, RowClosed(ledger, cur)}
          BY <2>1 DEF RecordHit, RecordHandled, TryRow
    <3>3. QED  BY <3>1, <3>2, <1>0 DEF RowClosed
  <2>2. CASE BeginTick \/ NextStage \/ TickFails \/ WriteState
        BY <2>2 DEF BeginTick, NextStage, TickFails, WriteState
  <2>3. CASE TrackDeal \/ PersistHandled
        BY <2>3 DEF TrackDeal, PersistHandled
  <2>4. ASSUME NEW d \in Deals, HitTarget(d) \/ TakeSentinel(d)
        PROVE  UNCHANGED ledger
        BY <2>4 DEF HitTarget, TakeSentinel
  <2>5. ASSUME NEW d \in Deals, PlaceDca(d) \/ InsertDeal(d)
        PROVE  ledger' = [ledger EXCEPT ![d] = "open"]
        BY <2>5 DEF PlaceDca, InsertDeal, RowSaved
  <2>6. QED  BY <1>0, <1>2, <2>1, <2>2, <2>3, <2>4, <2>5 DEF Tick
<1>3. CASE Exit
      BY <1>3 DEF Exit, Stop, LoopEnds, Killed
<1>4. CASE PortalDies
      BY <1>4 DEF PortalDies
<1>5. ASSUME NEW c \in Closers, Ask(c) PROVE UNCHANGED ledger
      BY <1>5 DEF Ask, AskSentinel, AskOffline
<1>6. ASSUME NEW c \in Closers, Serve(c)
      PROVE  \A d \in Deals : ledger[d] # "absent" => ledger'[d] # "absent"
  <2>1. CASE CloserRecord(c)
    <3>1. want[c] \in Deals
          BY <2>1 DEF CloserRecord, CloserInv
    <3>2. ledger' \in {ledger, RowClosed(ledger, want[c])}
          BY <2>1 DEF CloserRecord, TryRow
    <3>3. QED  BY <3>1, <3>2, <1>0 DEF RowClosed
  <2>2. CASE GiveUp(c) \/ CloserLock(c) \/ Recheck(c) \/ LoadSnapshot(c)
                       \/ CloserPersist(c)
        BY <2>2 DEF GiveUp, CloserLock, Recheck, LoadSnapshot, CloserPersist
  <2>3. QED  BY <1>6, <2>1, <2>2 DEF Serve
<1>7. CASE UNCHANGED vars
      BY <1>7 DEF vars
<1>8. QED
      BY <1>1, <1>2, <1>3, <1>4, <1>5, <1>6, <1>7 DEF Next

----------------------------------------------------------------------------
\* The invariants about the books.

\* The engine's memory stays ahead of the file.
LEMMA AheadStep ==
    ASSUME TypeOK, StepInv, LockInv, AheadInv, CloserExcludesEngine,
           [Next]_vars
    PROVE  AheadInv'
<1> USE DEF AheadInv, History!Forward
<1>1. mem \in Books /\ file \in Books
      BY DEF TypeOK
<1>2. SUFFICES ASSUME bot' \in Owning, NEW d \in Deals
               PROVE  History!Forward(file'.st[d], mem'.st[d])
      OBVIOUS
<1>3. CASE EngineWrites
      BY <1>3 DEF EngineWrites
<1>4. CASE FileKept
  <2>1. CASE MemKept   BY <1>2, <1>4, <2>1 DEF MemKept, FileKept
  <2>2. CASE MemLoads  BY <2>2, <1>4 DEF MemLoads, FileKept
  <2>3. CASE MemTracks
    <3>1. cur \in Deals /\ mem.st[cur] = "absent"
          BY <2>3 DEF MemTracks, StepInv
    <3>2. mem'.st[d] = IF d = cur THEN "open" ELSE mem.st[d]
          BY <1>1, <2>3, <3>1 DEF MemTracks, OpenIn, Books
    <3>3. bot \in Owning /\ file' = file
          BY <1>4, <2>3 DEF MemTracks, FileKept
    <3>4. QED  BY <3>1, <3>2, <3>3
  <2>4. ASSUME NEW e \in Deals, MemCloses(e)
        PROVE  History!Forward(file'.st[d], mem'.st[d])
    <3>1. bot \in Owning /\ file' = file
          BY <1>4, <2>4 DEF MemCloses, FileKept
    <3>2. \/ mem'.st[d] = mem.st[d]
          \/ mem.st[d] = "open" /\ mem'.st[d] = "closed"
          BY <1>1, <2>4 DEF MemCloses, CloseIn, Books
    <3>3. QED  BY <3>1, <3>2
  <2>5. CASE MemLost
        BY <1>2, <2>5 DEF MemLost, Owning, TickStages
  <2>6. QED  BY <2>1, <2>2, <2>3, <2>4, <2>5, MemMoves
<1>5. ASSUME NEW c \in Closers, CloserWrites(c) PROVE FALSE
  <2>1. bot \in {"down", "boot"} /\ bot' = bot
        BY <1>5 DEF CloserWrites, CloserExcludesEngine, engineVars
  <2>2. QED  BY <2>1, <1>2 DEF Owning, TickStages
<1>6. QED  BY <1>3, <1>4, <1>5, FileMoves

\* A portal worker's copy stays in step with the file.
LEMMA CloserStep ==
    ASSUME TypeOK, StepInv, LockInv, CloserInv, CloserExcludesEngine,
           [Next]_vars
    PROVE  CloserInv'
<1> USE DEF CloserInv
<1>1. ASSUME NEW c \in Closers, Serve(c) PROVE CloserInv'
  <2>1. \A e \in Closers \ {c} :
            /\ pc'[e] = pc[e] /\ want'[e] = want[e] /\ snap'[e] = snap[e]
        BY <1>1 DEF TypeOK, Serve, GiveUp, CloserLock, Recheck, LoadSnapshot,
           CloserRecord, CloserPersist, Reset, Become, closerVars
  <2>2. CASE CloserPersist(c)
    <3>1. pc'[c] = "idle" /\ pc[c] = "recorded"
          BY <2>2 DEF CloserPersist, Reset, Become, TypeOK
    <3>2. \A e \in Closers \ {c} : pc[e] \notin {"loaded", "recorded"}
          BY <3>1, ConstantsAssumption DEF LockInv, Locked
    <3>3. QED  BY <2>1, <3>1, <3>2
  <2>3. CASE GiveUp(c) \/ CloserLock(c) \/ Recheck(c)
    <3>1. /\ file' = file
          /\ pc'[c] \in {"idle", "locked", "checked"}
          /\ \/ pc'[c] = "idle"
             \/ want'[c] = want[c] /\ pc[c] # "idle"
          BY <2>3 DEF TypeOK, GiveUp, CloserLock, Recheck, Reset, Become,
             closerVars, diskVars
    <3>2. QED  BY <2>1, <3>1
  <2>4. CASE LoadSnapshot(c)
    <3>1. /\ file' = file
          /\ \/ pc'[c] = "idle"
             \/ /\ pc'[c] = "loaded" /\ want'[c] = want[c] /\ pc[c] # "idle"
                /\ snap'[c] = file /\ file.st[want[c]] = "open"
          BY <2>4 DEF TypeOK, LoadSnapshot, Reset, Become, closerVars, diskVars
    <3>2. QED  BY <2>1, <3>1
  <2>5. CASE CloserRecord(c)
    <3>1. /\ file' = file /\ pc[c] = "loaded"
          /\ pc'[c] = "recorded" /\ want'[c] = want[c]
          /\ snap'[c] = CloseIn(snap[c], want[c])
          BY <2>5 DEF TypeOK, CloserRecord, Become, closerVars, diskVars
    <3>2. QED  BY <2>1, <3>1
  <2>6. QED  BY <1>1, <2>2, <2>3, <2>4, <2>5 DEF Serve
<1>2. ASSUME NEW c \in Closers, Ask(c) PROVE CloserInv'
      BY <1>2 DEF Ask, AskSentinel, AskOffline, Become, TypeOK, closerVars,
         diskVars
<1>3. CASE PortalDies
      BY <1>3 DEF PortalDies
<1>4. CASE UNCHANGED <<pc, want, snap>>
  <2>1. CASE FileKept
        BY <1>4, <2>1 DEF FileKept
  <2>2. CASE EngineWrites
    <3>1. \A c \in Closers : pc[c] \notin {"loaded", "recorded"}
          BY <2>2 DEF EngineWrites, CloserExcludesEngine, Owning, TickStages
    <3>2. QED  BY <1>4, <3>1
  <2>3. ASSUME NEW c \in Closers, CloserWrites(c)
        PROVE  FALSE
        BY <1>4, <2>3 DEF CloserWrites, TypeOK
  <2>4. QED  BY <2>1, <2>2, <2>3, FileMoves
<1>5. CASE Boot
      BY <1>4, <1>5 DEF Boot, Spawn, BootLock, BootTimeout, LoadState,
         closerVars
<1>6. CASE Tick
      BY <1>4, <1>6, TickFrame
<1>7. CASE Exit
      BY <1>4, <1>7 DEF Exit, Stop, LoopEnds, Killed, closerVars
<1>8. CASE UNCHANGED vars
      BY <1>4, <1>8 DEF vars, closerVars
<1>9. QED
      BY <1>1, <1>2, <1>3, <1>5, <1>6, <1>7, <1>8 DEF Next

\* How a portal worker's copy may change.
LEMMA SnapMoves ==
    ASSUME TypeOK, StepInv, CloserInv, [Next]_vars, NEW c \in Closers
    PROVE  \/ snap'[c] = snap[c]
           \/ snap'[c] = NoBooks
           \/ snap'[c] = file
           \/ want[c] \in Deals /\ snap'[c] = CloseIn(snap[c], want[c])
<1> USE DEF closerVars
<1>1. CASE Boot
      BY <1>1 DEF Boot, Spawn, BootLock, BootTimeout, LoadState
<1>2. CASE Tick
      BY <1>2, TickFrame
<1>3. CASE Exit
      BY <1>3 DEF Exit, Stop, LoopEnds, Killed
<1>4. CASE PortalDies
      BY <1>4 DEF PortalDies
<1>5. ASSUME NEW e \in Closers, Ask(e) PROVE UNCHANGED snap
      BY <1>5 DEF Ask, AskSentinel, AskOffline
<1>6. ASSUME NEW e \in Closers, Serve(e)
      PROVE  \/ snap'[c] = snap[c]
             \/ snap'[c] = NoBooks
             \/ snap'[c] = file
             \/ want[c] \in Deals /\ snap'[c] = CloseIn(snap[c], want[c])
  <2>1. snap \in [Closers -> Books]
        BY DEF TypeOK
  <2>2. CASE CloserRecord(e)
    <3>1. want[e] \in Deals
          BY <2>2 DEF CloserRecord, CloserInv
    <3>2. QED  BY <2>1, <2>2, <3>1 DEF CloserRecord
  <2>3. CASE GiveUp(e) \/ CloserLock(e) \/ Recheck(e) \/ LoadSnapshot(e)
                       \/ CloserPersist(e)
        BY <2>1, <2>3 DEF GiveUp, CloserLock, Recheck, LoadSnapshot,
           CloserPersist, Reset
  <2>4. QED  BY <1>6, <2>2, <2>3 DEF Serve
<1>7. CASE UNCHANGED vars
      BY <1>7 DEF vars
<1>8. QED
      BY <1>1, <1>2, <1>3, <1>4, <1>5, <1>6, <1>7 DEF Next

\* Opening a new deal, or closing any deal, keeps the balance in step with
\* the history.
LEMMA CountedMoves ==
    ASSUME NEW b \in Books, NEW d \in Deals, Counted(b)
    PROVE  /\ b.st[d] = "absent" => Counted(OpenIn(b, d))
           /\ Counted(CloseIn(b, d))
  BY DEF Counted, OpenIn, CloseIn, Books

\* No step counts a deal's PnL twice or forgets it.
LEMMA PnlStep ==
    ASSUME TypeOK, StepInv, CloserInv, PnlCountedOnce, [Next]_vars
    PROVE  PnlCountedOnce'
<1>1. /\ mem \in Books /\ file \in Books
      /\ \A c \in Closers : snap[c] \in Books
      BY DEF TypeOK
<1>2. Counted(NoBooks)
      BY EmptyBooks DEF Counted
<1>3. Counted(mem')
  <2>1. CASE MemKept   BY <2>1 DEF MemKept, PnlCountedOnce
  <2>2. CASE MemLoads  BY <2>2 DEF MemLoads, PnlCountedOnce
  <2>3. CASE MemTracks
        BY <1>1, <2>3, CountedMoves DEF MemTracks, StepInv, PnlCountedOnce
  <2>4. ASSUME NEW d \in Deals, MemCloses(d) PROVE Counted(mem')
        BY <1>1, <2>4, CountedMoves DEF MemCloses, PnlCountedOnce
  <2>5. CASE MemLost   BY <1>2, <2>5 DEF MemLost
  <2>6. QED  BY <2>1, <2>2, <2>3, <2>4, <2>5, MemMoves
<1>4. Counted(file')
  <2>1. CASE FileKept      BY <2>1 DEF FileKept, PnlCountedOnce
  <2>2. CASE EngineWrites  BY <2>2 DEF EngineWrites, PnlCountedOnce
  <2>3. ASSUME NEW c \in Closers, CloserWrites(c) PROVE Counted(file')
        BY <2>3 DEF CloserWrites, PnlCountedOnce
  <2>4. QED  BY <2>1, <2>2, <2>3, FileMoves
<1>5. ASSUME NEW c \in Closers PROVE Counted(snap'[c])
  <2>1. Counted(snap[c]) /\ Counted(file)
        BY DEF PnlCountedOnce
  <2>2. want[c] \in Deals => Counted(CloseIn(snap[c], want[c]))
        BY <1>1, <2>1, CountedMoves
  <2>3. QED  BY <1>2, <2>1, <2>2, SnapMoves
<1>6. QED  BY <1>3, <1>4, <1>5 DEF PnlCountedOnce, Counted

\* No step tracks a deal the ledger has no row for.
LEMMA KnownStep ==
    ASSUME TypeOK, StepInv, CloserInv, LedgerKnowsDeals, [Next]_vars
    PROVE  LedgerKnowsDeals'
<1>1. mem \in Books /\ file \in Books
      BY DEF TypeOK
<1>2. SUFFICES ASSUME NEW d \in Deals, ledger'[d] = "absent"
               PROVE  mem'.st[d] = "absent" /\ file'.st[d] = "absent"
      BY DEF LedgerKnowsDeals
<1>3. ledger[d] = "absent" /\ mem.st[d] = "absent" /\ file.st[d] = "absent"
      BY <1>2, RowsKept DEF LedgerKnowsDeals
<1>4. mem'.st[d] = "absent"
  <2>1. CASE MemKept   BY <1>3, <2>1 DEF MemKept
  <2>2. CASE MemLoads  BY <1>3, <2>2 DEF MemLoads
  <2>3. CASE MemTracks
    <3>1. cur \in Deals /\ cur # d
          BY <1>3, <2>3 DEF MemTracks, StepInv
    <3>2. QED  BY <1>1, <1>3, <2>3, <3>1 DEF MemTracks, OpenIn, Books
  <2>4. ASSUME NEW e \in Deals, MemCloses(e) PROVE mem'.st[d] = "absent"
        BY <1>1, <1>3, <2>4 DEF MemCloses, CloseIn, Books
  <2>5. CASE MemLost   BY <2>5, EmptyBooks DEF MemLost
  <2>6. QED  BY <2>1, <2>2, <2>3, <2>4, <2>5, MemMoves
<1>5. file'.st[d] = "absent"
  <2>1. CASE FileKept      BY <1>3, <2>1 DEF FileKept
  <2>2. CASE EngineWrites  BY <1>3, <2>2 DEF EngineWrites
  <2>3. ASSUME NEW c \in Closers, CloserWrites(c)
        PROVE  file'.st[d] = "absent"
    <3>1. want[c] \in Deals /\ file' = CloseIn(file, want[c])
          BY <2>3 DEF CloserWrites, CloserInv
    <3>2. QED  BY <1>1, <1>3, <3>1 DEF CloseIn, Books
  <2>4. QED  BY <2>1, <2>2, <2>3, FileMoves
<1>6. QED  BY <1>4, <1>5

\* No step opens a second deal.
LEMMA OneOpenStep ==
    ASSUME TypeOK, StepInv, CloserInv, OneOpenDeal, [Next]_vars
    PROVE  OneOpenDeal'
<1> USE DEF OpenDeals
<1>1. mem \in Books /\ file \in Books
      BY DEF TypeOK
<1>2. SUFFICES ASSUME NEW d \in Deals, NEW e \in Deals
               PROVE  /\ {d, e} \subseteq OpenDeals(mem') => d = e
                      /\ {d, e} \subseteq OpenDeals(file') => d = e
      BY DEF OneOpenDeal
<1>3. {d, e} \subseteq OpenDeals(mem') => d = e
  <2>1. CASE MemKept   BY <2>1 DEF MemKept, OneOpenDeal
  <2>2. CASE MemLoads  BY <2>2 DEF MemLoads, OneOpenDeal
  <2>3. CASE MemTracks
        BY <1>1, <2>3 DEF MemTracks, StepInv, OpenIn, Books
  <2>4. ASSUME NEW f \in Deals, MemCloses(f)
        PROVE  {d, e} \subseteq OpenDeals(mem') => d = e
        BY <1>1, <2>4 DEF MemCloses, CloseIn, Books, OneOpenDeal
  <2>5. CASE MemLost   BY <2>5, EmptyBooks DEF MemLost
  <2>6. QED  BY <2>1, <2>2, <2>3, <2>4, <2>5, MemMoves
<1>4. {d, e} \subseteq OpenDeals(file') => d = e
  <2>1. CASE FileKept      BY <2>1 DEF FileKept, OneOpenDeal
  <2>2. CASE EngineWrites  BY <2>2 DEF EngineWrites, OneOpenDeal
  <2>3. ASSUME NEW c \in Closers, CloserWrites(c)
        PROVE  {d, e} \subseteq OpenDeals(file') => d = e
    <3>1. want[c] \in Deals /\ file' = CloseIn(file, want[c])
          BY <2>3 DEF CloserWrites, CloserInv
    <3>2. QED  BY <1>1, <3>1 DEF CloseIn, Books, OneOpenDeal
  <2>4. QED  BY <2>1, <2>2, <2>3, FileMoves
<1>5. QED  BY <1>3, <1>4

\* What the engine is in the middle of.
LEMMA StepStep ==
    ASSUME TypeOK, StepInv, CloserInv, LedgerKnowsDeals, [Next]_vars
    PROVE  StepInv'
<1>0. \A d \in Deals : ledger[d] # "absent" => ledger'[d] # "absent"
      BY RowsKept
<1>1. CASE UNCHANGED engineVars
      BY <1>0, <1>1 DEF StepInv, engineVars, OpenDeals
<1>2. CASE Boot
  <2>1. step = "none"
        BY <1>2 DEF Boot, Spawn, BootLock, BootTimeout, LoadState, StepInv,
           TypeOK
  <2>2. step' = step
        BY <1>2 DEF Boot, Spawn, BootLock, BootTimeout, LoadState
  <2>3. QED  BY <2>1, <2>2 DEF StepInv
<1>3. CASE Tick
  <2>1. CASE BeginTick \/ NextStage \/ TickFails \/ WriteState
        BY <2>1 DEF BeginTick, NextStage, TickFails, WriteState, At, StepInv
  <2>2. CASE RecordHit \/ TrackDeal \/ PersistHandled
        BY <2>2 DEF RecordHit, TrackDeal, PersistHandled, StepInv
  <2>3. CASE RecordHandled
        BY <2>3 DEF RecordHandled, StepInv
  <2>4. ASSUME NEW d \in Deals, HitTarget(d) PROVE StepInv'
        BY <2>4 DEF HitTarget, At, StepInv
  <2>5. ASSUME NEW d \in Deals, PlaceDca(d) PROVE StepInv'
        BY <1>1, <2>5 DEF PlaceDca
  <2>6. ASSUME NEW d \in Deals, InsertDeal(d) PROVE StepInv'
    <3>1. mem.st[d] = "absent" /\ mem' = mem
          BY <2>6 DEF InsertDeal, LedgerKnowsDeals
    <3>2. ledger'[d] = "open"
          BY <2>6 DEF InsertDeal, TypeOK
    <3>3. QED  BY <2>6, <3>1, <3>2 DEF InsertDeal, At, StepInv, OpenDeals
  <2>7. ASSUME NEW d \in Deals, TakeSentinel(d) PROVE StepInv'
        BY <2>7 DEF TakeSentinel, At, StepInv
  <2>8. QED  BY <1>3, <2>1, <2>2, <2>3, <2>4, <2>5, <2>6, <2>7 DEF Tick
<1>4. CASE Exit
      BY <1>4 DEF Exit, Stop, LoopEnds, Killed, Gone, StepInv
<1>5. CASE PortalDies
      BY <1>1, <1>5 DEF PortalDies
<1>6. ASSUME NEW c \in Closers, Ask(c) PROVE StepInv'
      BY <1>1, <1>6 DEF Ask, AskSentinel, AskOffline
<1>7. ASSUME NEW c \in Closers, Serve(c) PROVE StepInv'
      BY <1>1, <1>7 DEF Serve, GiveUp, CloserLock, Recheck, LoadSnapshot,
         CloserRecord, CloserPersist
<1>8. CASE UNCHANGED vars
      BY <1>1, <1>8 DEF vars
<1>9. QED
      BY <1>2, <1>3, <1>4, <1>5, <1>6, <1>7, <1>8 DEF Next

----------------------------------------------------------------------------
\* The invariant and what follows from it.

CoreInv ==
    /\ TypeOK /\ StepInv /\ LockInv /\ CloserInv /\ AheadInv
    /\ CloserExcludesEngine /\ PnlCountedOnce /\ LedgerKnowsDeals
    /\ OneOpenDeal

\* The inductive invariant holds of a bot nobody has started yet.
LEMMA CoreInit == Init => CoreInv
<1> SUFFICES ASSUME Init PROVE CoreInv
    OBVIOUS
<1> USE ConstantsAssumption, EmptyBooks DEF Init
<1>1. NoBooks.st \in [Deals -> Status]
      BY DEF NoBooks, Status
<1>2. TypeOK
      BY <1>1 DEF TypeOK
<1>3. StepInv /\ CloserInv /\ AheadInv /\ CloserExcludesEngine
      BY DEF StepInv, CloserInv, AheadInv, CloserExcludesEngine, Owning,
         TickStages
<1>4. LockInv
      BY DEF LockInv, Locked
<1>5. PnlCountedOnce /\ LedgerKnowsDeals /\ OneOpenDeal
      BY DEF PnlCountedOnce, Counted, LedgerKnowsDeals, OneOpenDeal, OpenDeals
<1>6. QED  BY <1>2, <1>3, <1>4, <1>5 DEF CoreInv

\* Every step keeps the inductive invariant.
LEMMA CoreNext == CoreInv /\ [Next]_vars => CoreInv'
<1> SUFFICES ASSUME CoreInv, [Next]_vars PROVE CoreInv'
    OBVIOUS
<1> USE DEF CoreInv
<1>1. TypeOK'                BY TypeStep
<1>2. LockInv'               BY LockStep
<1>3. CloserExcludesEngine'  BY ExclusionStep
<1>4. AheadInv'              BY AheadStep
<1>5. CloserInv'             BY CloserStep
<1>6. PnlCountedOnce'        BY PnlStep
<1>7. LedgerKnowsDeals'      BY KnownStep
<1>8. OneOpenDeal'           BY OneOpenStep
<1>9. StepInv'               BY StepStep
<1>10. QED
  BY <1>1, <1>2, <1>3, <1>4, <1>5, <1>6, <1>7, <1>8, <1>9

\* The inductive invariant holds of every behaviour.
LEMMA CoreInvariant == Spec => []CoreInv
  BY CoreInit, CoreNext, PTL DEF Spec

\* Every variable keeps its type in every behaviour of engine and portal.
THEOREM TypeCorrect == Spec => []TypeOK
<1>1. CoreInv => TypeOK
      BY DEF CoreInv
<1>2. QED  BY <1>1, CoreInvariant, PTL

\* However many portal workers and faults there are: the balance counts every
\* closed deal once, the ledger has a row for every deal the engine or the
\* file knows, at most one deal is open, and no portal worker edits the file
\* of an engine that owns the state.
THEOREM Safety ==
    Spec => [](/\ PnlCountedOnce /\ LedgerKnowsDeals /\ OneOpenDeal
               /\ CloserExcludesEngine)
<1>1. CoreInv => /\ PnlCountedOnce /\ LedgerKnowsDeals /\ OneOpenDeal
                 /\ CloserExcludesEngine
      BY DEF CoreInv
<1>2. QED  BY <1>1, CoreInvariant, PTL

\* The state lock has a holder whenever it is taken: an engine that is loading
\* (and no other process state), or the one portal worker between its lock and
\* its answer.  No timeout, second look, missing deal, kill or end of the portal
\* leaves it behind (exclusive_lock, main_paper.main, _close_deal_offline).
THEOREM LocksHaveHolders == Spec => []LockInv
<1>1. CoreInv => LockInv
      BY DEF CoreInv
<1>2. QED  BY <1>1, CoreInvariant, PTL

\* A portal worker that closes a deal offline has the state lock and no engine
\* has loaded the file it rewrites, whatever starts, dies or waits meanwhile
\* (_locked_close, the boot lock of main_paper.py).
THEOREM ClosersExcludeEngines == Spec => []CloserExcludesEngine
<1>1. CoreInv => CloserExcludesEngine
      BY DEF CoreInv
<1>2. QED  BY <1>1, CoreInvariant, PTL

----------------------------------------------------------------------------
\* state.json follows DealHistory.

\* An empty state.json is an initial state of DealHistory.
LEMMA HistoryInit == Init => History!Init
<1> SUFFICES ASSUME Init PROVE History!Init
    OBVIOUS
<1>1. file.st = [d \in Deals |-> "absent"]
      BY DEF Init, NoBooks
<1>2. file.paid = [d \in Deals |-> 0]
      BY DEF Init, NoBooks
<1>3. QED  BY <1>1, <1>2 DEF History!Init, History!Credits

\* Every step is, seen through state.json, a move of DealHistory or none.
LEMMA HistoryNext ==
    CoreInv /\ CoreInv' /\ [Next]_vars => [History!Move]_(History!vars)
<1> SUFFICES ASSUME CoreInv, CoreInv', [Next]_vars, file' # file
             PROVE  History!Move
    BY DEF History!vars
<1>1. /\ file' \in Books /\ file \in Books
      /\ \A d \in Deals : file'.paid[d] = IF file'.st[d] = "closed" THEN 1 ELSE 0
      BY DEF CoreInv, TypeOK, PnlCountedOnce, Counted
<1>2. file'.st \in [Deals -> Status] /\ file'.paid = History!Credits(file'.st)
      BY <1>1 DEF Books, History!Credits
<1>3. ASSUME NEW d \in Deals
      PROVE  History!Forward(file.st[d], file'.st[d])
  <2>1. CASE EngineWrites
        BY <2>1 DEF EngineWrites, CoreInv, AheadInv
  <2>2. ASSUME NEW c \in Closers, CloserWrites(c)
        PROVE  History!Forward(file.st[d], file'.st[d])
    <3>1. want[c] \in Deals /\ file' = CloseIn(file, want[c])
          BY <2>2 DEF CloserWrites, CoreInv, CloserInv
    <3>2. QED  BY <1>1, <3>1 DEF CloseIn, Books, History!Forward
  <2>3. QED  BY <2>1, <2>2, FileMoves DEF FileKept, CoreInv
<1>4. QED  BY <1>2, <1>3 DEF History!Move, History!Status, Status

\* No interleaving of ticks, crashes, restarts and portal closes re-opens or
\* forgets a deal of state.json or credits one twice: the file implements
\* DealHistory.
THEOREM Refinement == Spec => FollowsHistory
  BY HistoryInit, HistoryNext, CoreInvariant, PTL
     DEF Spec, FollowsHistory, History!Spec

\* A close that a running engine has taken up sticks as long as that engine lives:
\* a sentinel goes only when the engine's memory has the deal open no more, and
\* its memory never goes back, although the sentinel is unlinked before the deal
\* is closed, the file may fail to be written, and the rest of a tick may be
\* skipped (_check_deal_sentinels, DealCloseHandler).
ServedSticks ==
    [][\A d \in Deals :
           /\ d \in sentinels /\ d \notin sentinels' =>
                  bot' \in Owning /\ mem'.st[d] # "open"
           /\ bot \in Owning /\ bot' \in Owning =>
                  History!Forward(mem.st[d], mem'.st[d])]_vars

\* Sentinels are removed by the tick that takes them, and by nobody else.
LEMMA SentinelMoves ==
    ASSUME StepInv, [Next]_vars, NEW d \in sentinels, d \notin sentinels'
    PROVE  /\ bot \in Owning /\ bot' \in Owning
           /\ \E e \in Deals : TakeSentinel(e) /\ e = d
<1> USE DEF diskVars
<1>1. CASE Boot
      BY <1>1 DEF Boot, Spawn, BootLock, BootTimeout, LoadState
<1>2. CASE Tick
  <2>1. PICK e \in Deals : TakeSentinel(e)
        BY <1>2 DEF Tick, BeginTick, NextStage, TickFails, WriteState, RecordHit, TrackDeal,
           RecordHandled, PersistHandled, HitTarget, PlaceDca, InsertDeal
  <2>2. e = d
        BY <2>1 DEF TakeSentinel
  <2>3. QED  BY <1>2, <2>1, <2>2, TickFrame
<1>3. CASE Exit
      BY <1>3 DEF Exit, Stop, LoopEnds, Killed
<1>4. CASE PortalDies
      BY <1>4 DEF PortalDies
<1>5. ASSUME NEW c \in Closers, Ask(c) \/ Serve(c) PROVE sentinels \subseteq sentinels'
      BY <1>5 DEF Ask, AskSentinel, AskOffline, Serve, GiveUp, CloserLock, Recheck,
         LoadSnapshot, CloserRecord, CloserPersist
<1>6. CASE UNCHANGED vars
      BY <1>6 DEF vars
<1>7. QED
      BY <1>1, <1>2, <1>3, <1>4, <1>5, <1>6 DEF Next

\* A close taken up is not forgotten by the engine that took it up.
THEOREM ServedClosesStick == Spec => ServedSticks
<1>1. ASSUME CoreInv, [Next]_vars, NEW d \in Deals
      PROVE  /\ d \in sentinels /\ d \notin sentinels' => bot' \in Owning /\ mem'.st[d] # "open"
             /\ bot \in Owning /\ bot' \in Owning => History!Forward(mem.st[d], mem'.st[d])
  <2>1. StepInv /\ mem \in Books
        BY <1>1 DEF CoreInv, TypeOK
  <2>2. ASSUME d \in sentinels, d \notin sentinels'
        PROVE  bot' \in Owning /\ mem'.st[d] # "open"
    <3>1. bot' \in Owning /\ TakeSentinel(d)
          BY <1>1, <2>1, <2>2, SentinelMoves
    <3>2. mem' = CloseIn(mem, d)
          BY <3>1 DEF TakeSentinel
    <3>3. QED  BY <2>1, <3>1, <3>2 DEF CloseIn, Books
  <2>3. ASSUME bot \in Owning, bot' \in Owning
        PROVE  History!Forward(mem.st[d], mem'.st[d])
    <3>1. ASSUME NEW e \in Deals, MemCloses(e) PROVE History!Forward(mem.st[d], mem'.st[d])
          BY <2>1, <3>1 DEF MemCloses, CloseIn, Books, History!Forward
    <3>2. CASE MemTracks
          BY <2>1, <3>2 DEF MemTracks, StepInv, OpenIn, Books, History!Forward
    <3>3. ~MemLoads /\ ~MemLost
          BY <2>3 DEF MemLoads, MemLost, Owning, TickStages
    <3>4. CASE MemKept
          BY <3>4 DEF MemKept, History!Forward
    <3>5. QED  BY <1>1, <2>1, <3>1, <3>2, <3>3, <3>4, MemMoves
  <2>4. QED  BY <2>2, <2>3
<1>2. CoreInv /\ [Next]_vars =>
          [\A d \in Deals :
             /\ d \in sentinels /\ d \notin sentinels' => bot' \in Owning /\ mem'.st[d] # "open"
             /\ bot \in Owning /\ bot' \in Owning => History!Forward(mem.st[d], mem'.st[d])]_vars
      BY <1>1
<1>3. QED  BY <1>2, CoreInvariant, PTL DEF Spec, ServedSticks

----------------------------------------------------------------------------
\* Closed rows.

\* Nothing is closed at first.
LEMMA RowInit == Init => RowInv
<1> SUFFICES ASSUME Init PROVE RowInv
    OBVIOUS
<1>1. \A d \in Deals : file.st[d] = "absent" /\ mem.st[d] = "absent"
      BY EmptyBooks DEF Init
<1>2. QED  BY <1>1 DEF Init, RowInv

\* Every step keeps what is known of closed rows.
LEMMA RowNext == CoreInv /\ CoreInv' /\ RowInv /\ [Next]_vars => RowInv'
<1> SUFFICES ASSUME CoreInv, CoreInv', RowInv, [Next]_vars, "db" \notin Faults
             PROVE  RowInv'
    BY DEF RowInv
<1>0. /\ mem \in Books /\ file \in Books /\ ledger \in [Deals -> Status]
      /\ StepInv /\ CloserInv /\ LedgerKnowsDeals /\ TypeOK
      BY DEF CoreInv, TypeOK
<1>1. CASE UNCHANGED <<mem, file, ledger, step, cur, pc, want>>
      BY <1>1 DEF RowInv
<1>2. CASE Boot
  <2>1. CASE LoadState
    <3>1. /\ mem' = file /\ file' = file /\ ledger' = Replayed(ledger, file)
          /\ pc' = pc /\ want' = want
          BY <2>1 DEF LoadState, TryRow, closerVars
    <3>2. \A d \in Deals : ledger[d] = "closed" => ledger'[d] = "closed"
          BY <1>0, <3>1 DEF Replayed
    <3>3. QED  BY <3>1, <3>2 DEF RowInv
  <2>2. CASE Spawn \/ BootLock \/ BootTimeout
        BY <1>1, <2>2 DEF Spawn, BootLock, BootTimeout, closerVars, diskVars
  <2>3. QED  BY <1>2, <2>1, <2>2 DEF Boot
<1>3. CASE Tick
  <2>0. UNCHANGED <<pc, want>>
        BY <1>0, <1>3, TickFrame
  <2>1. CASE BeginTick \/ NextStage \/ TickFails
        BY <1>1, <2>0, <2>1 DEF BeginTick, NextStage, TickFails, diskVars
  <2>2. CASE WriteState
    <3>1. /\ UNCHANGED <<mem, ledger, step, cur>> /\ step = "none"
          /\ file' = mem \/ file' = file
          BY <2>2 DEF WriteState, TryWrite, At
    <3>2. QED  BY <2>0, <3>1 DEF RowInv
  <2>3. CASE PersistHandled
    <3>1. /\ UNCHANGED <<mem, ledger>> /\ step = "recorded" /\ step' = "none"
          /\ file' = mem \/ file' = file
          BY <2>3 DEF PersistHandled, TryWrite
    <3>2. QED  BY <2>0, <3>1 DEF RowInv
  <2>4. CASE RecordHit \/ RecordHandled
    <3>1. /\ UNCHANGED <<mem, file>> /\ step \in {"closed", "handled"}
          /\ step' \in {"none", "recorded"}
          /\ ledger' = RowClosed(ledger, cur)
          BY <2>4 DEF RecordHit, RecordHandled, TryRow
    <3>2. cur \in Deals
          BY <1>0, <3>1 DEF StepInv
    <3>3. /\ \A d \in Deals : ledger[d] = "closed" => ledger'[d] = "closed"
          /\ ledger[cur] # "absent" => ledger'[cur] = "closed"
          BY <1>0, <3>1, <3>2 DEF RowClosed
    <3>4. mem.st[cur] = "closed" => ledger[cur] # "absent"
          BY <1>0, <3>2 DEF LedgerKnowsDeals
    <3>5. QED  BY <2>0, <3>1, <3>2, <3>3, <3>4 DEF RowInv
  <2>5. CASE TrackDeal
    <3>1. /\ UNCHANGED <<file, ledger>> /\ step = "inserted"
          /\ mem' = OpenIn(mem, cur) /\ cur \in Deals
          BY <1>0, <2>5 DEF TrackDeal, StepInv, diskVars
    <3>2. \A d \in Deals : mem'.st[d] = "closed" => mem.st[d] = "closed"
          BY <1>0, <3>1 DEF OpenIn, Books
    <3>3. QED  BY <2>0, <3>1, <3>2 DEF RowInv
  <2>6. ASSUME NEW d \in Deals, HitTarget(d) \/ TakeSentinel(d)
        PROVE  RowInv'
    <3>1. /\ UNCHANGED <<file, ledger>> /\ step = "none"
          /\ mem' = CloseIn(mem, d)
          /\ mem.st[d] = "open" => cur' = d /\ step' \in {"closed", "handled"}
          /\ mem.st[d] # "open" => mem' = mem
          BY <1>0, <2>6 DEF HitTarget, TakeSentinel, At, diskVars, CloseIn
    <3>2. \A e \in Deals : mem'.st[e] = "closed" =>
                \/ mem.st[e] = "closed"
                \/ e = d /\ mem.st[d] = "open"
          BY <1>0, <3>1 DEF CloseIn, Books
    <3>3. QED  BY <2>0, <3>1, <3>2 DEF RowInv
  <2>7. ASSUME NEW d \in Deals, PlaceDca(d) PROVE RowInv'
    <3>1. /\ UNCHANGED <<mem, file, step, cur>> /\ mem.st[d] = "open"
          /\ \A e \in Deals \ {d} : ledger'[e] = ledger[e]
          BY <1>0, <2>7 DEF PlaceDca, RowSaved, engineVars
    <3>2. file.st[d] # "closed"
          BY <2>7, <3>1 DEF CoreInv, AheadInv, PlaceDca, At, Owning,
             TickStages, History!Forward
    <3>3. \A c \in Closers : pc[c] # "recorded"
          BY <2>7 DEF CoreInv, CloserExcludesEngine, PlaceDca, At
    <3>4. QED  BY <2>0, <3>1, <3>2, <3>3 DEF RowInv
  <2>8. ASSUME NEW d \in Deals, InsertDeal(d) PROVE RowInv'
    <3>1. /\ UNCHANGED <<mem, file>> /\ step = "none" /\ ledger[d] = "absent"
          /\ \A e \in Deals \ {d} : ledger'[e] = ledger[e]
          BY <1>0, <2>8 DEF InsertDeal, At
    <3>2. mem.st[d] = "absent" /\ file.st[d] = "absent"
          BY <1>0, <3>1 DEF LedgerKnowsDeals
    <3>3. \A c \in Closers : pc[c] # "recorded"
          BY <2>8 DEF CoreInv, CloserExcludesEngine, InsertDeal, At
    <3>4. QED  BY <2>0, <3>1, <3>2, <3>3 DEF RowInv
  <2>9. QED
    BY <1>3, <2>1, <2>2, <2>3, <2>4, <2>5, <2>6, <2>7, <2>8 DEF Tick
<1>4. CASE Exit
  <2>1. /\ mem' = NoBooks /\ UNCHANGED <<file, ledger, pc, want>>
        BY <1>4 DEF Exit, Stop, LoopEnds, Killed, Gone, TryWrite, closerVars,
           diskVars
  <2>2. \A d \in Deals : mem'.st[d] = "absent"
        BY <2>1, EmptyBooks
  <2>3. QED  BY <2>1, <2>2 DEF RowInv
<1>5. CASE PortalDies
  <2>1. /\ UNCHANGED <<mem, file, ledger, step, cur>>
        /\ \A c \in Closers : pc'[c] = "idle"
        BY <1>5 DEF PortalDies, engineVars, diskVars
  <2>2. QED  BY <2>1 DEF RowInv
<1>6. ASSUME NEW c \in Closers, Ask(c) PROVE RowInv'
  <2>1. /\ UNCHANGED <<mem, file, ledger, step, cur>>
        /\ \A e \in Closers :
              pc'[e] = "recorded" => pc[e] = "recorded" /\ want'[e] = want[e]
        BY <1>0, <1>6 DEF TypeOK, Ask, AskSentinel, AskOffline, Become,
           engineVars, closerVars, diskVars
  <2>2. QED  BY <2>1 DEF RowInv
<1>7. ASSUME NEW c \in Closers, Serve(c) PROVE RowInv'
  <2>1. CASE CloserRecord(c)
    <3>1. /\ UNCHANGED <<mem, file, step, cur, want>> /\ want[c] \in Deals
          /\ ledger' = RowClosed(ledger, want[c])
          /\ file.st[want[c]] = "open"
          /\ \A e \in Closers \ {c} : pc'[e] = pc[e]
          BY <1>0, <2>1 DEF CloserRecord, TryRow, Become, TypeOK, CloserInv,
             engineVars
    <3>2. /\ \A d \in Deals : ledger[d] = "closed" => ledger'[d] = "closed"
          /\ ledger'[want[c]] = "closed"
          BY <1>0, <3>1 DEF RowClosed, LedgerKnowsDeals
    <3>3. QED  BY <3>1, <3>2 DEF RowInv
  <2>2. CASE CloserPersist(c)
    <3>1. /\ UNCHANGED <<mem, ledger, step, cur>>
          /\ pc[c] = "recorded" /\ want[c] \in Deals
          /\ file' = file \/ file' = CloseIn(file, want[c])
          /\ pc'[c] = "idle"
          /\ \A e \in Closers \ {c} : pc'[e] = pc[e] /\ want'[e] = want[e]
          BY <1>0, <2>2 DEF CloserPersist, TryWrite, Reset, Become, TypeOK,
             CloserInv, engineVars
    <3>2. \A d \in Deals : file'.st[d] = "closed" =>
                file.st[d] = "closed" \/ d = want[c]
          BY <1>0, <3>1 DEF CloseIn, Books
    <3>3. QED  BY <3>1, <3>2 DEF RowInv
  <2>3. CASE GiveUp(c) \/ CloserLock(c) \/ Recheck(c) \/ LoadSnapshot(c)
    <3>1. /\ UNCHANGED <<mem, file, ledger, step, cur>>
          /\ \A e \in Closers :
              pc'[e] = "recorded" => pc[e] = "recorded" /\ want'[e] = want[e]
          BY <1>0, <2>3 DEF TypeOK, GiveUp, CloserLock, Recheck,
             LoadSnapshot, Reset, Become, engineVars, closerVars, diskVars
    <3>2. QED  BY <3>1 DEF RowInv
  <2>4. QED  BY <1>7, <2>1, <2>2, <2>3 DEF Serve
<1>8. CASE UNCHANGED vars
      BY <1>1, <1>8 DEF vars, engineVars, closerVars, diskVars
<1>9. QED
      BY <1>2, <1>3, <1>4, <1>5, <1>6, <1>7, <1>8 DEF Next

\* When no ledger write fails, a deal that state.json shows as closed has a
\* closed row, crashes and restarts included.
THEOREM ClosedRows == Spec => []ClosedRowsFollowFile
<1>1. RowInv => ClosedRowsFollowFile
      BY DEF RowInv, ClosedRowsFollowFile
<1>2. QED
  BY <1>1, RowInit, RowNext, CoreInvariant, PTL DEF Spec

----------------------------------------------------------------------------
\* Rows adrift.

\* The engine has the deal: open in memory, or in the middle of its insert or
\* its close.
Watched(d) == \/ mem.st[d] = "open"
              \/ step \in {"inserted", "closed", "handled"} /\ cur = d

\* An open row of the ledger that state.json and the engine do not know as open.
Adrift(d) == ledger[d] = "open" /\ file.st[d] # "open" /\ ~Watched(d)

\* Before it has loaded, an engine has nothing in memory.
EmptyInv == bot \notin Owning => mem = NoBooks /\ step = "none"

\* Every step keeps the memory of a process that owns nothing empty.
LEMMA EmptyNext == StepInv /\ EmptyInv /\ [Next]_vars => EmptyInv'
<1> SUFFICES ASSUME StepInv, EmptyInv, [Next]_vars, bot' \notin Owning
             PROVE  mem' = NoBooks /\ step' = "none"
    BY DEF EmptyInv
<1> USE DEF engineVars
<1>1. CASE UNCHANGED <<bot, mem, step>>
      BY <1>1 DEF EmptyInv
<1>2. CASE Boot
  <2>1. UNCHANGED <<mem, step>> /\ bot \in {"down", "boot"}
        BY <1>2 DEF Boot, Spawn, BootLock, BootTimeout, LoadState, Owning
  <2>2. QED  BY <2>1 DEF EmptyInv, Owning, TickStages
<1>3. CASE Tick
      BY <1>3, TickFrame
<1>4. CASE Exit
      BY <1>4 DEF Exit, Stop, LoopEnds, Killed, Gone
<1>5. CASE PortalDies
      BY <1>1, <1>5 DEF PortalDies
<1>6. ASSUME NEW c \in Closers, Ask(c) \/ Serve(c) PROVE UNCHANGED <<bot, mem, step>>
      BY <1>6 DEF Ask, AskSentinel, AskOffline, closerVars, Serve, GiveUp, CloserLock,
         Recheck, LoadSnapshot, CloserRecord, CloserPersist
<1>7. CASE UNCHANGED vars
      BY <1>1, <1>7 DEF vars
<1>8. QED
      BY <1>1, <1>2, <1>3, <1>4, <1>5, <1>6, <1>7 DEF Next

\* The ways a step changes a ledger row: inserted, replayed from the file, saved
\* by a DCA order of an open deal, or closed by whoever closes the deal.
LEMMA RowMoves ==
    ASSUME TypeOK, StepInv, CloserInv, [Next]_vars, NEW d \in Deals
    PROVE  \/ ledger'[d] = ledger[d]
           \/ InsertDeal(d) \/ PlaceDca(d)
           \/ LoadState /\ ledger'[d] = file.st[d] /\ ledger[d] = "absent"
           \/ (RecordHit \/ RecordHandled) /\ cur = d /\ ledger'[d] = "closed"
           \/ \E c \in Closers : pc[c] = "loaded" /\ want[c] = d
<1> USE DEF diskVars, TypeOK
<1>1. CASE UNCHANGED ledger
      BY <1>1
<1>2. CASE LoadState
      BY <1>2, RowTypes DEF LoadState, TryRow
<1>3. CASE RecordHit \/ RecordHandled
  <2>1. cur \in Deals /\ (ledger' = ledger \/ ledger' = RowClosed(ledger, cur))
        BY <1>3 DEF RecordHit, RecordHandled, TryRow, StepInv
  <2>2. QED  BY <1>3, <2>1, RowTypes
<1>4. ASSUME NEW e \in Deals, PlaceDca(e) \/ InsertDeal(e), e # d
      PROVE  ledger'[d] = ledger[d]
      BY <1>4, RowTypes DEF PlaceDca, InsertDeal
<1>5. ASSUME NEW c \in Closers, CloserRecord(c)
      PROVE  ledger'[d] = ledger[d] \/ (pc[c] = "loaded" /\ want[c] = d)
  <2>1. pc[c] = "loaded" /\ want[c] \in Deals
        /\ (ledger' = ledger \/ ledger' = RowClosed(ledger, want[c]))
        BY <1>5 DEF CloserRecord, TryRow, CloserInv
  <2>2. QED  BY <2>1, RowTypes
<1>6. CASE Boot
      BY <1>1, <1>2, <1>6 DEF Boot, Spawn, BootLock, BootTimeout
<1>7. CASE Tick
      BY <1>1, <1>3, <1>4, <1>7 DEF Tick, BeginTick, NextStage, TickFails, WriteState,
         TrackDeal, PersistHandled, HitTarget, TakeSentinel
<1>8. CASE Exit
      BY <1>1, <1>8 DEF Exit, Stop, LoopEnds, Killed
<1>9. CASE PortalDies
      BY <1>1, <1>9 DEF PortalDies
<1>10. ASSUME NEW c \in Closers, Ask(c) PROVE UNCHANGED ledger
      BY <1>10 DEF Ask, AskSentinel, AskOffline
<1>11. ASSUME NEW c \in Closers, Serve(c)
       PROVE  ledger'[d] = ledger[d] \/ (pc[c] = "loaded" /\ want[c] = d)
      BY <1>5, <1>11 DEF Serve, GiveUp, CloserLock, Recheck, LoadSnapshot, CloserPersist
<1>12. CASE UNCHANGED vars
      BY <1>1, <1>12 DEF vars
<1>13. QED
      BY <1>1, <1>6, <1>7, <1>8, <1>9, <1>10, <1>11, <1>12 DEF Next

\* A deal comes to be in the engine's hands by its insert or out of its memory.
LEMMA HandMoves ==
    ASSUME StepInv, [Next]_vars, NEW d \in Deals,
           step' \in {"inserted", "closed", "handled"}, cur' = d
    PROVE  Watched(d) \/ InsertDeal(d)
<1> USE DEF engineVars
<1>1. CASE UNCHANGED <<step, cur>>
      BY <1>1 DEF Watched
<1>2. ASSUME NEW e \in Deals, HitTarget(e) \/ TakeSentinel(e) PROVE Watched(d)
      BY <1>1, <1>2 DEF HitTarget, TakeSentinel, Watched
<1>3. ASSUME NEW e \in Deals, InsertDeal(e) PROVE InsertDeal(d)
      BY <1>3 DEF InsertDeal
<1>4. CASE RecordHit \/ TrackDeal \/ RecordHandled \/ PersistHandled
      BY <1>4 DEF RecordHit, TrackDeal, RecordHandled, PersistHandled
<1>5. CASE BeginTick \/ NextStage \/ TickFails \/ WriteState \/ \E e \in Deals : PlaceDca(e)
      BY <1>1, <1>5 DEF BeginTick, NextStage, TickFails, WriteState, PlaceDca
<1>6. CASE Boot
      BY <1>1, <1>6 DEF Boot, Spawn, BootLock, BootTimeout, LoadState
<1>7. CASE Tick
      BY <1>2, <1>3, <1>4, <1>5, <1>7 DEF Tick
<1>8. CASE Exit
      BY <1>8 DEF Exit, Stop, LoopEnds, Killed, Gone
<1>9. CASE PortalDies
      BY <1>1, <1>9 DEF PortalDies
<1>10. ASSUME NEW c \in Closers, Ask(c) \/ Serve(c) PROVE UNCHANGED <<step, cur>>
      BY <1>10 DEF Ask, AskSentinel, AskOffline, Serve, GiveUp, CloserLock, Recheck,
         LoadSnapshot, CloserRecord, CloserPersist, closerVars
<1>11. CASE UNCHANGED vars
      BY <1>1, <1>11 DEF vars
<1>12. QED
      BY <1>6, <1>7, <1>8, <1>9, <1>1, <1>10, <1>11 DEF Next

\* Nothing takes up a row that is adrift.
LEMMA AdriftStays ==
    ASSUME CoreInv, [Next]_vars, NEW d \in Deals, Adrift(d)
    PROVE  Adrift(d)'
<1>0. /\ TypeOK /\ StepInv /\ CloserInv /\ mem \in Books /\ file \in Books
      /\ mem.st[d] # "open" /\ file.st[d] # "open" /\ ledger[d] = "open"
      /\ ~(step \in {"inserted", "closed", "handled"} /\ cur = d)
      BY DEF CoreInv, TypeOK, Adrift, Watched
<1>1. file'.st[d] # "open"
  <2>1. ASSUME NEW c \in Closers, CloserWrites(c) PROVE file'.st[d] # "open"
    <3>1. want[c] \in Deals /\ file' = CloseIn(file, want[c])
          BY <1>0, <2>1 DEF CloserWrites, CloserInv
    <3>2. QED  BY <1>0, <3>1 DEF CloseIn, Books
  <2>2. QED  BY <1>0, <2>1, FileMoves DEF FileKept, EngineWrites
<1>2. mem'.st[d] # "open"
  <2>1. ASSUME NEW e \in Deals, MemCloses(e) PROVE mem'.st[d] # "open"
        BY <1>0, <2>1 DEF MemCloses, CloseIn, Books
  <2>2. CASE MemTracks
    <3>1. cur \in Deals /\ cur # d /\ mem' = OpenIn(mem, cur)
          BY <1>0, <2>2 DEF MemTracks, StepInv
    <3>2. QED  BY <1>0, <3>1 DEF OpenIn, Books
  <2>3. QED
        BY <1>0, <2>1, <2>2, MemMoves, EmptyBooks DEF MemKept, MemLoads, MemLost
<1>3. ~InsertDeal(d)
      BY <1>0 DEF InsertDeal
<1>4. ~Watched(d)'
      BY <1>0, <1>2, <1>3, HandMoves DEF Watched
<1>5. ledger'[d] = "open"
  <2>1. CASE PlaceDca(d)
        BY <1>0, <2>1 DEF PlaceDca
  <2>2. CASE (RecordHit \/ RecordHandled) /\ cur = d
        BY <1>0, <2>2 DEF RecordHit, RecordHandled
  <2>3. ASSUME NEW c \in Closers, pc[c] = "loaded", want[c] = d PROVE FALSE
        BY <1>0, <2>3 DEF CloserInv
  <2>4. QED  BY <1>0, <1>3, <2>1, <2>2, <2>3, RowMoves
<1>6. QED  BY <1>1, <1>4, <1>5 DEF Adrift

\* A step other than an exit keeps hold of the deal it has.
LEMMA HoldsOn ==
    ASSUME CoreInv, EmptyInv, [Next]_vars, "db" \notin Faults, NEW d \in Deals,
           Watched(d), ledger[d] = "open"
    PROVE  Exit \/ Watched(d)' \/ ledger'[d] = "closed"
<1>0. TypeOK /\ StepInv /\ mem \in Books /\ ledger \in [Deals -> Status]
      BY DEF CoreInv, TypeOK
<1> USE DEF engineVars
<1>1. CASE UNCHANGED <<mem, step, cur>>
      BY <1>1 DEF Watched
<1>2. CASE Boot
  <2>1. ~LoadState
        BY <1>0, EmptyBooks DEF LoadState, EmptyInv, Owning, TickStages, Watched
  <2>2. QED  BY <1>1, <1>2, <2>1 DEF Boot, Spawn, BootLock, BootTimeout
<1>3. CASE RecordHit \/ RecordHandled
  <2>1. /\ mem' = mem /\ step \in {"closed", "handled"} /\ cur \in Deals
        /\ ledger' = RowClosed(ledger, cur)
        BY <1>0, <1>3 DEF RecordHit, RecordHandled, TryRow, StepInv
  <2>2. mem.st[d] = "open" \/ cur = d
        BY <2>1 DEF Watched
  <2>3. cur = d => ledger'[d] = "closed"
        BY <1>0, <2>1, RowTypes
  <2>4. QED  BY <2>1, <2>2, <2>3 DEF Watched
<1>4. CASE TrackDeal
  <2>1. step = "inserted" /\ cur \in Deals /\ mem' = OpenIn(mem, cur)
        BY <1>0, <1>4 DEF TrackDeal, StepInv
  <2>2. mem'.st[d] = "open"
    <3>1. mem.st[d] = "open" \/ cur = d
          BY <2>1 DEF Watched
    <3>2. QED  BY <1>0, <2>1, <3>1 DEF OpenIn, Books
  <2>3. QED  BY <2>2 DEF Watched
<1>5. ASSUME NEW e \in Deals, HitTarget(e) \/ TakeSentinel(e) PROVE Watched(d)'
  <2>1. /\ mem' = CloseIn(mem, e) /\ step = "none"
        /\ mem.st[e] = "open" => cur' = e /\ step' \in {"closed", "handled"}
        BY <1>5 DEF HitTarget, TakeSentinel, At
  <2>2. mem.st[d] = "open"
        BY <2>1 DEF Watched
  <2>3. CASE e = d
        BY <2>1, <2>2, <2>3 DEF Watched
  <2>4. CASE e # d
    <3>1. mem'.st[d] = "open"
          BY <1>0, <2>1, <2>2, <2>4 DEF CloseIn, Books
    <3>2. QED  BY <3>1 DEF Watched
  <2>5. QED  BY <2>3, <2>4
<1>6. ASSUME NEW e \in Deals, InsertDeal(e) PROVE Watched(d)'
      BY <1>6 DEF InsertDeal, At, Watched
<1>7. CASE PersistHandled
      BY <1>7 DEF PersistHandled, Watched
<1>8. CASE Tick
      BY <1>1, <1>3, <1>4, <1>5, <1>6, <1>7, <1>8
         DEF Tick, BeginTick, NextStage, TickFails, WriteState, PlaceDca
<1>9. CASE PortalDies
      BY <1>1, <1>9 DEF PortalDies
<1>10. ASSUME NEW c \in Closers, Ask(c) \/ Serve(c) PROVE UNCHANGED <<mem, step, cur>>
      BY <1>10 DEF Ask, AskSentinel, AskOffline, Serve, GiveUp, CloserLock, Recheck,
         LoadSnapshot, CloserRecord, CloserPersist, closerVars
<1>11. CASE UNCHANGED vars
      BY <1>1, <1>11 DEF vars
<1>12. QED
      BY <1>1, <1>2, <1>8, <1>9, <1>10, <1>11 DEF Next

\* What sets a row adrift.
LEMMA AdriftBegins ==
    ASSUME CoreInv, CoreInv', EmptyInv, RowInv', [Next]_vars, "db" \notin Faults,
           NEW d \in Deals, ~Adrift(d), Adrift(d)'
    PROVE  Exit /\ Watched(d) /\ file.st[d] = "absent"
<1>0. /\ TypeOK /\ StepInv /\ CloserInv
      /\ ledger'[d] = "open" /\ file'.st[d] # "open" /\ ~Watched(d)'
      BY DEF CoreInv, Adrift
<1>1. file.st[d] = "absent"
  <2>1. file' \in Books /\ file'.st[d] # "closed"
        BY <1>0 DEF RowInv, CoreInv, TypeOK
  <2>2. file'.st[d] = "absent"
        BY <1>0, <2>1 DEF Books, Status
  <2>3. History!Forward(file.st[d], file'.st[d])
    <3>1. [History!Move]_(History!vars)
          BY HistoryNext
    <3>2. QED  BY <3>1 DEF History!Move, History!vars, History!Forward
  <2>4. QED  BY <2>2, <2>3 DEF History!Forward
<1>2. ledger[d] = "open"
  <2> SUFFICES ASSUME ledger[d] # "open" PROVE FALSE
      OBVIOUS
  <2>1. ~InsertDeal(d)
        BY <1>0 DEF InsertDeal, Watched
  <2>2. ~PlaceDca(d)
        BY <1>0 DEF PlaceDca, Watched, engineVars
  <2>3. ASSUME NEW c \in Closers, pc[c] = "loaded", want[c] = d PROVE FALSE
        BY <1>0, <1>1, <2>3 DEF CloserInv
  <2>4. QED  BY <1>0, <1>1, <2>1, <2>2, <2>3, RowMoves
<1>3. Watched(d)
      BY <1>1, <1>2 DEF Adrift
<1>4. QED  BY <1>0, <1>1, <1>2, <1>3, HoldsOn

\* No engine and no portal worker ever takes up a row that is adrift, under any
\* faults: _load_state reads the deals of state.json alone, a DCA order, a target
\* and a sentinel look in memory, and the offline close looks in the file.
AdriftForGood == [][\A d \in Deals : Adrift(d) => Adrift(d)']_vars

\* A row is set adrift only by the end of an engine (SIGTERM, kill, or the loop's
\* own end after a tick that failed) that had the deal and had not yet written it
\* to state.json, the write being the last thing in a tick (_tick, _write_state).
AdriftByExit ==
    [][\A d \in Deals :
           ~Adrift(d) /\ Adrift(d)' => Exit /\ Watched(d) /\ file.st[d] = "absent"]_vars

\* An open row that neither state.json nor the engine has as open stays so for
\* good, whatever is restarted (_open_deal inserts before it tracks and writes).
THEOREM OrphansStay == Spec => AdriftForGood
<1>1. CoreInv /\ [Next]_vars => [\A d \in Deals : Adrift(d) => Adrift(d)']_vars
      BY AdriftStays
<1>2. QED  BY <1>1, CoreInvariant, PTL DEF Spec, AdriftForGood

\* Unless a ledger write failed, such a row was left by an engine that ended with
\* a deal that state.json had never had: neither the portal's closes nor a
\* restart, a replay or a failing write of the file makes one.
THEOREM OrphansComeFromExits == "db" \notin Faults => (Spec => AdriftByExit)
<1> SUFFICES ASSUME "db" \notin Faults PROVE Spec => AdriftByExit
    OBVIOUS
<1>1. Init => EmptyInv /\ RowInv
      BY RowInit DEF Init, EmptyInv
<1>2. CoreInv /\ EmptyInv /\ [Next]_vars => EmptyInv'
      BY EmptyNext DEF CoreInv
<1>3. CoreInv /\ CoreInv' /\ RowInv /\ [Next]_vars => RowInv'
      BY RowNext
<1>4. CoreInv /\ CoreInv' /\ EmptyInv /\ RowInv' /\ [Next]_vars =>
          [\A d \in Deals :
              ~Adrift(d) /\ Adrift(d)' => Exit /\ Watched(d) /\ file.st[d] = "absent"]_vars
      BY AdriftBegins
<1>5. QED
  BY <1>1, <1>2, <1>3, <1>4, CoreInvariant, PTL DEF Spec, AdriftByExit
=============================================================================
