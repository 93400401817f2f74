-------------------------- MODULE TickGuardsProofs --------------------------
(***************************************************************************)
(* Proofs about an engine's guards and its queue.  About TickGuards, for   *)
(* every set of readings, every drawdown percentage and both engines: the  *)
(* types, that no signal entry goes against the guard on disk, and that    *)
(* the guard on disk and a running engine's only move on.  About LiqWatch, *)
(* for any deals: that the thread warns of a closed deal twice at most.    *)
(* About NotifyQueue, for a queue of any size: that notifications keep     *)
(* their order, that a worker that has ended leaves none behind, that an   *)
(* outage is reported, and what a SIGTERM inside the queue comes to.       *)
(*                                                                         *)
(* The strengthening is that a running engine's guard is never behind the  *)
(* one on disk (Ahead), that its pause flag follows its guard once the     *)
(* tick is past it (Follows), and that the tick's reading was judged       *)
(* (Judged).                                                               *)
(***************************************************************************)
EXTENDS TickGuards, LiqWatch, NotifyQueue, SequenceTheorems, TLAPS

\* The guard in memory is at least as far as the one on disk.
Ahead == engine # "down" => Keeps(file.guard, guard)

\* Past the guard's part of the tick, a triggered guard has paused it.
Follows == engine \in {"entry", "write"} /\ guard.triggered => paused

\* Past the guard's part of the tick, an untriggered guard's peak is known
\* and the reading is not too far below it.
Judged ==
    engine \in {"entry", "write"} /\ ~guard.triggered
        => guard.peak # NoPeak /\ ~Fires(guard.peak, reading)

IInv == TypeOK /\ Ahead /\ Follows /\ Judged

----------------------------------------------------------------------------
\* A reading that is too far below a peak is too far below a higher peak:
\* this is where max_drawdown_pct <= 100 is needed.
LEMMA FiresMonotone ==
    ASSUME NEW p \in Values, NEW q \in Values, NEW v \in Values,
           q >= p, Fires(p, v)
    PROVE  Fires(q, v)
<1>1. p \in Int /\ q \in Int /\ v \in Int /\ MaxPct \in 1 .. 100
    BY ConstantsAssumption
<1>2. p # NoPeak /\ q # NoPeak
    BY ConstantsAssumption
<1>3. p > 0 /\ q > 0
    BY <1>1 DEF Fires
<1>4. (p - v) * 100 >= MaxPct * p
    BY DEF Fires
<1>5. (q - p) * 100 >= MaxPct * (q - p)
    <2>1. PICK k \in Int : k = q - p
        BY <1>1
    <2>2. k >= 0
        BY <1>1, <2>1
    <2>3. k * 100 >= MaxPct * k
        BY <1>1, <2>2, SMT
    <2> QED
        BY <2>1, <2>3
<1>6. MaxPct * q = MaxPct * p + MaxPct * (q - p)
    BY <1>1, SMT
<1>7. (q - v) * 100 >= MaxPct * q
    BY <1>1, <1>4, <1>5, <1>6, SMT
<1> QED
    BY <1>2, <1>3, <1>7 DEF Fires

\* Keeps is reflexive on guards.
LEMMA KeepsReflexive ==
    ASSUME NEW g \in Guards PROVE Keeps(g, g)
<1>1. g.peak # NoPeak => g.peak \in Int
    BY ConstantsAssumption DEF Guards
<1> QED
    BY <1>1 DEF Keeps

\* Keeps is transitive on guards.
LEMMA KeepsTransitive ==
    ASSUME NEW f \in Guards, NEW g \in Guards, NEW h \in Guards,
           Keeps(f, g), Keeps(g, h)
    PROVE  Keeps(f, h)
<1>1. \A x \in Guards : x.peak # NoPeak => x.peak \in Int
    BY ConstantsAssumption DEF Guards
<1> QED
    BY <1>1 DEF Keeps

\* The guard's update is a guard, is never behind the old one, and has
\* judged the reading: it has triggered or the reading is near its peak.
LEMMA UpdateJudges ==
    ASSUME NEW g \in Guards, NEW v \in Values
    PROVE  /\ Updated(g, v) \in Guards
           /\ Keeps(g, Updated(g, v))
           /\ \/ Updated(g, v).triggered
              \/ /\ Updated(g, v).peak # NoPeak
                 /\ ~Fires(Updated(g, v).peak, v)
<1>1. v \in Int /\ v # NoPeak /\ MaxPct \in 1 .. 100
    BY ConstantsAssumption
<1>2. g.peak # NoPeak => g.peak \in Int
    BY ConstantsAssumption DEF Guards
<1>3. CASE g.triggered
    BY <1>2, <1>3, KeepsReflexive DEF Updated
<1>4. CASE ~g.triggered /\ (g.peak = NoPeak \/ v > g.peak)
    <2>1. Updated(g, v) = [g EXCEPT !.peak = v]
        BY <1>4 DEF Updated
    <2>2. Updated(g, v) \in Guards /\ Updated(g, v).peak = v
        BY <2>1 DEF Guards
    <2>3. Keeps(g, Updated(g, v))
        BY <1>1, <1>2, <1>4, <2>2 DEF Keeps
    <2>4. ~Fires(v, v)
        <3>1. ASSUME v > 0 PROVE ~((v - v) * 100 >= MaxPct * v)
            <4>1. (v - v) * 100 = 0
                BY <1>1
            <4>2. MaxPct * v > 0
                BY <1>1, <3>1, SMT
            <4> QED
                BY <1>1, <4>1, <4>2
        <3> QED
            BY <3>1 DEF Fires
    <2> QED
        BY <1>1, <2>2, <2>3, <2>4
<1>5. CASE ~g.triggered /\ ~(g.peak = NoPeak \/ v > g.peak)
    <2>1. Updated(g, v) = [g EXCEPT !.triggered = Fires(g.peak, v)]
        BY <1>5 DEF Updated
    <2>2. Fires(g.peak, v) \in BOOLEAN
        BY DEF Fires
    <2>3. /\ Updated(g, v) \in Guards
          /\ Updated(g, v).peak = g.peak
          /\ Updated(g, v).triggered = Fires(g.peak, v)
        BY <2>1, <2>2 DEF Guards
    <2>4. Keeps(g, Updated(g, v))
        BY <1>2, <1>5, <2>3 DEF Keeps
    <2> QED
        BY <1>5, <2>3, <2>4
<1> QED
    BY <1>3, <1>4, <1>5

----------------------------------------------------------------------------
\* The initial states satisfy the invariant.
LEMMA InitIInv == Init => IInv
<1> SUFFICES ASSUME Init PROVE IInv
    OBVIOUS
<1>1. Reset \in Guards
    BY DEF Reset, Guards
<1>2. TypeOK
    BY <1>1 DEF Init, TypeOK
<1>3. Ahead /\ Follows /\ Judged
    BY DEF Init, Ahead, Follows, Judged
<1> QED
    BY <1>2, <1>3 DEF IInv

\* Every step keeps the types.
LEMMA NextTypeOK == TypeOK /\ [Next]_vars => TypeOK'
<1> SUFFICES ASSUME TypeOK, [Next]_vars PROVE TypeOK'
    OBVIOUS
<1> USE DEF TypeOK
<1>r. Reset \in Guards
    BY DEF Reset, Guards
<1>1. CASE Load
    BY <1>1 DEF Load
<1>2. CASE PreTick
    BY <1>2 DEF PreTick, TickParts
<1>3. CASE CloseDeal
    BY <1>3 DEF CloseDeal, flags
<1>4. ASSUME NEW v \in Values, UpdateGuard(v) PROVE TypeOK'
    <2>1. guard' \in Guards
        BY <1>4, UpdateJudges DEF UpdateGuard
    <2> QED
        BY <1>4, <2>1 DEF UpdateGuard, TickParts
<1>5. CASE ManualOpen \/ SignalEntry \/ NoEntry
    <2>1. /\ engine = "entry" /\ engine' \in {"entry", "write"}
          /\ open' \in BOOLEAN
        BY <1>5 DEF ManualOpen, SignalEntry, NoEntry
    <2>2. UNCHANGED <<bot, guard, paused, skewed, saved, looping, reading, file>>
        BY <1>5 DEF ManualOpen, SignalEntry, NoEntry, flags
    <2> QED
        BY <2>1, <2>2 DEF TickParts
<1>6. CASE WriteState \/ TickFails
    BY <1>6 DEF WriteState, TickFails, flags, TickParts
<1>7. CASE PostTick
    BY <1>7 DEF PostTick, TickParts
<1>8. CASE LoopEnds \/ Dies
    BY <1>8, <1>r DEF LoopEnds, Dies, Gone, TickParts
<1>9. CASE ResetRoute
    BY <1>9, <1>r DEF ResetRoute, flags
<1>10. CASE UNCHANGED vars
    BY <1>10 DEF vars, flags
<1> QED
    BY <1>1, <1>2, <1>3, <1>4, <1>5, <1>6, <1>7, <1>8, <1>9, <1>10
    DEF Next, Tick

\* Every step keeps the rest: only the guard's part of the tick moves the
\* guard, forward; a load and a write make memory and disk equal.
LEMMA NextRest == IInv /\ [Next]_vars => (Ahead /\ Follows /\ Judged)'
<1> SUFFICES ASSUME IInv, [Next]_vars PROVE (Ahead /\ Follows /\ Judged)'
    OBVIOUS
<1> USE DEF IInv, Ahead, Follows, Judged
<1>t. guard \in Guards /\ file.guard \in Guards
    BY DEF TypeOK
<1>1. CASE Load
    BY <1>1, <1>t, KeepsReflexive DEF Load
<1>2. CASE PreTick
    BY <1>2 DEF PreTick
<1>3. CASE CloseDeal
    BY <1>3 DEF CloseDeal, flags
<1>4. ASSUME NEW v \in Values, UpdateGuard(v)
      PROVE  (Ahead /\ Follows /\ Judged)'
    <2>1. /\ engine # "down" /\ engine' = "entry" /\ file' = file
          /\ guard' = Updated(guard, v) /\ reading' = v
        BY <1>4 DEF UpdateGuard
    <2>2. /\ guard' \in Guards
          /\ Keeps(guard, guard')
          /\ \/ guard'.triggered
             \/ guard'.peak # NoPeak /\ ~Fires(guard'.peak, v)
        BY <1>t, <2>1, UpdateJudges
    <2>3. Keeps(file.guard, guard')
        BY <1>t, <2>1, <2>2, KeepsTransitive
    <2>4. guard'.triggered => paused'
        BY <1>4 DEF UpdateGuard
    <2> QED
        BY <2>1, <2>2, <2>3, <2>4
<1>5. CASE ManualOpen \/ SignalEntry \/ NoEntry
    BY <1>5 DEF ManualOpen, SignalEntry, NoEntry, flags
<1>6. CASE WriteState
    BY <1>6, <1>t, KeepsReflexive DEF WriteState, flags
<1>7. CASE TickFails
    BY <1>7 DEF TickFails, flags
<1>8. CASE PostTick
    BY <1>8 DEF PostTick
<1>9. CASE LoopEnds \/ Dies
    BY <1>9 DEF LoopEnds, Dies, Gone
<1>10. CASE ResetRoute
    <2>1. Keeps(Reset, guard)
        BY DEF Keeps, Reset
    <2> QED
        BY <1>10, <2>1 DEF ResetRoute, flags
<1>11. CASE UNCHANGED vars
    BY <1>11 DEF vars, flags
<1> QED
    BY <1>1, <1>2, <1>3, <1>4, <1>5, <1>6, <1>7, <1>8, <1>9, <1>10, <1>11
    DEF Next, Tick

\* The invariant holds in every reachable state.
LEMMA Invariance == Spec => []IInv
<1>1. IInv /\ [Next]_vars => IInv'
    BY NextTypeOK, NextRest DEF IInv
<1> QED
    BY InitIInv, <1>1, PTL DEF Spec

----------------------------------------------------------------------------
\* Every variable of the engine's guards keeps its type.
THEOREM TypeCorrect == Spec => []TypeOK
<1>1. IInv => TypeOK
    BY DEF IInv
<1> QED
    BY Invariance, <1>1, PTL

\* No entry signal opens a deal while the guard on disk has triggered, on a
\* reading too far below the peak on disk, or under a skewed clock.
THEOREM EntriesAreCalm == Spec => CalmEntries
<1>1. IInv /\ SignalEntry => CalmEntry
    <2> SUFFICES ASSUME IInv, SignalEntry PROVE CalmEntry
        OBVIOUS
    <2>1. /\ ~paused /\ engine = "entry"
          /\ ~guard.triggered /\ guard.peak # NoPeak
          /\ ~Fires(guard.peak, reading)
          /\ Keeps(file.guard, guard)
        BY DEF IInv, SignalEntry, Ahead, Follows, Judged
    <2>2. guard \in Guards /\ file.guard \in Guards /\ reading \in Values
        BY DEF IInv, TypeOK
    <2>3. ~skewed
        BY <2>1 DEF IInv, TypeOK, TickParts
    <2>4. ~file.guard.triggered
        BY <2>1 DEF Keeps
    <2>5. ~Fires(file.guard.peak, reading)
        <3>1. CASE file.guard.peak = NoPeak
            BY <3>1 DEF Fires
        <3>2. CASE file.guard.peak # NoPeak
            <4>1. /\ file.guard.peak \in Values /\ guard.peak \in Values
                  /\ guard.peak >= file.guard.peak
                BY <2>1, <2>2, <3>2 DEF Keeps, Guards
            <4> QED
                BY <2>1, <2>2, <4>1, FiresMonotone
        <3> QED
            BY <3>1, <3>2
    <2> QED
        BY <2>3, <2>4, <2>5 DEF CalmEntry
<1>2. IInv /\ [Next]_vars => [SignalEntry => CalmEntry]_vars
    BY <1>1
<1> QED
    BY Invariance, <1>2, PTL DEF Spec, CalmEntries

\* The guard of a running engine goes back by nothing, the operator's reset
\* included: the engine never reads the file again, so a reset of a running bot
\* lasts until that bot's next write (routes/drawdown.py, _write_state).
RunningGuardKept == [][engine # "down" /\ engine' # "down" => Keeps(guard, guard')]_vars

\* A running engine's peak and trigger only move on, whatever the file says.
THEOREM ResetsDoNotReachEngines == Spec => RunningGuardKept
<1>1. IInv /\ [Next]_vars
      => [engine # "down" /\ engine' # "down" => Keeps(guard, guard')]_vars
    <2> SUFFICES ASSUME IInv, Next, engine # "down", engine' # "down"
                 PROVE  Keeps(guard, guard')
        OBVIOUS
    <2>1. guard \in Guards
        BY DEF IInv, TypeOK
    <2>2. ASSUME NEW value \in Values, UpdateGuard(value) PROVE Keeps(guard, guard')
        BY <2>1, <2>2, UpdateJudges DEF UpdateGuard
    <2>3. CASE guard' = guard
        BY <2>1, <2>3, KeepsReflexive
    <2> QED
        BY <2>2, <2>3 DEF Next, Tick, Load, PreTick, CloseDeal, ManualOpen, SignalEntry, NoEntry,
           WriteState, TickFails, PostTick, LoopEnds, Dies, Gone, ResetRoute
<1> QED
    BY Invariance, <1>1, PTL DEF Spec, RunningGuardKept

\* The peak and the trigger on disk go back only by the operator's reset.
THEOREM GuardOnDiskSurvives == Spec => GuardSurvives
<1>1. IInv /\ [Next]_vars
      => [ResetRoute \/ Keeps(file.guard, file'.guard)]_vars
    <2> SUFFICES ASSUME IInv, Next
                 PROVE  ResetRoute \/ Keeps(file.guard, file'.guard)
        OBVIOUS
    <2>1. file.guard \in Guards
        BY DEF IInv, TypeOK
    <2>2. CASE WriteState
        BY <2>2 DEF WriteState, IInv, Ahead
    <2>3. CASE file' = file
        BY <2>1, <2>3, KeepsReflexive
    <2>4. WriteState \/ ResetRoute \/ file' = file
        BY DEF Next, Tick, Load, PreTick, CloseDeal, UpdateGuard, ManualOpen,
           SignalEntry, NoEntry, TickFails, PostTick, LoopEnds, Dies
    <2> QED
        BY <2>2, <2>3, <2>4
<1> QED
    BY Invariance, <1>1, PTL DEF Spec, GuardSurvives

----------------------------------------------------------------------------
\* The inductive invariant of LiqWatch.

OfDeal(S, d) == {p \in S : p.deal = d}

LiqTypeOK ==
    /\ deal \in Deals \cup {NoDeal} /\ past \subseteq Deals /\ zone \in Zones
    /\ positions \subseteq [deal : Deals, zone : Zones]
    /\ copy \subseteq [deal : Deals, zone : Zones]
    /\ warned \in [Deals -> {"none", "warn", "emergency"}]
    /\ late \in [Deals -> Nat]

\* A tick hands over at most one position, and a closed deal is not open.
OnePosition ==
    /\ \A p, q \in positions : p = q
    /\ \A p, q \in copy : p = q
    /\ deal \notin past

\* After a first late warning the guard has one position of the deal before
\* it, wherever it has it; after a second that position gives no cause.
LateOnce(d) ==
    /\ d \in past
    /\ \A p, q \in OfDeal(positions \cup copy, d) : p = q
LateTwice(d) ==
    /\ LateOnce(d)
    /\ \A p \in OfDeal(positions \cup copy, d) : ~Due(p)
Counted == \A d \in Deals : \/ late[d] = 0
                            \/ late[d] = 1 /\ LateOnce(d)
                            \/ late[d] = 2 /\ LateTwice(d)

LiqInv == LiqTypeOK /\ OnePosition /\ Counted

\* Steps of the market and the tick loop bring the guard nothing about a
\* deal that is closed.
LEMMA TickLoopStep ==
    ASSUME LiqInv, LiqTypeOK', OnePosition',
           UNCHANGED <<copy, warned, late>>, past \subseteq past',
           \A d \in past : OfDeal(positions', d) \subseteq OfDeal(positions, d)
    PROVE  Counted'
  BY DEF LiqInv, LiqTypeOK, Counted, LateOnce, LateTwice, OfDeal, Due

\* Every step of the tick loop and of the guard's thread keeps the invariant.
LEMMA LiqStep == LiqInv /\ [LiqNext]_<<liqVars, notifier>> => LiqInv'
<1> SUFFICES ASSUME LiqInv, [LiqNext]_<<liqVars, notifier>> PROVE LiqInv'
  OBVIOUS
<1> USE LiqAssumption
<1> LiqTypeOK /\ OnePosition /\ Counted
  BY DEF LiqInv
<1>1. ASSUME UNCHANGED <<positions, copy, warned, late>>,
             deal' \in Deals \cup {NoDeal}, zone' \in Zones,
             past \subseteq past', past' \subseteq Deals, deal' \notin past'
      PROVE  LiqInv'
  <2>1. LiqTypeOK' /\ OnePosition'
    BY <1>1 DEF LiqTypeOK, OnePosition
  <2> QED BY <1>1, <2>1, TickLoopStep DEF LiqInv
<1>2. ASSUME NEW z \in Zones, Moves(z) PROVE LiqInv'
  BY <1>1, <1>2 DEF Moves, guardVars, LiqTypeOK, OnePosition
<1>3. ASSUME NEW d \in Deals, Opens(d) PROVE LiqInv'
  BY <1>1, <1>3 DEF Opens, guardVars, LiqTypeOK
<1>4. CASE Closes
  BY <1>1, <1>4 DEF Closes, guardVars, LiqTypeOK
<1>5. CASE Fails \/ Stops \/ Ends \/ Rests \/ UNCHANGED <<liqVars, notifier>>
  <2>1. UNCHANGED <<deal, past, zone, positions, copy, warned, late>>
    BY <1>5 DEF Fails, Stops, Ends, Rests, liqVars, dealVars, guardVars
  <2> QED BY <1>1, <2>1 DEF LiqTypeOK, OnePosition
<1>6. CASE Updates
  <2>1. /\ positions' = IF deal = NoDeal THEN {} ELSE {[deal |-> deal, zone |-> zone]}
        /\ UNCHANGED <<deal, past, zone, copy, warned, late>>
    BY <1>6 DEF Updates, Positions, guardVars
  <2>2. LiqTypeOK' /\ OnePosition'
    BY <2>1 DEF LiqTypeOK, OnePosition
  <2>3. \A d \in past : OfDeal(positions', d) = {}
    BY <2>1 DEF OfDeal, OnePosition
  <2> QED BY <2>1, <2>2, <2>3, TickLoopStep DEF LiqInv
<1>7. CASE Copies
  <2>1. copy' = positions /\ UNCHANGED <<deal, past, zone, positions, warned, late>>
    BY <1>7 DEF Copies, dealVars
  <2>2. LiqTypeOK' /\ OnePosition'
    BY <2>1 DEF LiqTypeOK, OnePosition
  <2>3. Counted'
    BY <2>1 DEF Counted, LateOnce, LateTwice, OfDeal, Due
  <2> QED BY <2>2, <2>3 DEF LiqInv
<1>8. ASSUME NEW p \in copy, Judges(p) PROVE LiqInv'
  <2>1. p \in [deal : Deals, zone : Zones]
    BY DEF LiqTypeOK
  <2>2. /\ copy' = {} /\ warned' = [warned EXCEPT ![p.deal] = Noted(p)]
        /\ \/ late' = late
           \/ /\ Due(p) /\ p.deal \in past
              /\ late' = [late EXCEPT ![p.deal] = @ + 1]
        /\ UNCHANGED <<deal, past, zone, positions>>
    BY <1>8 DEF Judges, OnePosition, dealVars
  <2>3. Noted(p) \in {"none", "warn", "emergency"}
    BY <2>1 DEF Noted, Due, LiqTypeOK, Zones
  <2>4. LiqTypeOK' /\ OnePosition'
    BY <2>1, <2>2, <2>3 DEF LiqTypeOK, OnePosition
  <2>5. ASSUME NEW d \in Deals, d # p.deal
        PROVE  \/ late'[d] = 0
               \/ late'[d] = 1 /\ LateOnce(d)'
               \/ late'[d] = 2 /\ LateTwice(d)'
    <3>1. late'[d] = late[d] /\ warned'[d] = warned[d]
      BY <2>1, <2>2, <2>5 DEF LiqTypeOK
    <3> QED BY <2>2, <3>1 DEF Counted, LateOnce, LateTwice, OfDeal, Due
  <2>6. /\ \/ late'[p.deal] = 0
           \/ late'[p.deal] = 1 /\ LateOnce(p.deal)'
           \/ late'[p.deal] = 2 /\ LateTwice(p.deal)'
    <3> DEFINE d == p.deal
    <3>1. d \in Deals /\ warned'[d] = Noted(p)
      BY <2>1, <2>2 DEF LiqTypeOK
    <3>2. late'[d] = late[d] \/ (Due(p) /\ d \in past /\ late'[d] = late[d] + 1)
      BY <2>1, <2>2 DEF LiqTypeOK
    \* Judged once, the position gives no cause a second time.
    <3>3. Due(p) \/ late[d] = 2 => ~Due(p)'
      BY <2>1, <3>1, <1>8 DEF Due, Noted, Counted, LateTwice, OfDeal, Zones
    <3>4. late[d] # 0 => \A q \in OfDeal(positions, d) : q = p
      BY <3>1 DEF Counted, LateTwice, LateOnce, OfDeal
    <3>5. \A q, r \in OfDeal(positions, d) : q = r
      BY DEF OnePosition, OfDeal
    <3>6. OfDeal(positions \cup copy, d)' = OfDeal(positions, d)
      BY <2>2 DEF OfDeal
    <3>7. CASE late[d] = 0
      BY <3>2, <3>5, <3>6, <3>7, <2>2 DEF LateOnce
    <3>8. CASE late[d] = 1
      <4>1. d \in past /\ LateOnce(d)'
        BY <3>1, <3>5, <3>6, <3>8, <2>2 DEF Counted, LateOnce
      <4>2. Due(p) => LateTwice(d)'
        BY <3>3, <3>4, <3>6, <3>8, <4>1 DEF LateTwice
      <4> QED BY <3>2, <3>8, <4>1, <4>2
    <3>9. CASE late[d] = 2
      <4>1. d \in past /\ ~Due(p)
        BY <3>1, <3>9, <1>8 DEF Counted, LateTwice, LateOnce, OfDeal
      <4>2. LateTwice(d)'
        BY <3>3, <3>4, <3>5, <3>6, <3>9, <4>1, <2>2 DEF LateTwice, LateOnce
      <4> QED BY <3>2, <3>9, <4>1, <4>2
    <3> QED BY <3>1, <3>7, <3>8, <3>9 DEF Counted
  <2>7. Counted'
    BY <2>5, <2>6 DEF Counted
  <2> QED BY <2>4, <2>7 DEF LiqInv
<1> QED BY <1>2, <1>3, <1>4, <1>5, <1>6, <1>7, <1>8 DEF LiqNext, Guard

\* A closed deal is warned about twice at most: for what the guard had in hand
\* and for what the last tick had left it (_check_position).
THEOREM LateWarningsAreFew == LiqSpec => []FewLateWarnings
<1>1. LiqInit => LiqInv
  BY LiqAssumption DEF LiqInit, LiqInv, LiqTypeOK, OnePosition, Counted, Zones
<1>2. LiqInv => FewLateWarnings
  BY DEF LiqInv, LiqTypeOK, Counted, FewLateWarnings
<1> QED BY <1>1, <1>2, LiqStep, PTL DEF LiqSpec
----------------------------------------------------------------------------
\* The inductive invariant of NotifyQueue.

Leaving == pc["handler"] \in {"join", "exited"}

QueueTypeOK ==
    /\ minted \in Nat
    /\ queue \in Seq(Nat) /\ hand \in Seq(Nat) /\ sent \in Seq(Nat)
    /\ frame \in Frames
    /\ pc \in [Frames -> {"run", "put", "putting", "get", "getting", "join", "exited"}]
    /\ item \in [Frames -> Nat]
    /\ kinds \in Seq(Kinds) /\ Len(kinds) = minted
    /\ notifier.on \in BOOLEAN

\* The worker has something in hand when it is sending, and only then.
InHand == /\ worker = "sending" => Len(hand) = 1
          /\ worker # "sending" => hand = <<>>

\* Later in a sequence, or in a later one, means notified later.
Rising(s) == \A i, j \in DOMAIN s : i < j /\ s[j] # Stop => s[i] < s[j]
Before(s, t) == \A i \in DOMAIN s, j \in DOMAIN t : t[j] # Stop => s[i] < t[j]
UpTo(s, n) == \A i \in DOMAIN s : s[i] <= n
Ordered ==
    /\ Rising(sent) /\ Rising(queue)
    /\ Before(sent, hand) /\ Before(sent, queue) /\ Before(hand, queue)
    /\ UpTo(sent, minted) /\ UpTo(hand, minted) /\ UpTo(queue, minted)

\* What the running frame is placing is later than all that.
Newer ==
    Placing(frame) =>
        /\ item[frame] = minted /\ minted > 0
        /\ UpTo(sent, minted - 1) /\ UpTo(hand, minted - 1) /\ UpTo(queue, minted - 1)

\* Nothing is behind the sentinel, which the handler puts last.
Last ==
    /\ frame = "tick" => pc["handler"] = "run"
    /\ pc["tick"] \notin {"join", "exited"}
    /\ \A i \in DOMAIN queue : queue[i] = Stop => i = Len(queue) /\ Leaving
    /\ worker = "done" => queue = <<>> /\ Leaving

\* What became of a notification.
Within(n, s) == \E i \in DOMAIN s : s[i] = n
InPlace(n) == \E f \in Frames : Placing(f) /\ item[f] = n
Served(n) == Within(n, sent) <=> Promised(kinds[n])
Accounted ==
    \A n \in 1 .. minted :
        n \in lost \/ Within(n, queue) \/ Within(n, hand) \/ InPlace(n) \/ Served(n)

QueueInv == QueueTypeOK /\ InHand /\ Ordered /\ Newer /\ Last /\ Accounted

\* A sequence with one more at its end.
LEMMA AppendFacts ==
    ASSUME NEW s \in Seq(Nat), NEW n \in Nat
    PROVE  /\ Append(s, n) \in Seq(Nat) /\ Len(s) \in Nat /\ Len(Append(s, n)) = Len(s) + 1
           /\ DOMAIN s = 1 .. Len(s) /\ DOMAIN Append(s, n) = 1 .. Len(s) + 1
           /\ \A i \in DOMAIN s : Append(s, n)[i] = s[i]
           /\ Append(s, n)[Len(s) + 1] = n
<1>1. /\ Append(s, n) \in Seq(Nat) /\ Len(Append(s, n)) = Len(s) + 1
      /\ \A i \in 1 .. Len(s) : Append(s, n)[i] = s[i]
      /\ Append(s, n)[Len(s) + 1] = n
  BY AppendProperties
<1>2. Len(s) \in Nat /\ DOMAIN s = 1 .. Len(s)
  BY LenProperties
<1>3. DOMAIN Append(s, n) = 1 .. Len(Append(s, n))
  BY <1>1, LenProperties
<1> QED BY <1>1, <1>2, <1>3

\* A sequence without its first.
LEMMA TailFacts ==
    ASSUME NEW s \in Seq(Nat), s # <<>>
    PROVE  /\ Tail(s) \in Seq(Nat) /\ Len(s) \in Nat /\ Len(Tail(s)) = Len(s) - 1
           /\ DOMAIN s = 1 .. Len(s) /\ DOMAIN Tail(s) = 1 .. Len(s) - 1
           /\ Head(s) \in Nat /\ 1 \in DOMAIN s /\ s[1] = Head(s)
           /\ \A i \in DOMAIN Tail(s) : i + 1 \in DOMAIN s /\ Tail(s)[i] = s[i + 1]
<1>1. /\ Tail(s) \in Seq(Nat) /\ Len(Tail(s)) = Len(s) - 1 /\ Head(s) \in Nat
      /\ \A i \in 1 .. Len(Tail(s)) : Tail(s)[i] = s[i + 1]
  BY HeadTailProperties
<1>2. Len(s) \in Nat /\ DOMAIN s = 1 .. Len(s) /\ Len(s) # 0
  BY LenProperties, EmptySeq
<1>3. DOMAIN Tail(s) = 1 .. Len(Tail(s))
  BY <1>1, LenProperties
<1>4. s[1] = Head(s)
  OBVIOUS
<1> QED BY <1>1, <1>2, <1>3, <1>4

\* What is in a sequence is a number.
LEMMA Numbers == \A s \in Seq(Nat) : \A i \in DOMAIN s : s[i] \in Nat /\ i \in Nat
  BY LenProperties

\* Appending what is later than all of a sequence.
LEMMA AppendOrders ==
    ASSUME NEW s \in Seq(Nat), NEW n \in Nat
    PROVE  /\ Rising(s) /\ (n = Stop \/ \A i \in DOMAIN s : s[i] < n)
                  => Rising(Append(s, n))
           /\ \A t \in Seq(Nat) : Before(t, s) /\ (n = Stop \/ \A i \in DOMAIN t : t[i] < n)
                  => Before(t, Append(s, n))
           /\ \A t \in Seq(Nat) :
                  Before(s, t) /\ (\A j \in DOMAIN t : t[j] # Stop => n < t[j])
                  => Before(Append(s, n), t)
           /\ \A m \in Int : UpTo(s, m) /\ n <= m => UpTo(Append(s, n), m)
           /\ \A m : Within(m, Append(s, n)) <=> Within(m, s) \/ m = n
<1> DEFINE a == Append(s, n)
<1>1. /\ Len(s) \in Nat /\ DOMAIN s = 1 .. Len(s) /\ DOMAIN a = 1 .. Len(s) + 1
      /\ \A i \in DOMAIN s : a[i] = s[i] /\ s[i] \in Nat
      /\ a[Len(s) + 1] = n
  BY AppendFacts, Numbers
<1> HIDE DEF a
<1>2. \A i \in DOMAIN a : i \in DOMAIN s \/ i = Len(s) + 1
  BY <1>1
<1>3. Len(s) + 1 \in DOMAIN a /\ \A i \in DOMAIN s : i \in DOMAIN a /\ i < Len(s) + 1
  BY <1>1
<1>4. Rising(s) /\ (n = Stop \/ \A i \in DOMAIN s : s[i] < n) => Rising(a)
  <2> SUFFICES ASSUME Rising(s), n = Stop \/ \A i \in DOMAIN s : s[i] < n,
                      NEW i \in DOMAIN a, NEW j \in DOMAIN a, i < j, a[j] # Stop
               PROVE  a[i] < a[j]
    BY DEF Rising
  <2>1. i \in DOMAIN s
    BY <1>1
  <2>2. CASE j \in DOMAIN s
    BY <1>1, <2>1, <2>2 DEF Rising
  <2>3. CASE j = Len(s) + 1
    BY <1>1, <2>1, <2>3
  <2> QED BY <1>2, <2>2, <2>3
<1>5. \A t \in Seq(Nat) : Before(t, s) /\ (n = Stop \/ \A i \in DOMAIN t : t[i] < n)
                              => Before(t, a)
  BY <1>1, <1>2 DEF Before
<1>6. \A t \in Seq(Nat) : Before(s, t) /\ (\A j \in DOMAIN t : t[j] # Stop => n < t[j])
                              => Before(a, t)
  BY <1>1, <1>2 DEF Before
<1>7. \A m \in Int : UpTo(s, m) /\ n <= m => UpTo(a, m)
  BY <1>1, <1>2 DEF UpTo
<1>8. \A m : Within(m, a) <=> Within(m, s) \/ m = n
  BY <1>1, <1>2, <1>3 DEF Within
<1> QED BY <1>4, <1>5, <1>6, <1>7, <1>8 DEF a

\* Taking the first of a sequence.
LEMMA TailOrders ==
    ASSUME NEW s \in Seq(Nat), s # <<>>
    PROVE  /\ Rising(s) => Rising(Tail(s))
           /\ Rising(s) => \A i \in DOMAIN Tail(s) : Tail(s)[i] # Stop => Head(s) < Tail(s)[i]
           /\ \A t \in Seq(Nat) :
                  Before(t, s) => /\ Before(t, Tail(s))
                                  /\ Head(s) # Stop => \A i \in DOMAIN t : t[i] < Head(s)
           /\ \A m \in Int : UpTo(s, m) => UpTo(Tail(s), m) /\ Head(s) <= m
           /\ \A m : Within(m, s) <=> Within(m, Tail(s)) \/ m = Head(s)
<1> DEFINE a == Tail(s)
           h == Head(s)
<1>1. /\ Len(s) \in Nat /\ DOMAIN s = 1 .. Len(s) /\ DOMAIN a = 1 .. Len(s) - 1
      /\ 1 \in DOMAIN s /\ s[1] = h
      /\ \A i \in DOMAIN a : i \in Nat /\ i + 1 \in DOMAIN s /\ a[i] = s[i + 1] /\ 1 < i + 1
  BY TailFacts
<1>2. \A i \in DOMAIN s : i = 1 \/ (i - 1 \in DOMAIN a /\ a[i - 1] = s[i])
  <2>1. \A i \in DOMAIN s : i = 1 \/ i - 1 \in DOMAIN a
    BY <1>1
  <2>2. \A i \in DOMAIN s : (i - 1) + 1 = i
    BY <1>1
  <2> QED BY <1>1, <2>1, <2>2
<1> HIDE DEF a, h
<1>3. Rising(s) => Rising(a)
  <2> SUFFICES ASSUME Rising(s), NEW i \in DOMAIN a, NEW j \in DOMAIN a, i < j, a[j] # Stop
               PROVE  a[i] < a[j]
    BY DEF Rising
  <2>1. i + 1 < j + 1 /\ s[j + 1] # Stop /\ i + 1 \in DOMAIN s /\ j + 1 \in DOMAIN s
    BY <1>1
  <2> QED BY <1>1, <2>1 DEF Rising
<1>4. Rising(s) => \A i \in DOMAIN a : a[i] # Stop => h < a[i]
  BY <1>1 DEF Rising
<1>5. \A t \in Seq(Nat) : Before(t, s) =>
          Before(t, a) /\ (h # Stop => \A i \in DOMAIN t : t[i] < h)
  BY <1>1 DEF Before
<1>6. \A m \in Int : UpTo(s, m) => UpTo(a, m) /\ h <= m
  BY <1>1 DEF UpTo
<1>7. \A m : Within(m, s) <=> Within(m, a) \/ m = h
  BY <1>1, <1>2 DEF Within
<1> QED BY <1>3, <1>4, <1>5, <1>6, <1>7 DEF a, h

\* What is in hand is one notification.
LEMMA OneInHand ==
    ASSUME QueueTypeOK, InHand, worker = "sending"
    PROVE  hand[1] \in Nat /\ DOMAIN hand = {1}
<1>1. Len(hand) = 1 /\ DOMAIN hand = 1 .. Len(hand)
  BY LenProperties DEF QueueTypeOK, InHand
<1> QED BY <1>1, Numbers DEF QueueTypeOK

\* What a call to Telegram adds to what was sent.
LEMMA SendsFacts ==
    ASSUME QueueTypeOK, InHand, Sends
    PROVE  /\ hand[1] \in Nat /\ DOMAIN hand = {1} /\ hand' = <<>>
           /\ sent' = IF Passes(kinds[hand[1]]) THEN Append(sent, hand[1]) ELSE sent
<1>1. hand[1] \in Nat /\ DOMAIN hand = {1}
  BY OneInHand DEF Sends
<1>2. sent \o <<hand[1]>> = Append(sent, hand[1]) /\ sent \o <<>> = sent
  BY <1>1, AppendIsConcat, ConcatEmptySeq DEF QueueTypeOK
<1> QED BY <1>1, <1>2 DEF Sends, SentBy

\* A frame calls _notify; a step leaves all that is queued, in hand or sent.
Notifies(f) == frame = f /\ pc[f] = "run" /\ \E k \in Kinds : Calls(f, k)
Quiet == UNCHANGED <<queue, hand, sent, minted, item, kinds, lost, notifier>>
Same == UNCHANGED <<queue, hand, sent, lost, frame, worker, notifier>>

\* The steps by what they do to notifications.
LEMMA QueueSteps ==
    ASSUME QueueTypeOK, [QueueNext]_queueVars
    PROVE  \/ Quiet /\ UNCHANGED <<frame, pc, worker>>
           \/ Quiet /\ Sigterm /\ UNCHANGED worker
           \/ Quiet /\ Recovers /\ UNCHANGED <<frame, pc>>
           \/ Quiet /\ Joins /\ UNCHANGED <<frame, worker>>
           \/ \E f \in Frames : /\ Quiet /\ frame = f /\ Placing(f) /\ UNCHANGED <<frame, worker>>
                                /\ \E p \in {"put", "putting", "get", "getting"} :
                                       pc' = [pc EXCEPT ![f] = p]
           \/ \E f \in Frames : Notifies(f) /\ Same
           \/ \E f \in Frames : Puts(f) /\ Len(queue) < Cap
           \/ \E f \in Frames : Gets(f) /\ queue # <<>>
           \/ PutSentinel \/ Takes \/ Sends
<1> USE DEF Quiet, Goes, frameVars, workerVars, tickVars
<1>1. CASE UNCHANGED queueVars
  BY <1>1 DEF queueVars
<1>2. CASE TickNotifies
  BY <1>2 DEF TickNotifies, Ticking, Notifies, Same, Frames, Kinds
<1>3. CASE TickWorks
  BY <1>3 DEF TickWorks
<1>4. ASSUME NEW t \in Classified, TickRaises(t)
      PROVE  (Quiet /\ UNCHANGED <<frame, pc, worker>>) \/ (Notifies("tick") /\ Same)
  <2>1. CASE ~latched /\ (~t \/ streak' = Threshold)
    BY <1>4, <2>1 DEF TickRaises, Ticking, Notifies, Same, Kinds
  <2>2. CASE ~(~latched /\ (~t \/ streak' = Threshold))
    BY <1>4, <2>2 DEF TickRaises
  <2> QED BY <2>1, <2>2
<1>5. CASE Sigterm
  BY <1>5 DEF Sigterm
<1>6. ASSUME NEW f \in Frames, Enters(f)
      PROVE  /\ Quiet /\ frame = f /\ Placing(f) /\ UNCHANGED <<frame, worker>>
             /\ \E p \in {"put", "putting", "get", "getting"} : pc' = [pc EXCEPT ![f] = p]
  BY <1>6 DEF Enters, Placing
<1>7. ASSUME NEW f \in Frames, Puts(f), ~(Len(queue) < Cap)
      PROVE  /\ Quiet /\ frame = f /\ Placing(f) /\ UNCHANGED <<frame, worker>>
             /\ pc' = [pc EXCEPT ![f] = "get"]
  BY <1>7 DEF Puts, Placing
<1>8. ASSUME NEW f \in Frames, Gets(f), queue = <<>>
      PROVE  /\ Quiet /\ frame = f /\ Placing(f) /\ UNCHANGED <<frame, worker>>
             /\ pc' = [pc EXCEPT ![f] = "put"]
  BY <1>8 DEF Gets, Placing
<1>9. CASE HandlerNotifies
  BY <1>9 DEF HandlerNotifies, Notifies, Same, Frames, Kinds
<1>10. CASE Joins
  BY <1>10 DEF Joins
<1>11. CASE Recovers
  BY <1>11 DEF Recovers
<1>12. ASSUME NEW t \in Classified, TickRaises(t)
       PROVE  \/ Quiet /\ UNCHANGED <<frame, pc, worker>>
              \/ \E f \in Frames : Notifies(f) /\ Same
  BY <1>4, <1>12 DEF Frames
<1> HIDE DEF Quiet
<1> QED BY <1>1, <1>2, <1>3, <1>5, <1>6, <1>7, <1>8, <1>9, <1>10, <1>11, <1>12
        DEF QueueNext, TickMoves, Main, Worker

\* Every step keeps the types and what is known of the worker's hand.
LEMMA QueueTypeStep ==
    QueueTypeOK /\ InHand /\ [QueueNext]_queueVars => (QueueTypeOK /\ InHand)'
<1> SUFFICES ASSUME QueueTypeOK, InHand, [QueueNext]_queueVars
             PROVE  (QueueTypeOK /\ InHand)'
  OBVIOUS
<1> USE DEF QueueTypeOK, InHand, Frames, Goes
<1>1. CASE Quiet /\ UNCHANGED <<frame, pc, worker>>
  BY <1>1 DEF Quiet
<1>2. CASE Quiet /\ Sigterm /\ UNCHANGED worker
  BY <1>2 DEF Quiet, Sigterm
<1>3. CASE Quiet /\ Recovers /\ UNCHANGED <<frame, pc>>
  BY <1>3 DEF Quiet, Recovers
<1>4. CASE Quiet /\ Joins /\ UNCHANGED <<frame, worker>>
  BY <1>4 DEF Quiet, Joins
<1>5. ASSUME NEW f \in Frames, Quiet, UNCHANGED <<frame, worker>>,
             \E p \in {"put", "putting", "get", "getting"} : pc' = [pc EXCEPT ![f] = p]
      PROVE  (QueueTypeOK /\ InHand)'
  BY <1>5 DEF Quiet
<1>6. ASSUME NEW f \in Frames, Notifies(f), Same PROVE (QueueTypeOK /\ InHand)'
  <2>1. PICK k \in Kinds : Calls(f, k)
    BY <1>6 DEF Notifies
  <2>2. minted' = minted + 1 /\ kinds' = Append(kinds, k)
    BY <2>1 DEF Calls
  <2>3. kinds' \in Seq(Kinds) /\ Len(kinds') = minted'
    <3>1. kinds \in Seq(Kinds) /\ Len(kinds) = minted
      OBVIOUS
    <3>2. Append(kinds, k) \in Seq(Kinds) /\ Len(Append(kinds, k)) = Len(kinds) + 1
      BY <3>1, AppendProperties
    <3> QED BY <2>2, <3>1, <3>2
  <2> QED BY <1>6, <2>1, <2>2, <2>3 DEF Calls, Same
<1>7. ASSUME NEW f \in Frames, Puts(f), Len(queue) < Cap PROVE (QueueTypeOK /\ InHand)'
  <2>1. /\ queue' = Append(queue, item[f]) /\ pc' = [pc EXCEPT ![f] = "run"]
        /\ UNCHANGED <<frame, item, minted, worker, hand, sent, kinds, notifier>>
    BY <1>7 DEF Puts, workerVars, tickVars
  <2>2. queue' \in Seq(Nat)
    BY <2>1, AppendFacts
  <2> QED BY <2>1, <2>2
<1>8. ASSUME NEW f \in Frames, Gets(f), queue # <<>> PROVE (QueueTypeOK /\ InHand)'
  BY <1>8, TailFacts DEF Gets, workerVars, tickVars
<1>9. CASE PutSentinel
  BY <1>9, AppendFacts DEF PutSentinel, workerVars, tickVars, Stop
<1>10. CASE Takes
  <2>1. Tail(queue) \in Seq(Nat) /\ Head(queue) \in Nat
    BY <1>10, TailFacts DEF Takes
  <2>2. <<Head(queue)>> \in Seq(Nat) /\ Len(<<Head(queue)>>) = 1
    BY <2>1
  <2> QED BY <1>10, <2>1, <2>2 DEF Takes, frameVars, tickVars
<1>11. CASE Sends
  <2>1. sent' \in Seq(Nat) /\ hand' = <<>>
    <3>1. hand[1] \in Nat /\ hand' = <<>>
          /\ (sent' = Append(sent, hand[1]) \/ sent' = sent)
      BY <1>11, SendsFacts
    <3>2. Append(sent, hand[1]) \in Seq(Nat)
      BY <3>1, AppendFacts
    <3> QED BY <3>1, <3>2
  <2> QED BY <1>11, <2>1 DEF Sends, frameVars, tickVars
<1> QED BY QueueSteps, <1>1, <1>2, <1>3, <1>4, <1>5, <1>6, <1>7, <1>8, <1>9, <1>10, <1>11

\* The worker takes from one end what the frames put at the other, and a
\* frame places the newest there is: the handler's, once it runs.
LEMMA OrderedStep ==
    ASSUME QueueTypeOK, InHand, Ordered, Newer, Last, [QueueNext]_queueVars
    PROVE  (Ordered /\ Newer)'
<1> USE DEF QueueTypeOK
<1>1. CASE Quiet /\ UNCHANGED <<frame, pc, worker>>
  BY <1>1 DEF Quiet, Ordered, Newer, Placing
<1>2. CASE Quiet /\ Sigterm /\ UNCHANGED worker
  BY <1>2 DEF Quiet, Sigterm, Ordered, Newer, Placing, Last
<1>3. CASE Quiet /\ Recovers /\ UNCHANGED <<frame, pc>>
  BY <1>3 DEF Quiet, Ordered, Newer, Placing
<1>4. CASE Quiet /\ Joins /\ UNCHANGED <<frame, worker>>
  BY <1>4 DEF Quiet, Joins, Goes, Ordered, Newer, Placing, Frames
<1>5. ASSUME NEW f \in Frames, Quiet, frame = f, Placing(f), UNCHANGED <<frame, worker>>
      PROVE  (Ordered /\ Newer)'
  BY <1>5 DEF Quiet, Ordered, Newer
<1>6. ASSUME NEW f \in Frames, Notifies(f), Same PROVE (Ordered /\ Newer)'
  <2>1. /\ minted' = minted + 1 /\ item'[f] = minted + 1 /\ frame' = f
        /\ UNCHANGED <<queue, hand, sent>>
    BY <1>6 DEF Notifies, Calls, Same
  <2>2. \A s \in Seq(Nat) : UpTo(s, minted) => UpTo(s, minted + 1)
    BY Numbers DEF UpTo
  <2>3. (minted + 1) - 1 = minted /\ minted + 1 > 0
    OBVIOUS
  <2> QED BY <2>1, <2>2, <2>3 DEF Ordered, Newer
<1>7. ASSUME NEW f \in Frames, Puts(f), Len(queue) < Cap PROVE (Ordered /\ Newer)'
  <2>1. /\ frame = f /\ Placing(f) /\ queue' = Append(queue, minted)
        /\ pc' = [pc EXCEPT ![f] = "run"] /\ minted > 0
        /\ UNCHANGED <<hand, sent, minted, frame>>
    BY <1>7 DEF Puts, Goes, Placing, Newer, workerVars
  <2>2. \A s \in {sent, hand, queue} : \A i \in DOMAIN s : s[i] < minted
    BY <2>1, Numbers DEF Newer, UpTo
  <2>3. ~Placing(frame)'
    BY <2>1 DEF Placing
  <2>4. minted \in Int /\ minted <= minted
    OBVIOUS
  <2> QED BY <2>1, <2>2, <2>3, <2>4, AppendOrders DEF Ordered, Newer
<1>8. ASSUME NEW f \in Frames, Gets(f), queue # <<>> PROVE (Ordered /\ Newer)'
  <2>1. /\ frame = f /\ Placing(f) /\ queue' = Tail(queue)
        /\ UNCHANGED <<hand, sent, minted, item, frame>>
    BY <1>8 DEF Gets, Placing, workerVars
  <2>2. minted \in Int /\ minted - 1 \in Int
    OBVIOUS
  <2> QED BY <1>8, <2>1, <2>2, TailOrders DEF Ordered, Newer
<1>9. CASE PutSentinel
  <2>1. /\ queue' = Append(queue, Stop) /\ frame = "handler"
        /\ pc' = [pc EXCEPT !["handler"] = "join"]
        /\ UNCHANGED <<hand, sent, minted, item, frame>>
    BY <1>9 DEF PutSentinel, Goes, workerVars
  <2>2. ~Placing(frame)'
    BY <2>1 DEF Placing, Frames
  <2>3. Stop \in Nat /\ minted \in Int /\ Stop <= minted
    BY DEF Stop
  <2> QED BY <2>1, <2>2, <2>3, AppendOrders DEF Ordered, Newer
<1>10. CASE Takes
  <2>1. /\ queue # <<>> /\ queue' = Tail(queue) /\ hand = <<>>
        /\ UNCHANGED <<sent, minted, item, frame, pc>>
        /\ \/ hand' = <<>>
           \/ hand' = <<Head(queue)>> /\ Head(queue) # Stop
    BY <1>10 DEF Takes, InHand, frameVars
  <2>2. Head(queue) \in Nat /\ minted \in Int /\ minted - 1 \in Int
    BY <2>1, TailFacts
  <2>3. /\ Rising(Tail(queue)) /\ Before(sent, Tail(queue)) /\ UpTo(Tail(queue), minted)
        /\ Head(queue) <= minted
        /\ \A i \in DOMAIN Tail(queue) : Tail(queue)[i] # Stop => Head(queue) < Tail(queue)[i]
        /\ Head(queue) # Stop => \A i \in DOMAIN sent : sent[i] < Head(queue)
        /\ UpTo(queue, minted - 1) => UpTo(Tail(queue), minted - 1) /\ Head(queue) <= minted - 1
    BY <2>1, <2>2, TailOrders DEF Ordered
  <2>4. CASE hand' = <<>>
    BY <2>1, <2>3, <2>4 DEF Ordered, Newer, Before, UpTo, Placing
  <2>5. CASE hand' = <<Head(queue)>> /\ Head(queue) # Stop
    <3>1. DOMAIN hand' = {1} /\ hand'[1] = Head(queue)
      BY <2>5
    <3>2. Before(sent, hand') /\ Before(hand', Tail(queue)) /\ UpTo(hand', minted)
      BY <2>3, <2>5, <3>1 DEF Before, UpTo
    <3>3. UpTo(queue, minted - 1) => UpTo(hand', minted - 1)
      BY <2>3, <3>1 DEF UpTo
    <3> QED BY <2>1, <2>3, <3>2, <3>3 DEF Ordered, Newer, Placing
  <2> QED BY <2>1, <2>4, <2>5
<1>11. CASE Sends
  <2>1. /\ hand[1] \in Nat /\ DOMAIN hand = {1} /\ hand' = <<>>
        /\ sent' = IF Passes(kinds[hand[1]]) THEN Append(sent, hand[1]) ELSE sent
        /\ UNCHANGED <<queue, minted, item, frame, pc>>
    BY <1>11, SendsFacts DEF Sends, frameVars
  <2>2. /\ hand[1] = Stop \/ \A i \in DOMAIN sent : sent[i] < hand[1]
        /\ \A j \in DOMAIN queue : queue[j] # Stop => hand[1] < queue[j]
        /\ hand[1] <= minted
        /\ UpTo(hand, minted - 1) => hand[1] <= minted - 1
    BY <2>1 DEF Ordered, Before, UpTo
  <2>3. minted \in Int /\ minted - 1 \in Int
    OBVIOUS
  <2>4. /\ Rising(sent') /\ Before(sent', queue) /\ UpTo(sent', minted)
        /\ UpTo(sent, minted - 1) /\ UpTo(hand, minted - 1) => UpTo(sent', minted - 1)
    BY <2>1, <2>2, <2>3, AppendOrders DEF Ordered
  <2>5. Before(sent', hand') /\ Before(hand', queue) /\ \A m : UpTo(hand', m)
    BY <2>1 DEF Before, UpTo
  <2> QED BY <2>1, <2>4, <2>5 DEF Ordered, Newer, Placing
<1> QED BY QueueSteps, <1>1, <1>2, <1>3, <1>4, <1>5, <1>6, <1>7, <1>8, <1>9, <1>10, <1>11

\* Nothing is put behind the sentinel: the handler, which puts it, is done,
\* and the tick loop stands still.
LEMMA LastStep ==
    ASSUME QueueTypeOK, Newer, Last, [QueueNext]_queueVars
    PROVE  Last'
<1> USE DEF QueueTypeOK, Leaving, Frames, Goes
<1>1. CASE Quiet /\ UNCHANGED <<frame, pc, worker>>
  BY <1>1 DEF Quiet, Last
<1>2. CASE Quiet /\ Sigterm /\ UNCHANGED worker
  BY <1>2 DEF Quiet, Sigterm, Last
<1>3. CASE Quiet /\ Recovers /\ UNCHANGED <<frame, pc>>
  BY <1>3 DEF Quiet, Recovers, Last
<1>4. CASE Quiet /\ Joins /\ UNCHANGED <<frame, worker>>
  BY <1>4 DEF Quiet, Joins, Last
<1>5. ASSUME NEW f \in Frames, Quiet, frame = f, Placing(f), UNCHANGED <<frame, worker>>,
             \E p \in {"put", "putting", "get", "getting"} : pc' = [pc EXCEPT ![f] = p]
      PROVE  Last'
  <2>1. frame = "tick" \/ ~Leaving
    BY <1>5 DEF Placing
  <2> QED BY <1>5, <2>1 DEF Quiet, Last, Placing
<1>6. ASSUME NEW f \in Frames, Notifies(f), Same PROVE Last'
  BY <1>6 DEF Notifies, Calls, Same, Last
<1>7. ASSUME NEW f \in Frames, Puts(f), Len(queue) < Cap PROVE Last'
  <2>1. /\ queue' = Append(queue, minted) /\ minted \in Nat /\ minted > 0
        /\ frame = f /\ pc[f] = "putting" /\ pc' = [pc EXCEPT ![f] = "run"]
        /\ UNCHANGED <<frame, worker>>
    BY <1>7 DEF Puts, Placing, Newer, workerVars
  <2>2. ~Leaving
    BY <2>1 DEF Last
  <2>3. \A i \in DOMAIN queue : queue[i] # Stop
    BY <2>2 DEF Last
  <2>4. \A i \in DOMAIN queue' : queue'[i] # Stop
    BY <2>1, <2>3, AppendFacts DEF Stop
  <2> QED BY <2>1, <2>2, <2>4 DEF Last
<1>8. ASSUME NEW f \in Frames, Gets(f), queue # <<>> PROVE Last'
  <2>1. /\ queue' = Tail(queue) /\ frame = f /\ pc[f] = "getting"
        /\ pc' = [pc EXCEPT ![f] = "put"] /\ UNCHANGED <<frame, worker>>
    BY <1>8 DEF Gets, workerVars
  <2>2. ~Leaving
    BY <2>1 DEF Last
  <2>3. \A i \in DOMAIN queue : queue[i] # Stop
    BY <2>2 DEF Last
  <2>4. \A i \in DOMAIN queue' : queue'[i] # Stop
    BY <1>8, <2>1, <2>3, TailFacts
  <2> QED BY <2>1, <2>2, <2>4 DEF Last
<1>9. CASE PutSentinel
  <2>1. /\ queue' = Append(queue, Stop) /\ frame = "handler" /\ pc["handler"] = "run"
        /\ pc' = [pc EXCEPT !["handler"] = "join"] /\ UNCHANGED <<frame, worker>>
    BY <1>9 DEF PutSentinel, workerVars
  <2>2. \A i \in DOMAIN queue : queue[i] # Stop
    BY <2>1 DEF Last
  <2>3. \A i \in DOMAIN queue' : queue'[i] = Stop => i = Len(queue')
    BY <2>1, <2>2, AppendFacts DEF Stop
  <2> QED BY <2>1, <2>3 DEF Last
<1>10. CASE Takes
  <2>1. /\ queue # <<>> /\ queue' = Tail(queue) /\ UNCHANGED <<frame, pc>>
        /\ worker' \in {"done", "sending"}
        /\ worker' = "done" => Head(queue) = Stop
    BY <1>10 DEF Takes, frameVars
  <2>2. /\ Len(queue) \in Nat /\ Len(queue') = Len(queue) - 1 /\ queue' \in Seq(Nat)
        /\ 1 \in DOMAIN queue /\ queue[1] = Head(queue)
        /\ \A i \in DOMAIN queue' : i \in Nat /\ i + 1 \in DOMAIN queue /\ queue'[i] = queue[i + 1]
    BY <2>1, TailFacts
  <2>3. \A i \in DOMAIN queue' : queue'[i] = Stop => i = Len(queue') /\ Leaving
    BY <2>2 DEF Last
  <2>4. ASSUME worker' = "done" PROVE queue' = <<>> /\ Leaving
    <3>1. Len(queue) = 1 /\ Leaving
      BY <2>1, <2>2, <2>4 DEF Last
    <3> QED BY <2>2, <3>1, EmptySeq
  <2> QED BY <2>1, <2>3, <2>4 DEF Last
<1>11. CASE Sends
  BY <1>11 DEF Sends, frameVars, Last
<1> QED BY QueueSteps, <1>1, <1>2, <1>3, <1>4, <1>5, <1>6, <1>7, <1>8, <1>9, <1>10, <1>11

\* The notifier lets through what the user was promised.
LEMMA PassesPromised == \A k : Passes(k) <=> Promised(k)
  BY DEF Passes, IsEnabled, AlwaysOn, Promised, Safety

\* What a step leaves leaves the fate of a notification.
LEMMA ServedStays ==
    ASSUME UNCHANGED <<sent, notifier>>, NEW n, kinds'[n] = kinds[n]
    PROVE  Served(n) => Served(n)'
<1>1. Within(n, sent) <=> Within(n, sent')
  OBVIOUS
<1>2. Promised(kinds[n])' <=> Promised(kinds[n])
  BY DEF Promised
<1> QED BY <1>1, <1>2 DEF Served

\* A notification goes from the frame to the queue, from there to the worker
\* or among the lost ones, and from the worker to the user if promised.
LEMMA AccountedStep ==
    ASSUME QueueTypeOK, InHand, Ordered, Newer, Accounted, [QueueNext]_queueVars
    PROVE  Accounted'
<1> USE DEF QueueTypeOK, Goes
<1>a. ASSUME Quiet, \A f \in Frames : Placing(f) => Placing(f)' PROVE Accounted'
  <2>1. \A n : InPlace(n) => InPlace(n)'
    BY <1>a DEF Quiet, InPlace
  <2>2. \A n : Served(n) => Served(n)'
    BY <1>a, ServedStays DEF Quiet
  <2> QED BY <1>a, <2>1, <2>2 DEF Quiet, Accounted
<1>1. CASE Quiet /\ UNCHANGED <<frame, pc, worker>>
  BY <1>1, <1>a DEF Placing
<1>2. CASE Quiet /\ Sigterm /\ UNCHANGED worker
  BY <1>2, <1>a DEF Sigterm, Placing
<1>3. CASE Quiet /\ Recovers /\ UNCHANGED <<frame, pc>>
  BY <1>3, <1>a DEF Placing
<1>4. CASE Quiet /\ Joins /\ UNCHANGED <<frame, worker>>
  BY <1>4, <1>a DEF Joins, Placing
<1>5. ASSUME NEW f \in Frames, Quiet, frame = f, Placing(f), UNCHANGED <<frame, worker>>,
             \E p \in {"put", "putting", "get", "getting"} : pc' = [pc EXCEPT ![f] = p]
      PROVE  Accounted'
  <2>1. \A g \in Frames : Placing(g) => Placing(g)'
    BY <1>5 DEF Placing
  <2> QED BY <1>5, <1>a, <2>1
<1>6. ASSUME NEW f \in Frames, Notifies(f), Same PROVE Accounted'
  <2>1. PICK k \in Kinds : Calls(f, k)
    BY <1>6 DEF Notifies
  <2>2. /\ minted' = minted + 1 /\ kinds' = Append(kinds, k)
        /\ Placing(f)' /\ item'[f] = minted + 1
        /\ \A g \in Frames : Placing(g) => Placing(g)' /\ item'[g] = item[g]
    BY <1>6, <2>1 DEF Calls, Notifies, Placing
  <2>3. \A n : InPlace(n) => InPlace(n)'
    BY <2>2 DEF InPlace
  <2>4. \A n \in 1 .. minted : Served(n) => Served(n)'
    <3>1. \A n \in 1 .. minted : kinds'[n] = kinds[n]
      BY <2>2, AppendProperties
    <3> QED BY <1>6, <3>1, ServedStays DEF Same
  <2>5. InPlace(minted)'
    BY <2>2 DEF InPlace
  <2>6. \A n \in 1 .. minted' : n \in 1 .. minted \/ n = minted'
    BY <2>2
  <2> QED BY <1>6, <2>3, <2>4, <2>5, <2>6 DEF Same, Accounted
<1>7. ASSUME NEW f \in Frames, Puts(f), Len(queue) < Cap PROVE Accounted'
  <2>1. /\ queue' = Append(queue, item[f])
        /\ \A g \in Frames \ {f} : Placing(g)' <=> Placing(g)
        /\ UNCHANGED <<item, minted, hand, sent, lost, kinds, notifier>>
    BY <1>7 DEF Puts, Placing, workerVars, tickVars
  <2>2. \A n : Within(n, queue') <=> Within(n, queue) \/ n = item[f]
    BY <2>1, AppendOrders
  <2>3. \A n : InPlace(n) => n = item[f] \/ InPlace(n)'
    BY <2>1 DEF InPlace
  <2>4. \A n : Served(n) => Served(n)'
    BY <2>1, ServedStays
  <2> QED BY <2>1, <2>2, <2>3, <2>4 DEF Accounted
<1>8. ASSUME NEW f \in Frames, Gets(f), queue # <<>> PROVE Accounted'
  <2>1. /\ queue' = Tail(queue) /\ lost' = lost \cup {Head(queue)}
        /\ \A g \in Frames : Placing(g) => Placing(g)'
        /\ UNCHANGED <<item, minted, hand, sent, kinds, notifier>>
    BY <1>8 DEF Gets, Placing, workerVars, tickVars
  <2>2. \A n : Within(n, queue) <=> Within(n, queue') \/ n = Head(queue)
    BY <1>8, <2>1, TailOrders
  <2>3. \A n : InPlace(n) => InPlace(n)'
    BY <2>1 DEF InPlace
  <2>4. \A n : Served(n) => Served(n)'
    BY <2>1, ServedStays
  <2> QED BY <2>1, <2>2, <2>3, <2>4 DEF Accounted
<1>9. CASE PutSentinel
  <2>1. /\ queue' = Append(queue, Stop)
        /\ \A g \in Frames : Placing(g) => Placing(g)'
        /\ UNCHANGED <<item, minted, hand, sent, lost, kinds, notifier>>
    BY <1>9 DEF PutSentinel, Placing, workerVars, tickVars
  <2>2. \A n : Within(n, queue) => Within(n, queue')
    BY <2>1, AppendOrders DEF Stop
  <2>3. \A n : InPlace(n) => InPlace(n)'
    BY <2>1 DEF InPlace
  <2>4. \A n : Served(n) => Served(n)'
    BY <2>1, ServedStays
  <2> QED BY <2>1, <2>2, <2>3, <2>4 DEF Accounted
<1>10. CASE Takes
  <2>1. /\ queue # <<>> /\ queue' = Tail(queue) /\ hand = <<>>
        /\ UNCHANGED <<sent, minted, item, pc, lost, kinds, notifier>>
        /\ Head(queue) = Stop \/ hand' = <<Head(queue)>>
    BY <1>10 DEF Takes, InHand, frameVars, tickVars
  <2>2. \A n : Within(n, queue) <=> Within(n, queue') \/ n = Head(queue)
    BY <2>1, TailOrders
  <2>3. \A n \in 1 .. minted : n = Head(queue) => Within(n, hand')
    BY <2>1 DEF Within, Stop
  <2>4. \A n : ~Within(n, hand)
    BY <2>1 DEF Within
  <2>5. \A n : InPlace(n) => InPlace(n)'
    BY <2>1 DEF InPlace, Placing
  <2>6. \A n : Served(n) => Served(n)'
    BY <2>1, ServedStays
  <2> QED BY <2>1, <2>2, <2>3, <2>4, <2>5, <2>6 DEF Accounted
<1>11. CASE Sends
  <2> DEFINE h == hand[1]
  <2>1. /\ h \in Nat /\ DOMAIN hand = {1}
        /\ sent' = IF Passes(kinds[h]) THEN Append(sent, h) ELSE sent
        /\ UNCHANGED <<queue, minted, item, pc, lost, kinds, notifier>>
    BY <1>11, SendsFacts DEF Sends, frameVars, tickVars
  <2>2. \A n : Within(n, hand) <=> n = h
    BY <2>1 DEF Within
  <2>3. \A n : Within(n, sent') <=> Within(n, sent) \/ (n = h /\ Passes(kinds[h]))
    <3>1. \A n : Within(n, Append(sent, h)) <=> Within(n, sent) \/ n = h
      BY <2>1, AppendOrders
    <3> QED BY <2>1, <3>1
  <2>4. h \in 1 .. minted => ~Within(h, sent)
    <3>1. Before(sent, hand)
      BY DEF Ordered
    <3>2. h # Stop => \A i \in DOMAIN sent : sent[i] < h
      BY <2>1, <3>1 DEF Before
    <3>3. \A i \in DOMAIN sent : sent[i] \in Nat
      BY Numbers
    <3> QED BY <2>1, <3>2, <3>3 DEF Within, Stop
  <2>5. \A n : InPlace(n) => InPlace(n)'
    BY <2>1 DEF InPlace, Placing
  <2>6. \A n : Promised(kinds[n])' <=> Promised(kinds[n])
    BY <2>1 DEF Promised
  <2>7. \A n : n # h => (Served(n) => Served(n)')
    BY <2>3, <2>6 DEF Served
  <2>8. \A n \in 1 .. minted : n = h => Served(n)'
    BY <2>3, <2>4, <2>6, PassesPromised DEF Served
  <2> HIDE DEF h
  <2> QED BY <2>1, <2>2, <2>5, <2>7, <2>8 DEF Accounted
<1> QED BY QueueSteps, <1>1, <1>2, <1>3, <1>4, <1>5, <1>6, <1>7, <1>8, <1>9, <1>10, <1>11

\* The invariant holds in every behaviour.
LEMMA QueueInvariance == QueueSpec => []QueueInv
<1>1. QueueInit /\ NotifierInit => QueueInv
  <2> SUFFICES ASSUME QueueInit, NotifierInit PROVE QueueInv
    OBVIOUS
  <2>1. /\ <<>> \in Seq(Nat) /\ <<>> \in Seq(Kinds) /\ Len(<<>>) = 0
    OBVIOUS
  <2>2. notifier.on \in BOOLEAN
    BY DEF NotifierInit
  <2>3. QueueTypeOK
    BY <2>1, <2>2 DEF QueueInit, QueueTypeOK, Frames
  <2>4. InHand /\ Ordered /\ Newer /\ Last /\ Accounted
    BY DEF QueueInit, InHand, Ordered, Newer, Last, Accounted,
           Rising, Before, UpTo, Placing, Frames
  <2> QED BY <2>3, <2>4 DEF QueueInv
<1>2. QueueInv /\ [QueueNext]_queueVars => QueueInv'
  BY QueueTypeStep, OrderedStep, LastStep, AccountedStep DEF QueueInv
<1> QED BY <1>1, <1>2, PTL DEF QueueSpec

\* What reaches Telegram, is being sent and is queued is in the order of the
\* _notify calls, however long the queue, whatever is dropped and wherever
\* SIGTERM finds the tick loop (_notify, _notify_worker).
THEOREM NotificationsInOrder == QueueSpec => []InOrder
<1>1. QueueInv => InOrder
  <2> SUFFICES ASSUME QueueInv, NEW i \in DOMAIN Pipeline, NEW j \in DOMAIN Pipeline,
                      i < j, Pipeline[j] # Stop
               PROVE  Pipeline[i] < Pipeline[j]
    BY DEF InOrder
  <2> DEFINE a == Len(sent)
             b == Len(hand)
             c == Len(queue)
             both == sent \o hand
  <2>1. /\ both \in Seq(Nat) /\ Len(both) = a + b
        /\ \A k \in 1 .. a + b : both[k] = IF k <= a THEN sent[k] ELSE hand[k - a]
    BY ConcatProperties DEF QueueInv, QueueTypeOK
  <2>2. /\ Pipeline \in Seq(Nat) /\ Len(Pipeline) = (a + b) + c
        /\ \A k \in 1 .. (a + b) + c :
               Pipeline[k] = IF k <= a + b THEN both[k] ELSE queue[k - (a + b)]
    BY <2>1, ConcatProperties DEF QueueInv, QueueTypeOK, Pipeline
  <2>3. /\ a \in Nat /\ b \in Nat /\ c \in Nat
        /\ DOMAIN sent = 1 .. a /\ DOMAIN hand = 1 .. b /\ DOMAIN queue = 1 .. c
        /\ i \in 1 .. (a + b) + c /\ j \in 1 .. (a + b) + c
    BY <2>2, LenProperties DEF QueueInv, QueueTypeOK
  <2> HIDE DEF a, b, c, both
  <2>4. \A k \in 1 .. (a + b) + c :
           \/ k <= a /\ k \in DOMAIN sent /\ Pipeline[k] = sent[k]
           \/ k > a /\ k <= a + b /\ k - a \in DOMAIN hand /\ Pipeline[k] = hand[k - a]
           \/ k > a + b /\ k - (a + b) \in DOMAIN queue /\ Pipeline[k] = queue[k - (a + b)]
    <3> SUFFICES ASSUME NEW k \in 1 .. (a + b) + c
                 PROVE  \/ k <= a /\ k \in DOMAIN sent /\ Pipeline[k] = sent[k]
                        \/ /\ k > a /\ k <= a + b /\ k - a \in DOMAIN hand
                           /\ Pipeline[k] = hand[k - a]
                        \/ /\ k > a + b /\ k - (a + b) \in DOMAIN queue
                           /\ Pipeline[k] = queue[k - (a + b)]
      OBVIOUS
    <3>1. CASE k <= a
      <4>1. k \in 1 .. a /\ k \in 1 .. a + b /\ k <= a + b
        BY <2>3, <3>1
      <4>2. Pipeline[k] = both[k] /\ both[k] = sent[k]
        BY <2>1, <2>2, <3>1, <4>1
      <4> QED BY <2>3, <3>1, <4>1, <4>2
    <3>2. CASE k > a /\ k <= a + b
      <4>1. k \in 1 .. a + b /\ k - a \in 1 .. b /\ ~(k <= a)
        BY <2>3, <3>2
      <4>2. Pipeline[k] = both[k] /\ both[k] = hand[k - a]
        BY <2>1, <2>2, <3>2, <4>1
      <4> QED BY <2>3, <3>2, <4>1, <4>2
    <3>3. CASE k > a + b
      <4>1. k - (a + b) \in 1 .. c /\ ~(k <= a + b)
        BY <2>3, <3>3
      <4>2. Pipeline[k] = queue[k - (a + b)]
        BY <2>2, <4>1
      <4> QED BY <2>3, <3>3, <4>1, <4>2
    <3> QED BY <2>3, <3>1, <3>2, <3>3
  <2>5. Rising(sent) /\ Rising(queue) /\ Before(sent, hand) /\ Before(sent, queue) /\ Before(hand, queue)
    BY DEF QueueInv, Ordered
  <2>6. b <= 1
    <3>1. b = 1 \/ hand = <<>>
      BY DEF QueueInv, InHand, b
    <3>2. hand = <<>> => b = 0
      BY EmptySeq DEF QueueInv, QueueTypeOK, b
    <3> QED BY <3>1, <3>2
  <2>7. CASE j <= a
    BY <2>3, <2>4, <2>5, <2>7 DEF Rising
  <2>8. CASE j > a /\ j <= a + b
    <3>1. i <= a
      BY <2>3, <2>6, <2>8
    <3> QED BY <2>3, <2>4, <2>5, <2>8, <3>1 DEF Before
  <2>9. CASE j > a + b
    <3>1. CASE i > a + b
      <4>1. i - (a + b) < j - (a + b)
        BY <2>3
      <4>2. /\ i - (a + b) \in DOMAIN queue /\ Pipeline[i] = queue[i - (a + b)]
            /\ j - (a + b) \in DOMAIN queue /\ Pipeline[j] = queue[j - (a + b)]
        BY <2>3, <2>4, <2>9, <3>1
      <4> QED BY <2>5, <4>1, <4>2 DEF Rising
    <3>2. CASE i <= a + b
      BY <2>3, <2>4, <2>5, <2>9, <3>2 DEF Before
    <3> QED BY <2>3, <3>1, <3>2
  <2> QED BY <2>3, <2>7, <2>8, <2>9
<1> QED BY <1>1, QueueInvariance, PTL

\* When the worker has ended, every notification was dropped from a full queue,
\* or reached the user exactly if promised, or is the one the tick loop was
\* placing when SIGTERM came (stop, main_paper.py: the signal handler).
THEOREM WorkerDrains == QueueSpec => []Drained
<1>1. QueueInv => Drained
  <2> SUFFICES ASSUME QueueInv, worker = "done", NEW n \in 1 .. minted
               PROVE  \/ n \in lost \/ (Heard(n) <=> Promised(kinds[n]))
                      \/ Placing("tick") /\ item["tick"] = n
    BY DEF Drained
  <2>1. queue = <<>> /\ hand = <<>> /\ ~Placing("handler")
    BY DEF QueueInv, InHand, Last, Leaving, Placing
  <2>2. ~Within(n, queue) /\ ~Within(n, hand)
    BY <2>1 DEF Within
  <2>3. Heard(n) <=> Within(n, sent)
    BY DEF Heard, Within
  <2> QED BY <2>1, <2>2, <2>3 DEF QueueInv, Accounted, InPlace, Served, Frames
<1> QED BY <1>1, QueueInvariance, PTL

----------------------------------------------------------------------------
\* What the tick loop has reported, and what becomes of SIGTERM.

\* The latch is up from the report of a streak to its end, and before the streak
\* gets to the threshold.
AlarmInv ==
    /\ streak \in 0 .. Threshold
    /\ streak = Threshold => latched
    /\ latched => alarm \in 1 .. minted /\ kinds[alarm] = "error"

\* A handler on top of a tick loop that is inside the queue gets no further than
\* to its first put_nowait.
StuckInv ==
    /\ frame = "tick" => pc["handler"] = "run" /\ calls = 0
    /\ frame = "handler" /\ mutex = "tick" =>
           \/ pc["handler"] = "run" /\ calls = 0
           \/ pc["handler"] = "put"

\* Every step keeps what is known of the latch.
LEMMA AlarmStep ==
    ASSUME QueueTypeOK, AlarmInv, [QueueNext]_queueVars
    PROVE  AlarmInv'
<1> USE DEF frameVars, tickVars, workerVars
<1>1. CASE UNCHANGED <<streak, latched, alarm, minted, kinds>>
  BY <1>1 DEF AlarmInv
<1>2. ASSUME NEW f \in Frames, NEW k, Calls(f, k)
      PROVE  /\ minted' = minted + 1 /\ minted' \in 1 .. minted' /\ kinds'[minted'] = k
             /\ \A n \in 1 .. minted : n \in 1 .. minted' /\ kinds'[n] = kinds[n]
  <2>1. minted' = minted + 1 /\ kinds' = Append(kinds, k) /\ minted \in Nat
        /\ kinds \in Seq(Kinds) /\ Len(kinds) = minted
    BY <1>2 DEF Calls, QueueTypeOK
  <2>2. /\ \A n \in 1 .. minted : kinds'[n] = kinds[n]
        /\ kinds'[minted + 1] = k
    BY <2>1
  <2> QED BY <2>1, <2>2
<1>3. ASSUME NEW f \in Frames, NEW k, Calls(f, k), UNCHANGED <<streak, latched, alarm>>
      PROVE  AlarmInv'
  BY <1>2, <1>3 DEF AlarmInv
<1>4. CASE TickNotifies
  BY <1>3, <1>4 DEF TickNotifies, Frames
<1>5. CASE TickWorks
  BY <1>5, QueueAssumption DEF TickWorks, AlarmInv
<1>6. ASSUME NEW t \in Classified, TickRaises(t) PROVE AlarmInv'
  <2>1. streak' = IF streak < Threshold THEN streak + 1 ELSE streak
    BY <1>6 DEF TickRaises
  <2>2. streak' \in 0 .. Threshold
    BY <2>1, QueueAssumption DEF AlarmInv
  <2>3. CASE ~latched /\ (~t \/ streak' = Threshold)
    <3>1. latched' /\ alarm' = minted + 1 /\ Calls("tick", "error")
      BY <1>6, <2>3 DEF TickRaises
    <3> QED BY <1>2, <2>2, <3>1 DEF AlarmInv, Frames
  <2>4. CASE ~(~latched /\ (~t \/ streak' = Threshold))
    <3>1. UNCHANGED <<latched, alarm, minted, kinds>>
      BY <1>6, <2>4 DEF TickRaises
    <3>2. streak' = Threshold => latched
      BY <2>4
    <3> QED BY <2>2, <3>1, <3>2 DEF AlarmInv
  <2> QED BY <2>3, <2>4
<1>7. CASE HandlerNotifies
  BY <1>3, <1>7 DEF HandlerNotifies, Frames
<1>8. ASSUME NEW f \in Frames, Enters(f) \/ Puts(f) \/ Gets(f)
      PROVE  UNCHANGED <<streak, latched, alarm, minted, kinds>>
  BY <1>8 DEF Enters, Puts, Gets
<1>9. CASE Sigterm \/ PutSentinel \/ Joins \/ Worker
  BY <1>1, <1>9 DEF Sigterm, PutSentinel, Joins, Worker, Takes, Sends, Recovers
<1>10. CASE UNCHANGED queueVars
  BY <1>1, <1>10 DEF queueVars
<1> QED BY <1>1, <1>4, <1>5, <1>6, <1>7, <1>8, <1>9, <1>10 DEF QueueNext, TickMoves, Main

\* Every step keeps a stuck handler stuck, and a handler's frame fresh until it runs.
LEMMA StuckStep ==
    ASSUME QueueTypeOK, StuckInv, [QueueNext]_queueVars
    PROVE  /\ StuckInv'
           /\ frame = "handler" /\ mutex = "tick"
                  => Alive' /\ UNCHANGED <<frame, mutex, queue>>
<1> DEFINE Stays == /\ StuckInv'
                    /\ frame = "handler" /\ mutex = "tick"
                           => Alive' /\ UNCHANGED <<frame, mutex, queue>>
<1> SUFFICES Stays
  OBVIOUS
<1> USE DEF frameVars, tickVars, workerVars, StuckInv, Alive, QueueTypeOK, Frames, Goes
<1>1. CASE UNCHANGED <<frame, mutex, queue, pc, calls>>
  BY <1>1
<1>2. CASE UNCHANGED <<frame, mutex, calls>> /\ frame = "tick" /\ pc'["handler"] = pc["handler"]
  BY <1>2
<1>3. CASE TickMoves
  <2>1. UNCHANGED <<frame, mutex, calls>> /\ frame = "tick"
    BY <1>3 DEF TickMoves, TickNotifies, TickWorks, TickRaises, Ticking
  <2>2. pc'["handler"] = pc["handler"]
    BY <1>3 DEF TickMoves, TickNotifies, TickWorks, TickRaises, Calls
  <2> QED BY <1>2, <2>1, <2>2
<1>4. CASE Sigterm
  BY <1>4 DEF Sigterm
<1>5. ASSUME NEW f \in Frames, Enters(f) PROVE Stays
  <2>1. /\ frame = f /\ mutex = "free" /\ mutex' = f /\ UNCHANGED <<frame, queue, calls>>
        /\ pc' = [pc EXCEPT ![f] = IF pc[f] = "put" THEN "putting" ELSE "getting"]
    BY <1>5 DEF Enters
  <2> QED BY <2>1
<1>6. ASSUME NEW f \in Frames, Puts(f) PROVE Stays
  <2>1. /\ frame = f /\ pc[f] = "putting" /\ mutex' = "free" /\ UNCHANGED <<frame, calls>>
        /\ pc' = [pc EXCEPT ![f] = "run"] \/ pc' = [pc EXCEPT ![f] = "get"]
    BY <1>6 DEF Puts
  <2> QED BY <2>1
<1>7. ASSUME NEW f \in Frames, Gets(f) PROVE Stays
  <2>1. /\ frame = f /\ pc[f] = "getting" /\ mutex' = "free" /\ UNCHANGED <<frame, calls>>
        /\ pc' = [pc EXCEPT ![f] = "put"]
    BY <1>7 DEF Gets
  <2> QED BY <2>1
<1>8. CASE HandlerNotifies
  BY <1>8 DEF HandlerNotifies, Calls
<1>9. CASE PutSentinel \/ Joins
  BY <1>9 DEF PutSentinel, Joins
<1>10. CASE Takes
  BY <1>10 DEF Takes
<1>11. CASE Sends \/ Recovers
  BY <1>1, <1>11 DEF Sends, Recovers
<1>12. CASE UNCHANGED queueVars
  BY <1>1, <1>12 DEF queueVars
<1> HIDE DEF Stays
<1> QED BY <1>3, <1>4, <1>5, <1>6, <1>7, <1>8, <1>9, <1>10, <1>11, <1>12
        DEF QueueNext, Main, Worker

\* The two hold in every behaviour.
LEMMA AlarmInvariance == QueueSpec => [](QueueInv /\ AlarmInv /\ StuckInv)
<1>1. QueueInit => AlarmInv /\ StuckInv
  BY QueueAssumption DEF QueueInit, AlarmInv, StuckInv, Frames
<1>2. QueueInv /\ AlarmInv /\ [QueueNext]_queueVars => AlarmInv'
  BY AlarmStep DEF QueueInv
<1>3. QueueInv /\ StuckInv /\ [QueueNext]_queueVars => StuckInv'
  BY StuckStep DEF QueueInv
<1> QED BY <1>1, <1>2, <1>3, QueueInvariance, PTL DEF QueueSpec

\* The report of an outage that lasts exists, as an error notification, and is
\* where it should be: on its way (in the tick loop's hands, queued or with the
\* worker), sent if a chat is linked, or dropped from a full queue.
OutageReported ==
    streak = Threshold =>
        /\ latched /\ alarm \in 1 .. minted /\ kinds[alarm] = "error"
        /\ \/ alarm \in lost \/ Within(alarm, queue) \/ Within(alarm, hand) \/ InPlace(alarm)
           \/ Within(alarm, sent) <=> notifier.on

\* What OutageHeard says of the end, said of every state: once as many ticks in a
\* row have failed as TICK_ERROR_PERSISTENT_THRESHOLD, the outage's own report has
\* been made and is not forgotten, whether the streak began with an error that no
\* retry helps or not, and whatever was dropped meanwhile (_tick, _notify).
THEOREM OutagesAreReported == QueueSpec => []OutageReported
<1>1. QueueInv /\ AlarmInv => OutageReported
  <2> SUFFICES ASSUME QueueInv, AlarmInv, streak = Threshold PROVE OutageReported
    BY DEF OutageReported
  <2>1. latched /\ alarm \in 1 .. minted /\ kinds[alarm] = "error"
    BY DEF AlarmInv
  <2>2. Promised(kinds[alarm]) <=> notifier.on
    BY <2>1 DEF Promised, Safety
  <2>3. \/ alarm \in lost \/ Within(alarm, queue) \/ Within(alarm, hand) \/ InPlace(alarm)
        \/ Served(alarm)
    BY <2>1 DEF QueueInv, Accounted
  <2> QED BY <2>1, <2>2, <2>3 DEF OutageReported, Served
<1> QED BY <1>1, AlarmInvariance, PTL

\* A SIGTERM that finds the tick loop inside the queue never ends in an exit: the
\* handler waits for a mutex that the frame under it holds, nothing is taken from
\* the queue any more, and only SIGKILL ends the process (main_paper.py: the
\* handler runs notify_stop in the signal's frame).
StopHangs ==
    [][frame = "handler" /\ mutex = "tick"
           => Alive' /\ UNCHANGED <<frame, mutex, queue>>]_queueVars

\* The premise of StopCompletes is therefore needed, for a queue of any size.
THEOREM StopsInTheQueueHang == QueueSpec => StopHangs
<1>1. QueueInv /\ StuckInv /\ [QueueNext]_queueVars
      => [frame = "handler" /\ mutex = "tick"
              => Alive' /\ UNCHANGED <<frame, mutex, queue>>]_queueVars
  BY StuckStep DEF QueueInv
<1> QED BY <1>1, AlarmInvariance, PTL DEF QueueSpec, StopHangs
============================================================================
