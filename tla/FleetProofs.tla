----------------------------- MODULE FleetProofs -----------------------------
(***************************************************************************)
(* Proofs about Fleet, for any slugs, clients, cap and generations: the    *)
(* quota's real bound, and that the bots a user sees are the bots there    *)
(* are.                                                                    *)
(***************************************************************************)
EXTENDS Fleet, FiniteSetTheorems, FunctionTheorems, TLAPS

Requests ==
    [kind : {"none", "create"}, slug : {None}]
        \cup [kind : {"duplicate", "import", "update"}, slug : Slugs]

\* Every variable holds what its declaration says.
TypeOK ==
    /\ yaml \in [Slugs -> Nat] /\ made \in [Slugs -> Nat]
    /\ listed \in SUBSET Slugs /\ due \in BOOLEAN
    /\ users \in [known : BOOLEAN, fresh : BOOLEAN, fails : Nat]
    /\ req \in [Clients -> Requests]
    /\ erasing \in Slugs \cup {None}
    /\ engine \in [Slugs -> [pc : {"none", "boot", "pid", "load", "serve"},
                             runs : Nat, owns : Nat]]
    /\ pid \in SUBSET Slugs
    /\ saved \in [Slugs -> Nat] /\ orphan \in [Slugs -> Nat]
    /\ blind \in BOOLEAN /\ slipped \in SUBSET Slugs /\ partial \in SUBSET Slugs

\* A subprocess that has got as far as its config is the one its pid file and
\* its config name, and a delete that has passed its running check finds no
\* subprocess: unless it has overtaken a boot.
Named(s) ==
    /\ engine[s].pc \in {"pid", "load", "serve"} => s \in pid
    /\ erasing = s => engine[s].pc = "none"
    /\ engine[s].pc \in {"load", "serve"} =>
           yaml[s] = engine[s].runs /\ engine[s].runs # 0
    /\ orphan[s] = 0

\* What a state file holds is of the generation there is, and so is what an
\* engine serves on: unless a purge has failed.
Owned(s) ==
    /\ saved[s] \in {0, yaml[s]}
    /\ engine[s].pc = "serve" => engine[s].owns = engine[s].runs

EngineInv ==
    /\ \A s \in Slugs \ slipped : Named(s)
    /\ \A s \in Slugs \ (slipped \cup partial) : Owned(s)

\* The bots there are or that an update under way can bring back, and the
\* clients whose request may add another one.
Updating == {s \in Slugs : \E c \in Clients : req[c] = [kind |-> "update", slug |-> s]}
Coming == Bots \cup Updating
Adding == {c \in Clients : req[c].kind \in {"create", "duplicate", "import"}}

\* The quota is judged against a list that lacks no more bots than updates
\* that were under way when it was made: one for each client but the one that
\* made it.  What is under way is on top.
QuotaInv ==
    /\ IsFiniteSet(Coming) /\ IsFiniteSet(listed)
    /\ ~blind /\ ~due => Cardinality(Coming \ listed) <= Cardinality(Clients) - 1
    /\ ~blind => Cardinality(Coming) + Cardinality(Adding)
                     <= Cap + 2 * (Cardinality(Clients) - 1)

IInv == TypeOK /\ EngineInv /\ QuotaInv

-----------------------------------------------------------------------------
\* What the portal's handlers that take a body leave alone: the subprocesses
\* and their files, and the configs there are.
LEMMA IngestsFrame ==
    ASSUME TypeOK, NEW c \in Clients, Ingests(c)
    PROVE  /\ UNCHANGED <<erasing, processes, slipped, partial>>
           /\ \A s \in Slugs : yaml[s] # 0 => yaml'[s] = yaml[s]
<1> USE DEF TypeOK, Answered, Awaits, history, files, registry, Written, Born
<1>1. CASE CreateBegins(c)
  BY <1>1 DEF CreateBegins
<1>2. CASE Imported(c) \/ Updated(c)
  BY <1>2 DEF Imported, Updated, Has, Loop
<1>3. CASE BadBody(c)
  BY <1>3 DEF BadBody
<1>4. ASSUME NEW s \in Slugs, Created(c, s) \/ Duplicated(c, s)
      PROVE  /\ UNCHANGED <<erasing, processes, slipped, partial>>
             /\ \A t \in Slugs : yaml[t] # 0 => yaml'[t] = yaml[t]
  BY <1>4 DEF Created, Duplicated
<1>5. ASSUME NEW s \in Slugs,
             DuplicateBegins(c, s) \/ ImportBegins(c, s) \/ UpdateBegins(c, s)
      PROVE  /\ UNCHANGED <<erasing, processes, slipped, partial>>
             /\ \A t \in Slugs : yaml[t] # 0 => yaml'[t] = yaml[t]
  BY <1>5 DEF DuplicateBegins, ImportBegins, UpdateBegins
<1> QED BY <1>1, <1>2, <1>3, <1>4, <1>5 DEF Ingests

\* Refresh keeps the registry's types, and lists what there is unless it has
\* lost the users.
LEMMA Refreshed ==
    ASSUME TypeOK, Refresh
    PROVE  /\ listed' \in SUBSET Slugs /\ due' \in BOOLEAN /\ blind' \in BOOLEAN
           /\ users' \in [known : BOOLEAN, fresh : BOOLEAN, fails : Nat]
           /\ ~due' /\ (~blind' => ~blind)
           /\ due /\ ~blind' => listed' = Bots
           /\ ~due => UNCHANGED <<registry, blind>>
<1>1. CASE ~due /\ UNCHANGED <<registry, blind>>
  BY <1>1 DEF TypeOK, registry
<1>2. CASE due /\ \E up \in BOOLEAN :
               /\ due' = FALSE /\ users' = Scan(up)
               /\ listed' = Found(users')
               /\ blind' = (blind \/ ~Trusted(users'))
  <2>1. users' \in [known : BOOLEAN, fresh : BOOLEAN, fails : Nat]
    BY <1>2 DEF TypeOK, Scan
  <2>2. Trusted(users') \in BOOLEAN
    BY <2>1 DEF Trusted
  <2>3. blind' \in BOOLEAN /\ (~blind' => ~blind /\ Trusted(users'))
    BY <1>2, <2>2, Zenon DEF TypeOK
  <2>4. listed' \in SUBSET Slugs /\ (Trusted(users') => listed' = Bots)
    BY <1>2 DEF Found, Bots
  <2> QED BY <1>2, <2>1, <2>3, <2>4
<1> QED BY <1>1, <1>2 DEF Refresh

-----------------------------------------------------------------------------
\* Types.

\* Every step keeps the types.
LEMMA TypeStep == TypeOK /\ [Next]_vars => TypeOK'
<1> SUFFICES ASSUME TypeOK, [Next]_vars PROVE TypeOK'
  OBVIOUS
<1> USE ConstantsAssumption
<1>1. CASE Expires
  BY <1>1 DEF TypeOK, Expires, files, processes, history
<1>2. CASE DeleteEnds
  <2>1. erasing \in Slugs
    BY <1>2 DEF DeleteEnds, Loop, TypeOK
  <2>2. Purged(erasing) /\ pid' \in SUBSET Slugs /\ saved' \in [Slugs -> Nat]
        /\ partial' \in SUBSET Slugs
    BY <1>2, <2>1 DEF DeleteEnds, Purged, TypeOK
  <2>3. /\ orphan' \in [Slugs -> Nat]
        /\ engine' \in [Slugs -> [pc : {"none", "boot", "pid", "load", "serve"},
                                  runs : Nat, owns : Nat]]
    BY <1>2, <2>1 DEF DeleteEnds, NoEngine, TypeOK
  <2>4. /\ yaml' = [yaml EXCEPT ![erasing] = 0] /\ due' = TRUE /\ erasing' = None
        /\ UNCHANGED <<listed, users, made, req, blind, slipped>>
    BY <1>2 DEF DeleteEnds, Invalidate
  <2> QED BY <2>1, <2>2, <2>3, <2>4 DEF TypeOK
<1>3. ASSUME NEW c \in Clients, Ingests(c)
      PROVE  TypeOK'
  <2> USE DEF Awaits, Answered, Requests, NoRequest, history, files, registry
  <2>1. UNCHANGED <<erasing, processes, slipped, partial>>
    BY <1>3, IngestsFrame
  <2>2. ASSUME yaml' \in [Slugs -> Nat], made' \in [Slugs -> Nat],
               req' \in [Clients -> Requests], blind' \in BOOLEAN,
               listed' \in SUBSET Slugs, due' \in BOOLEAN,
               users' \in [known : BOOLEAN, fresh : BOOLEAN, fails : Nat]
        PROVE  TypeOK'
    BY <2>1, <2>2 DEF TypeOK, processes
  <2>3. CASE Refresh /\ UNCHANGED files
             /\ \E r \in Requests : req' = [req EXCEPT ![c] = r]
    BY <2>2, <2>3, Refreshed DEF TypeOK
  <2>4. CASE /\ UNCHANGED <<listed, users, blind>> /\ due' \in {due, TRUE}
             /\ req' = [req EXCEPT ![c] = NoRequest]
             /\ \/ UNCHANGED files
                \/ \E s \in Slugs : Born(s)
    <3>1. yaml' \in [Slugs -> Nat] /\ made' \in [Slugs -> Nat]
      BY <2>4 DEF TypeOK, Born
    <3>2. NoRequest \in Requests /\ due' \in BOOLEAN
      BY <2>4 DEF TypeOK
    <3>3. req' \in [Clients -> Requests]
      BY <2>4, <3>2, Zenon DEF TypeOK
    <3> QED BY <2>2, <2>4, <3>1, <3>2, <3>3 DEF TypeOK
  <2>5. CASE /\ UNCHANGED <<files, registry, blind>>
             /\ \E r \in Requests : req' = [req EXCEPT ![c] = r]
    BY <2>2, <2>5 DEF TypeOK
  <2>6. CASE CreateBegins(c)
    BY <2>3, <2>6 DEF CreateBegins, UnderQuota
  <2>7. CASE \E s \in Slugs : DuplicateBegins(c, s) \/ ImportBegins(c, s)
    BY <2>3, <2>7 DEF DuplicateBegins, ImportBegins, UnderQuota
  <2>8. CASE \E s \in Slugs : UpdateBegins(c, s)
    BY <2>5, <2>8 DEF UpdateBegins
  <2>9. CASE BadBody(c)
    BY <2>4, <2>9 DEF BadBody
  <2>10. CASE Imported(c) \/ Updated(c)
    <3>1. req[c].slug \in Slugs
      BY <2>10 DEF Imported, Updated, Has, TypeOK
    <3> QED BY <2>4, <2>10, <3>1 DEF Imported, Updated, Written, Invalidate
  <2>11. CASE \E s \in Slugs : Created(c, s) \/ Duplicated(c, s)
    BY <2>4, <2>11 DEF Created, Duplicated, Invalidate
  <2> QED BY <1>3, <2>6, <2>7, <2>8, <2>9, <2>10, <2>11 DEF Ingests
<1>4. ASSUME NEW c \in Clients, NEW s \in Slugs, DeleteBegins(c, s)
      PROVE  TypeOK'
  BY <1>4, Refreshed DEF DeleteBegins, TypeOK, files, processes
<1>5. ASSUME NEW c \in Clients, NEW s \in Slugs, Spawns(c, s)
      PROVE  TypeOK'
  BY <1>5, Refreshed DEF Spawns, Steps, TypeOK, files
<1>6. ASSUME NEW s \in Slugs, Child(s)
      PROVE  TypeOK'
  <2>1. UNCHANGED <<files, registry, req, erasing, history>>
    BY <1>6 DEF Child
  <2>2. /\ engine' \in [Slugs -> [pc : {"none", "boot", "pid", "load", "serve"},
                                  runs : Nat, owns : Nat]]
        /\ pid' \in SUBSET Slugs
        /\ saved' \in [Slugs -> Nat] /\ orphan' \in [Slugs -> Nat]
    <3> USE DEF TypeOK
    <3>1. CASE WritesPid(s)
      BY <3>1 DEF WritesPid, Steps
    <3>2. CASE Refuses(s)
      BY <3>2 DEF Refuses, NoEngine
    <3>3. CASE LoadsConfig(s)
      BY <3>3 DEF LoadsConfig
    <3>4. CASE LoadsState(s)
      BY <3>4 DEF LoadsState
    <3>5. CASE Saves(s)
      BY <3>5 DEF Saves
    <3>6. CASE Ends(s)
      BY <3>6 DEF Ends, NoEngine
    <3> QED BY <1>6, <3>1, <3>2, <3>3, <3>4, <3>5, <3>6 DEF Child
  <2> QED BY <2>1, <2>2 DEF TypeOK, files, registry, history
<1>7. CASE UNCHANGED vars
  BY <1>7 DEF TypeOK, vars, files, registry, processes, history
<1> QED BY <1>1, <1>2, <1>3, <1>4, <1>5, <1>6, <1>7 DEF Next, Start, StartDryRun

-----------------------------------------------------------------------------
\* The engines.

\* Every step keeps engines named and owned.
LEMMA EngineStep == TypeOK /\ EngineInv /\ [Next]_vars => EngineInv'
<1> SUFFICES ASSUME TypeOK, EngineInv, [Next]_vars PROVE EngineInv'
  OBVIOUS
<1> USE ConstantsAssumption DEF EngineInv
<1>1. CASE Expires
  BY <1>1 DEF Named, Owned, Expires, files, processes, history
<1>2. CASE DeleteEnds
  <2>0. PICK e \in Slugs : e = erasing
    BY <1>2 DEF DeleteEnds, Loop, TypeOK
  <2>1. /\ erasing' = None /\ yaml' = [yaml EXCEPT ![e] = 0]
        /\ pid' = pid \ {e} /\ slipped' = slipped /\ partial \subseteq partial'
    BY <1>2, <2>0 DEF DeleteEnds, Purged
  <2>2. ASSUME NEW s \in Slugs, s # e
        PROVE  (Named(s) => Named(s)') /\ (Owned(s) => Owned(s)')
               /\ (s \in partial' <=> s \in partial)
    BY <1>2, <2>0, <2>1, <2>2 DEF DeleteEnds, Purged, Named, Owned, TypeOK
  <2>3. e \notin slipped => Named(e)'
    BY <1>2, <2>0, <2>1 DEF DeleteEnds, Named, TypeOK
  <2>4. e \notin slipped \cup partial' => Owned(e)'
    BY <1>2, <2>0, <2>1, <2>3 DEF DeleteEnds, Purged, Named, Owned, TypeOK
  <2> QED BY <2>0, <2>1, <2>2, <2>3, <2>4
<1>3. ASSUME NEW c \in Clients, Ingests(c)
      PROVE  EngineInv'
  <2>1. /\ UNCHANGED <<erasing, processes, slipped, partial>>
        /\ \A s \in Slugs : yaml[s] # 0 => yaml'[s] = yaml[s]
    BY <1>3, IngestsFrame
  <2> QED BY <2>1 DEF Named, Owned, TypeOK, processes
<1>4. ASSUME NEW c \in Clients, NEW s \in Slugs, DeleteBegins(c, s)
      PROVE  EngineInv'
  BY <1>4 DEF DeleteBegins, Deletable, Running, Idle, Loop, Named, Owned, TypeOK,
              files, processes
<1>5. ASSUME NEW c \in Clients, NEW s \in Slugs, Spawns(c, s)
      PROVE  EngineInv'
  BY <1>5 DEF Spawns, Steps, Idle, Loop, Named, Owned, TypeOK, files
<1>6. ASSUME NEW s \in Slugs, Child(s)
      PROVE  EngineInv'
  <2>1. UNCHANGED <<yaml, erasing, slipped, partial>>
    BY <1>6 DEF Child, files, history
  <2>2. ASSUME NEW t \in Slugs, t # s
        PROVE  (Named(t) => Named(t)') /\ (Owned(t) => Owned(t)')
    BY <1>6, <2>1, <2>2 DEF Child, WritesPid, Refuses, LoadsConfig, LoadsState, Saves,
         Ends, Steps, Named, Owned, TypeOK
  <2>3. Named(s) => Named(s)'
    BY <1>6, <2>1 DEF Child, WritesPid, Refuses, LoadsConfig, LoadsState, Saves, Ends,
         Steps, NoEngine, Named, TypeOK
  <2>4. Named(s) /\ Owned(s) => Owned(s)'
    BY <1>6, <2>1 DEF Child, WritesPid, Refuses, LoadsConfig, LoadsState, Saves, Ends,
         Steps, NoEngine, Named, Owned, TypeOK
  <2> QED BY <2>1, <2>2, <2>3, <2>4
<1>7. CASE UNCHANGED vars
  BY <1>7 DEF Named, Owned, vars, files, processes, history
<1> QED BY <1>1, <1>2, <1>3, <1>4, <1>5, <1>6, <1>7 DEF Next, Start, StartDryRun

-----------------------------------------------------------------------------
\* The quota.

\* The clients that update configs are not the one that is idle, and each
\* updates one.
LEMMA FewUpdates ==
    ASSUME TypeOK, NEW c \in Clients, req[c] = NoRequest
    PROVE  IsFiniteSet(Updating) /\ Cardinality(Updating) <= Cardinality(Clients) - 1
<1> DEFINE U == {d \in Clients \ {c} : req[d].kind = "update"}
           f == [d \in U |-> req[d].slug]
<1>1. /\ IsFiniteSet(Clients \ {c})
      /\ Cardinality(Clients \ {c}) = Cardinality(Clients) - 1
  BY FS_RemoveElement, ConstantsAssumption
<1>2. IsFiniteSet(U) /\ Cardinality(U) <= Cardinality(Clients \ {c})
  BY <1>1, FS_Subset
<1>3. f \in [U -> Updating]
  <2>1. ASSUME NEW d \in U PROVE req[d].slug \in Updating
    BY DEF TypeOK, Requests, Updating
  <2> QED BY <2>1
<1>4. \A s \in Updating : \E d \in U : f[d] = s
  <2>1. ASSUME NEW s \in Updating PROVE \E d \in U : f[d] = s
    <3>1. PICK d \in Clients : req[d] = [kind |-> "update", slug |-> s]
      BY DEF Updating
    <3>2. d # c
      BY <3>1 DEF NoRequest
    <3>3. d \in U /\ f[d] = s
      BY <3>1, <3>2
    <3> QED BY <3>3
  <2> QED BY <2>1
<1> HIDE DEF U, f
<1>5. f \in Surjection(U, Updating)
  BY <1>3, <1>4, Fun_IsSurj
<1>6. IsFiniteSet(Updating) /\ Cardinality(Updating) <= Cardinality(U)
  BY <1>2, <1>5, FS_Surjection
<1>7. /\ Cardinality(Updating) \in Nat /\ Cardinality(U) \in Nat
      /\ Cardinality(Clients) \in Nat
  BY <1>2, <1>6, FS_CardinalityType, ConstantsAssumption
<1> QED BY <1>1, <1>2, <1>6, <1>7

\* Sizes are numbers.
LEMMA Sizes ==
    ASSUME QuotaInv
    PROVE  /\ Cardinality(Clients) \in Nat \ {0}
           /\ IsFiniteSet(Adding) /\ Cardinality(Adding) \in Nat
           /\ Cardinality(Adding) <= Cardinality(Clients)
           /\ Cardinality(Coming) \in Nat
           /\ IsFiniteSet(Coming \ listed) /\ Cardinality(Coming \ listed) \in Nat
           /\ Cap \in Nat
<1>1. IsFiniteSet(Clients) /\ Cardinality(Clients) \in Nat \ {0}
  BY FS_EmptySet, FS_CardinalityType, ConstantsAssumption
<1>2. IsFiniteSet(Adding) /\ Cardinality(Adding) <= Cardinality(Clients)
  BY <1>1, FS_Subset DEF Adding
<1>3. IsFiniteSet(Coming \ listed)
  BY FS_Difference DEF QuotaInv
<1> QED BY <1>1, <1>2, <1>3, FS_CardinalityType, ConstantsAssumption DEF QuotaInv

\* Steps that bring no bot and no request.
LEMMA Shrinks ==
    ASSUME QuotaInv, Coming' \subseteq Coming, Adding' \subseteq Adding,
           blind' = blind, listed' = listed, (due' \/ due' = due)
    PROVE  QuotaInv'
<1>1. /\ IsFiniteSet(Coming') /\ Cardinality(Coming') <= Cardinality(Coming)
      /\ Cardinality(Coming') \in Nat
  BY FS_Subset, FS_CardinalityType DEF QuotaInv
<1>2. /\ Cardinality(Adding') <= Cardinality(Adding) /\ Cardinality(Adding') \in Nat
  BY Sizes, FS_Subset, FS_CardinalityType
<1>3. /\ Cardinality(Coming' \ listed) <= Cardinality(Coming \ listed)
      /\ Cardinality(Coming' \ listed) \in Nat
  BY Sizes, FS_Subset, FS_CardinalityType, Coming' \ listed \subseteq Coming \ listed
<1> QED BY <1>1, <1>2, <1>3, Sizes, ConstantsAssumption DEF QuotaInv

\* Requests that are answered with a new bot.
LEMMA Adds ==
    ASSUME QuotaInv, NEW s, Coming' \subseteq Coming \cup {s},
           NEW c \in Adding, Adding' = Adding \ {c},
           blind' = blind, listed' = listed, due'
    PROVE  QuotaInv'
<1>1. /\ IsFiniteSet(Coming \cup {s})
      /\ Cardinality(Coming \cup {s}) <= Cardinality(Coming) + 1
      /\ Cardinality(Coming \cup {s}) \in Nat
  <2>1. IsFiniteSet(Coming) /\ Cardinality(Coming) \in Nat
    BY Sizes DEF QuotaInv
  <2>2. /\ IsFiniteSet(Coming \cup {s})
        /\ Cardinality(Coming \cup {s}) =
               IF s \in Coming THEN Cardinality(Coming) ELSE Cardinality(Coming) + 1
    BY <2>1, FS_AddElement
  <2> QED BY <2>1, <2>2
<1>2. /\ IsFiniteSet(Coming') /\ Cardinality(Coming') <= Cardinality(Coming \cup {s})
      /\ Cardinality(Coming') \in Nat
  BY <1>1, FS_Subset, FS_CardinalityType
<1>3. Cardinality(Adding') = Cardinality(Adding) - 1
  BY Sizes, FS_RemoveElement
<1> QED BY <1>1, <1>2, <1>3, Sizes DEF QuotaInv

\* The registry is read by an idle client, which may then have a request that
\* passes the quota.
LEMMA Judges ==
    ASSUME TypeOK, QuotaInv, Refresh, NEW c \in Clients, req[c] = NoRequest,
           Coming' = Coming, Bots' = Bots,
           (Adding' = Adding \/ Cardinality(listed') < Cap)
    PROVE  QuotaInv'
<1>1. IsFiniteSet(Bots) /\ Bots \subseteq Coming /\ IsFiniteSet(listed')
  <2>1. IsFiniteSet(Bots) /\ Bots \subseteq Coming
    BY FS_Subset DEF QuotaInv, Coming
  <2>2. listed' \in {listed, Bots, {}}
    BY DEF Refresh, Found, registry
  <2> QED BY <2>1, <2>2, FS_EmptySet DEF QuotaInv
<1>2. ASSUME ~blind'
      PROVE  Cardinality(Coming \ listed') <= Cardinality(Clients) - 1
  <2>1. CASE ~due
    BY <1>2, <2>1, Refreshed DEF QuotaInv, registry
  <2>2. CASE due
    <3>1. Coming \ listed' \subseteq Updating
      BY <1>2, <2>2, Refreshed DEF Coming
    <3>2. IsFiniteSet(Updating) /\ Cardinality(Updating) <= Cardinality(Clients) - 1
      BY FewUpdates
    <3>3. /\ Cardinality(Coming \ listed') <= Cardinality(Updating)
          /\ Cardinality(Coming \ listed') \in Nat
      BY <3>1, <3>2, FS_Subset, FS_CardinalityType
    <3>4. Cardinality(Updating) \in Nat
      BY <3>2, FS_CardinalityType
    <3> QED BY <3>2, <3>3, <3>4, Sizes
  <2> QED BY <2>1, <2>2
<1>3. ASSUME ~blind'
      PROVE  Cardinality(Coming') + Cardinality(Adding')
                 <= Cap + 2 * (Cardinality(Clients) - 1)
  <2>1. CASE Adding' = Adding
    BY <1>3, <2>1, Refreshed DEF QuotaInv
  <2>2. CASE Cardinality(listed') < Cap
    <3> DEFINE M == Coming \ listed'
    <3>1. /\ IsFiniteSet(M) /\ Cardinality(M) \in Nat
          /\ Cardinality(M) <= Cardinality(Clients) - 1
      BY <1>2, <1>3, FS_Difference, FS_CardinalityType DEF QuotaInv
    <3>2. Cardinality(listed') \in Nat
      BY <1>1, FS_CardinalityType
    <3>3. /\ IsFiniteSet(listed' \cup M)
          /\ Cardinality(listed' \cup M) =
                 Cardinality(listed') + Cardinality(M) - Cardinality(listed' \cap M)
          /\ Cardinality(listed' \cap M) = 0
      BY <1>1, <3>1, FS_Union, FS_EmptySet, listed' \cap M = {}
    <3>4. Cardinality(Coming) <= Cardinality(listed' \cup M)
      BY <3>3, FS_Subset, Coming \subseteq listed' \cup M
    <3>5. IsFiniteSet(Adding') /\ Cardinality(Adding') <= Cardinality(Clients)
      BY ConstantsAssumption, FS_Subset DEF Adding
    <3>6. Cardinality(Adding') \in Nat
      BY <3>5, FS_CardinalityType
    <3> HIDE DEF M
    <3> QED BY <2>2, <3>1, <3>2, <3>3, <3>4, <3>5, <3>6, Sizes
  <2> QED BY <2>1, <2>2
<1> QED BY <1>1, <1>2, <1>3 DEF QuotaInv

\* Every step keeps what the list may still lack within its bound.
LEMMA QuotaStep == TypeOK /\ QuotaInv /\ [Next]_vars => QuotaInv'
<1> SUFFICES ASSUME TypeOK, QuotaInv, [Next]_vars PROVE QuotaInv'
  OBVIOUS
<1> USE ConstantsAssumption
<1>1. ASSUME UNCHANGED <<yaml, req, blind, listed>>, due' \/ due' = due
      PROVE  QuotaInv'
  BY <1>1, Shrinks DEF Coming, Bots, Updating, Adding
<1>2. CASE Expires
  BY <1>1, <1>2 DEF Expires, files, history
<1>3. CASE DeleteEnds
  <2>1. Coming' \subseteq Coming
    BY <1>3 DEF DeleteEnds, Coming, Bots, Updating, TypeOK
  <2> QED BY <1>3, <2>1, Shrinks DEF DeleteEnds, Invalidate, Adding
<1>4. ASSUME NEW c \in Clients, Refresh, Idle(c), UNCHANGED files,
             \/ req' = req
             \/ /\ Cardinality(listed') < Cap
                /\ \E kind \in {"create", "duplicate", "import"}, s \in Slugs \cup {None} :
                       req' = [req EXCEPT ![c] = [kind |-> kind, slug |-> s]]
      PROVE  QuotaInv'
  <2>1. req[c] = NoRequest
    BY <1>4 DEF Idle
  <2>2. Updating' = Updating
    BY <1>4, <2>1 DEF Updating, NoRequest, TypeOK
  <2>3. Bots' = Bots /\ Coming' = Coming
    BY <1>4, <2>2 DEF Bots, Coming, files
  <2>4. Adding' = Adding \/ Cardinality(listed') < Cap
    BY <1>4 DEF Adding
  <2> QED BY <1>4, <2>1, <2>3, <2>4, Judges
<1>5. ASSUME NEW c \in Clients, UNCHANGED <<yaml, blind, registry>>,
             \/ req' = [req EXCEPT ![c] = NoRequest]
             \/ \E s \in Bots : req' = [req EXCEPT ![c] = [kind |-> "update", slug |-> s]]
      PROVE  QuotaInv'
  <2>1. Coming' \subseteq Coming
    BY <1>5 DEF Coming, Bots, Updating, NoRequest, TypeOK
  <2>2. Adding' \subseteq Adding
    BY <1>5 DEF Adding, NoRequest, TypeOK
  <2> QED BY <1>5, <2>1, <2>2, Shrinks DEF registry
<1>6. ASSUME NEW c \in Adding, NEW s \in Slugs, Born(s), UNCHANGED blind,
             Invalidate, req' = [req EXCEPT ![c] = NoRequest]
      PROVE  QuotaInv'
  <2>1. Coming' \subseteq Coming \cup {s}
    BY <1>6 DEF Coming, Bots, Updating, Born, NoRequest, Adding, TypeOK
  <2>2. Adding' = Adding \ {c}
    BY <1>6 DEF Adding, NoRequest, TypeOK
  <2> QED BY <1>6, <2>1, <2>2, Adds DEF Invalidate
<1>7. ASSUME NEW c \in Clients, Ingests(c)
      PROVE  QuotaInv'
  <2>1. CASE CreateBegins(c)
    BY <1>4, <2>1 DEF CreateBegins, UnderQuota, Awaits
  <2>2. CASE \E s \in Slugs : DuplicateBegins(c, s) \/ ImportBegins(c, s)
    BY <1>4, <2>2 DEF DuplicateBegins, ImportBegins, UnderQuota, Awaits
  <2>3. CASE \E s \in Slugs : UpdateBegins(c, s)
    BY <1>5, <2>3 DEF UpdateBegins, Awaits, Bots, files
  <2>4. CASE BadBody(c)
    BY <1>5, <2>4 DEF BadBody, Answered, history, files
  <2>5. CASE \E s \in Slugs : Created(c, s) \/ Duplicated(c, s)
    <3>1. PICK s \in Slugs : Created(c, s) \/ Duplicated(c, s)
      BY <2>5
    <3>2. c \in Adding /\ blind' = blind /\ req' = [req EXCEPT ![c] = NoRequest]
      BY <3>1 DEF Created, Duplicated, Has, Answered, history, Adding
    <3>3. \/ UNCHANGED <<files, registry>>
          \/ Born(s) /\ Invalidate
      BY <3>1 DEF Created, Duplicated
    <3> QED BY <1>5, <1>6, <3>2, <3>3 DEF files
  <2>6. CASE Imported(c)
    <3>1. /\ c \in Adding /\ blind' = blind /\ req' = [req EXCEPT ![c] = NoRequest]
          /\ req[c].slug \in Slugs
      BY <2>6 DEF Imported, Has, Answered, history, Adding, TypeOK, Requests
    <3>2. CASE Born(req[c].slug)
      BY <1>6, <2>6, <3>1, <3>2 DEF Imported
    <3>3. CASE UNCHANGED files
      <4>1. Coming' \subseteq Coming
        BY <3>1, <3>3 DEF Coming, Bots, Updating, NoRequest, files, TypeOK
      <4>2. Adding' \subseteq Adding
        BY <3>1 DEF Adding, NoRequest, TypeOK
      <4> QED BY <2>6, <3>1, <4>1, <4>2, Shrinks DEF Imported, Invalidate
    <3> QED BY <2>6, <3>2, <3>3 DEF Imported, Written
  <2>7. CASE Updated(c)
    <3> DEFINE s == req[c].slug
    <3>1. /\ s \in Slugs /\ s \in Updating
          /\ req' = [req EXCEPT ![c] = NoRequest]
          /\ UNCHANGED <<blind, registry>>
      <4>1. req[c].kind = "update" /\ req[c] \in Requests
        BY <2>7 DEF Updated, Has, TypeOK
      <4>2. s \in Slugs /\ req[c] = [kind |-> "update", slug |-> s]
        BY <4>1 DEF Requests
      <4> QED BY <2>7, <4>2 DEF Updated, Answered, history, Updating
    <3>2. Bots' \subseteq Bots \cup {s}
      BY <2>7, <3>1 DEF Updated, Written, Born, Bots, files, TypeOK
    <3>3. Updating' \subseteq Updating
      BY <3>1 DEF Updating, NoRequest, TypeOK
    <3>4. Adding' \subseteq Adding
      BY <3>1 DEF Adding, NoRequest, TypeOK
    <3> HIDE DEF s
    <3>5. Coming' \subseteq Coming
      BY <3>1, <3>2, <3>3 DEF Coming
    <3> QED BY <3>1, <3>4, <3>5, Shrinks DEF registry
  <2> QED BY <1>7, <2>1, <2>2, <2>3, <2>4, <2>5, <2>6, <2>7 DEF Ingests
<1>8. ASSUME NEW c \in Clients, NEW s \in Slugs, DeleteBegins(c, s) \/ Spawns(c, s)
      PROVE  QuotaInv'
  BY <1>4, <1>8 DEF DeleteBegins, Spawns
<1>9. ASSUME NEW s \in Slugs, Child(s)
      PROVE  QuotaInv'
  BY <1>1, <1>9 DEF Child, files, registry, history
<1>10. CASE UNCHANGED vars
  BY <1>1, <1>10 DEF vars, files, registry, history
<1> QED BY <1>2, <1>3, <1>7, <1>8, <1>9, <1>10 DEF Next, Start, StartDryRun

-----------------------------------------------------------------------------
\* The invariant holds at the start and in every behaviour.
LEMMA Invariance == Spec => []IInv
<1>1. Init => IInv
  <2> SUFFICES ASSUME Init PROVE IInv
    OBVIOUS
  <2>1. TypeOK
    BY ConstantsAssumption DEF Init, TypeOK, Requests, NoRequest, NoEngine
  <2>2. EngineInv
    BY ConstantsAssumption DEF Init, EngineInv, Named, Owned, NoEngine
  <2>3. Coming = {} /\ Adding = {} /\ listed = {}
    BY DEF Init, Coming, Bots, Updating, Adding, NoRequest
  <2>4. /\ IsFiniteSet(Coming) /\ IsFiniteSet(listed) /\ IsFiniteSet(Coming \ listed)
        /\ Cardinality(Coming) = 0 /\ Cardinality(Adding) = 0
        /\ Cardinality(Coming \ listed) = 0
    BY <2>3, FS_EmptySet
  <2>5. Cardinality(Clients) \in Nat \ {0}
    BY FS_EmptySet, FS_CardinalityType, ConstantsAssumption
  <2>6. QuotaInv
    BY <2>4, <2>5, ConstantsAssumption DEF QuotaInv
  <2> QED BY <2>1, <2>2, <2>6 DEF IInv
<1>2. IInv /\ [Next]_vars => IInv'
  BY TypeStep, EngineStep, QuotaStep DEF IInv
<1> QED BY <1>1, <1>2, PTL DEF Spec

\* While the registry has never been emptied by database failures, the user
\* has at most the cap's number of bots and two for each client but one
\* (_enforce_bot_quota before the body is awaited; an update that ends after
\* the delete of its bot), for any cap and any number of clients.
THEOREM QuotaIsBounded == Spec => []QuotaHolds
<1>1. IInv => QuotaHolds
  <2> SUFFICES ASSUME IInv, ~blind
      PROVE  Cardinality(Bots) <= Cap + 2 * (Cardinality(Clients) - 1)
    BY DEF QuotaHolds
  <2>1. /\ IsFiniteSet(Bots) /\ Cardinality(Bots) <= Cardinality(Coming)
        /\ Cardinality(Bots) \in Nat
    BY FS_Subset, FS_CardinalityType, Bots \subseteq Coming DEF IInv, QuotaInv, Coming
  <2> QED BY <2>1, Sizes DEF IInv, QuotaInv
<1> QED BY <1>1, Invariance, PTL

\* An engine serves on the balance and the deals of its own bot, never on
\* those of a deleted one of the same slug (purge_bot), unless a file could
\* not be removed or the delete overtook a booting subprocess.
THEOREM EnginesStartFresh == Spec => []StartsFresh
<1>1. IInv => StartsFresh
  BY DEF IInv, EngineInv, Owned, StartsFresh
<1> QED BY <1>1, Invariance, PTL

\* An engine that serves is the one its pid file and its config name, and
\* none runs without a pid file (delete_bot refuses a running bot), unless a
\* delete overtook its boot.
THEOREM EnginesAreNamed == Spec => []NoGhosts
<1>1. IInv => NoGhosts
  BY DEF IInv, EngineInv, Named, NoGhosts
<1> QED BY <1>1, Invariance, PTL
=============================================================================
