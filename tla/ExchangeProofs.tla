--------------------------- MODULE ExchangeProofs ---------------------------
(***************************************************************************)
(* Proofs about what the portal keeps of exchanges.  About Vault, for any  *)
(* accounts, rotations and keys: the orders of the writes of               *)
(* create_account, delete_account and rotate_user_key.  About Charts, for  *)
(* any threads, thresholds, lifetimes, pages and bars: the breaker's       *)
(* latch, the order of what the caches serve, and what a page walk misses. *)
(***************************************************************************)
EXTENDS Vault, Charts, FiniteSetTheorems, WellFoundedInduction, TLAPS

Stage == {"idle", "load", "backup", "stage", "key", "blobs"}

\* Every variable holds what its declaration says.
TypeOK ==
    /\ keyfile \in Nat /\ prestore \in Nat /\ minted \in Nat
    /\ backups \in SUBSET (Nat \ {0})
    /\ enc \in [Accounts -> Nat] /\ staged \in [Accounts -> Nat]
    /\ stagedKey \in Nat
    /\ rows \in SUBSET Accounts
    /\ half = NoHandler \/ half \in [kind : {"create", "delete"}, account : Accounts]
    /\ rot \in [Rotators -> [pc : Stage, todo : SUBSET Accounts]]
    /\ raced \in SUBSET Accounts
    /\ overlapped \in BOOLEAN /\ overwritten \in BOOLEAN

\* The account between its two writes has no row; while it is being made it
\* has its file.
HalfInv ==
    half # NoHandler =>
        /\ half.account \notin rows
        /\ half.kind = "create" => enc[half.account] # 0

\* The blobs whose keys the rotation answers for.
Held == WithKeys \ raced

\* Without an overlap there is one rotation, and it found a key.
OneRotation ==
    /\ \A r \in Rotators : Rotating(r) => keyfile # 0
    /\ ~overlapped => \A r, s \in Rotators : Rotating(r) /\ Rotating(s) => r = s

\* How far a rotation is: until the key file is replaced every blob is under
\* the old key, which from the stage on has a backup; then each is under the
\* new key, or has its turn still to come.
OldKeyed(r) == \A a \in Held : a \in rot[r].todo /\ enc[a] = keyfile

Phase(r) ==
    /\ rot[r].pc \in {"backup", "stage", "key"} => OldKeyed(r)
    /\ rot[r].pc \in {"stage", "key"} => keyfile \in backups
    /\ rot[r].pc = "key" =>
           /\ stagedKey \in {0, minted}
           /\ \A a \in rot[r].todo : staged[a] \in {0, minted}
    /\ rot[r].pc = "blobs" =>
           /\ \A a \in rot[r].todo : staged[a] \in {0, keyfile}
           /\ \A a \in Held : \/ enc[a] = keyfile
                              \/ a \in rot[r].todo /\ enc[a] \in backups

PhaseInv == ~overlapped => \A r \in Rotators : Phase(r)

KeptInv == ~overlapped /\ ~overwritten => \A a \in Held : enc[a] \in Kept

IInv == TypeOK /\ RowsHaveBlobs /\ HalfInv /\ OneRotation /\ PhaseInv /\ KeptInv

-----------------------------------------------------------------------------
\* Every step keeps the types.
LEMMA TypeStep ==
    ASSUME TypeOK, OneRotation, [Next]_vars PROVE TypeOK'
<1> USE ConstantsAssumption DEF TypeOK, keys, blobs, portal, history
<1>1. CASE Portal
  <2>1. CASE InsertsRow
    BY <2>1 DEF InsertsRow, NoHandler
  <2>2. CASE DeletesBlob
    BY <2>2 DEF DeletesBlob, NoHandler
  <2>3. CASE SetsSeed
    <3>1. keyfile' \in Nat /\ prestore' \in Nat /\ minted' \in Nat /\ backups' = backups
      BY <2>3 DEF SetsSeed, UserKey
    <3> QED BY <2>3, <3>1 DEF SetsSeed
  <2>4. CASE PortalRestarts
    BY <2>4 DEF PortalRestarts
  <2>5. ASSUME NEW a \in Accounts, SavesBlob(a) PROVE TypeOK'
    <3>1. PICK k \in 1..MaxKeys : UserKey(k) /\ enc' = [enc EXCEPT ![a] = k]
      BY <2>5 DEF SavesBlob
    <3>2. keyfile' \in Nat /\ prestore' \in Nat /\ minted' \in Nat /\ backups' = backups
      BY <3>1 DEF UserKey
    <3>3. enc' \in [Accounts -> Nat]
      BY <3>1
    <3>4. half' \in [kind : {"create", "delete"}, account : Accounts]
      BY <2>5 DEF SavesBlob
    <3>5. raced' \in SUBSET Accounts
      BY <2>5 DEF SavesBlob
    <3> QED BY <2>5, <3>2, <3>3, <3>4, <3>5 DEF SavesBlob
  <2>6. ASSUME NEW a \in Accounts, DeletesRow(a) PROVE TypeOK'
    BY <2>6 DEF DeletesRow
  <2> QED BY <1>1, <2>1, <2>2, <2>3, <2>4, <2>5, <2>6 DEF Portal
<1>2. ASSUME NEW r \in Rotators, Rotates(r) PROVE TypeOK'
  <2> USE DEF Stage, NoRotation, Goes, Releases
  <2>1. CASE RotationBegins(r)
    <3>1. rot' \in [Rotators -> [pc : Stage, todo : SUBSET Accounts]]
      BY <2>1 DEF RotationBegins
    <3>2. overlapped' \in BOOLEAN
      BY <2>1, Zenon DEF RotationBegins
    <3> QED BY <2>1, <3>1, <3>2 DEF RotationBegins
  <2>2. CASE Loads(r)
    BY <2>2 DEF Loads, WithKeys
  <2>3. CASE BacksUp(r)
    BY <2>3 DEF BacksUp, OneRotation, Rotating
  <2>4. CASE Stages(r)
    BY <2>4 DEF Stages
  <2>5. CASE ReplacesKey(r)
    BY <2>5 DEF ReplacesKey
  <2>6. CASE Sweeps(r)
    BY <2>6 DEF Sweeps
  <2>7. CASE RotationCrashes(r)
    BY <2>7 DEF RotationCrashes
  <2>8. ASSUME NEW a \in Accounts, ReplacesBlob(r, a) PROVE TypeOK'
    BY <2>8 DEF ReplacesBlob
  <2> QED BY <1>2, <2>1, <2>2, <2>3, <2>4, <2>5, <2>6, <2>7, <2>8 DEF Rotates
<1>3. ASSUME NEW b \in backups, Restores(b) PROVE TypeOK'
  BY <1>3 DEF Restores
<1>4. CASE UNCHANGED vars
  BY <1>4 DEF vars
<1> QED BY <1>1, <1>2, <1>3, <1>4 DEF Next

-----------------------------------------------------------------------------
\* Rows and files are written in opposite orders, and no file is emptied
\* but that of an account that has no row.
LEMMA RowsStep ==
    ASSUME TypeOK, RowsHaveBlobs, HalfInv, [Next]_vars
    PROVE  RowsHaveBlobs' /\ HalfInv'
<1> USE DEF RowsHaveBlobs, HalfInv, TypeOK, keys, blobs, portal, history
<1>1. CASE Portal
  <2>1. CASE InsertsRow
    BY <2>1 DEF InsertsRow, NoHandler
  <2>2. CASE DeletesBlob
    BY <2>2 DEF DeletesBlob, NoHandler
  <2>3. CASE SetsSeed
    BY <2>3 DEF SetsSeed
  <2>4. CASE PortalRestarts
    BY <2>4 DEF PortalRestarts
  <2>5. ASSUME NEW a \in Accounts, SavesBlob(a) PROVE RowsHaveBlobs' /\ HalfInv'
    BY <2>5, ConstantsAssumption DEF SavesBlob, Unused
  <2>6. ASSUME NEW a \in Accounts, DeletesRow(a) PROVE RowsHaveBlobs' /\ HalfInv'
    BY <2>6 DEF DeletesRow
  <2> QED BY <1>1, <2>1, <2>2, <2>3, <2>4, <2>5, <2>6 DEF Portal
<1>2. ASSUME NEW r \in Rotators, Rotates(r) PROVE RowsHaveBlobs' /\ HalfInv'
  <2>1. UNCHANGED <<rows, half>>
    BY <1>2 DEF Rotates, RotationBegins, Loads, BacksUp, Stages, ReplacesKey,
                Sweeps, RotationCrashes, ReplacesBlob
  <2>2. \A a \in Accounts : enc[a] # 0 => enc'[a] # 0
    <3>1. CASE enc' = enc
      BY <3>1
    <3>2. ASSUME NEW a \in Accounts, ReplacesBlob(r, a)
          PROVE  \A b \in Accounts : enc[b] # 0 => enc'[b] # 0
      BY <3>2 DEF ReplacesBlob
    <3> QED BY <1>2, <3>1, <3>2 DEF Rotates, RotationBegins, Loads, BacksUp,
                Stages, ReplacesKey, Sweeps, RotationCrashes
  <2> QED BY <2>1, <2>2
<1>3. ASSUME NEW b \in backups, Restores(b) PROVE RowsHaveBlobs' /\ HalfInv'
  BY <1>3 DEF Restores
<1>4. CASE UNCHANGED vars
  BY <1>4 DEF vars
<1> QED BY <1>1, <1>2, <1>3, <1>4 DEF Next

-----------------------------------------------------------------------------
\* There is a key from the first use on; it is never forgotten.
LEMMA KeyStays ==
    ASSUME TypeOK, [Next]_vars, keyfile # 0 PROVE keyfile' # 0
<1> USE DEF TypeOK, keys
<1>1. CASE Portal
  BY <1>1 DEF Portal, InsertsRow, DeletesBlob, SetsSeed, PortalRestarts,
              SavesBlob, DeletesRow, UserKey
<1>2. ASSUME NEW r \in Rotators, Rotates(r) PROVE keyfile' # 0
  BY <1>2 DEF Rotates, RotationBegins, Loads, BacksUp, Stages, ReplacesKey,
              Sweeps, RotationCrashes, ReplacesBlob
<1>3. ASSUME NEW b \in backups, Restores(b) PROVE keyfile' # 0
  BY <1>3 DEF Restores
<1>4. CASE UNCHANGED vars
  BY <1>4 DEF vars
<1> QED BY <1>1, <1>2, <1>3, <1>4 DEF Next

\* So is an overlap.
LEMMA OverlapStays ==
    ASSUME [Next]_vars, overlapped PROVE overlapped'
<1> USE DEF history
<1>1. CASE Portal
  BY <1>1 DEF Portal, InsertsRow, DeletesBlob, SetsSeed, PortalRestarts,
              SavesBlob, DeletesRow
<1>2. ASSUME NEW r \in Rotators, Rotates(r) PROVE overlapped'
  BY <1>2 DEF Rotates, RotationBegins, Loads, BacksUp, Stages, ReplacesKey,
              Sweeps, RotationCrashes, ReplacesBlob
<1>3. ASSUME NEW b \in backups, Restores(b) PROVE overlapped'
  BY <1>3 DEF Restores
<1>4. CASE UNCHANGED vars
  BY <1>4 DEF vars
<1> QED BY <1>1, <1>2, <1>3, <1>4 DEF Next

\* A rotation's step leaves the others' records alone, and only its begin
\* sets an idle one going.
LEMMA OthersStand ==
    ASSUME TypeOK, NEW r \in Rotators, Rotates(r)
    PROVE  /\ \A s \in Rotators \ {r} : rot'[s] = rot[s]
           /\ ~Rotating(r) => RotationBegins(r)
  BY DEF TypeOK, Rotates, RotationBegins, Loads, BacksUp, Stages, ReplacesKey,
         Sweeps, RotationCrashes, ReplacesBlob, Rotating, Goes, Releases,
         Completes

\* Nothing else touches them.
LEMMA RotStands ==
    ASSUME [Next]_vars PROVE rot' = rot \/ \E r \in Rotators : Rotates(r)
  BY DEF Next, Portal, InsertsRow, DeletesBlob, SetsSeed, PortalRestarts,
         SavesBlob, DeletesRow, Restores, vars

\* A second rotation is an overlap, and a rotation has found a key.
LEMMA OneStep ==
    ASSUME TypeOK, OneRotation, [Next]_vars PROVE OneRotation'
<1>1. \A r \in Rotators : rot'[r].pc # "idle" => keyfile' # 0
  <2>1. SUFFICES ASSUME NEW r \in Rotators, rot'[r].pc # "idle"
                 PROVE  keyfile # 0
    BY KeyStays
  <2>2. CASE rot' = rot
    BY <2>1, <2>2 DEF OneRotation, Rotating
  <2>3. ASSUME NEW q \in Rotators, Rotates(q) PROVE keyfile # 0
    <3>1. CASE Rotating(q)
      BY <3>1 DEF OneRotation
    <3>2. CASE RotationBegins(q)
      BY <3>2 DEF RotationBegins
    <3> QED BY <2>3, <3>1, <3>2, OthersStand
  <2> QED BY <2>2, <2>3, RotStands
<1>2. ASSUME ~overlapped', NEW r \in Rotators, NEW s \in Rotators,
             rot'[r].pc # "idle", rot'[s].pc # "idle"
      PROVE  r = s
  <2>1. ~overlapped
    BY <1>2, OverlapStays
  <2>2. CASE rot' = rot
    BY <1>2, <2>1, <2>2 DEF OneRotation, Rotating
  <2>3. ASSUME NEW q \in Rotators, Rotates(q) PROVE r = s
    <3>1. \A t \in Rotators \ {q} : rot'[t] = rot[t]
      BY <2>3, OthersStand
    <3>2. CASE Rotating(q)
      BY <1>2, <2>1, <3>1, <3>2 DEF OneRotation, Rotating
    <3>3. CASE ~Rotating(q)
      <4>1. RotationBegins(q)
        BY <2>3, <3>3, OthersStand
      <4>2. CASE Quiet
        BY <1>2, <3>1, <4>2 DEF Quiet, Rotating
      <4>3. CASE ~Quiet
        <5>1. Releases(q)
          BY <1>2, <4>1, <4>3, Zenon DEF RotationBegins
        <5>2. rot'[q].pc = "idle"
          BY <5>1 DEF Releases, NoRotation, TypeOK
        <5> QED BY <1>2, <2>1, <3>1, <5>2 DEF OneRotation, Rotating
      <4> QED BY <4>2, <4>3
    <3> QED BY <3>2, <3>3
  <2> QED BY <2>2, <2>3, RotStands
<1> QED BY <1>1, <1>2 DEF OneRotation, Rotating

-----------------------------------------------------------------------------
\* Steps that leave a rotation where it is, its key in force and the blobs
\* it answers for as they are, do not disturb it.
LEMMA Undisturbed ==
    ASSUME NEW r \in Rotators, Phase(r), rot'[r] = rot[r],
           keyfile' = keyfile, minted' = minted, backups' = backups,
           rot[r].todo \in SUBSET Accounts,
           stagedKey' \in {0, stagedKey},
           \A a \in Accounts : staged'[a] \in {0, staged[a]},
           \A a \in Held' : a \in Held /\ enc'[a] = enc[a]
    PROVE  Phase(r)'
  BY DEF Phase, OldKeyed

\* What the portal does next to a rotation: it saves what the rotation does
\* not answer for, and removes.
LEMMA PortalPhase ==
    ASSUME TypeOK, OneRotation, NEW r \in Rotators, Phase(r), Portal
    PROVE  Phase(r)'
<1> USE DEF TypeOK, blobs, portal, history
<1>1. rot' = rot
  BY DEF Portal, InsertsRow, DeletesBlob, SetsSeed, PortalRestarts, SavesBlob,
         DeletesRow
<1>2. CASE ~Rotating(r)
  BY <1>1, <1>2 DEF Rotating, Phase
<1>3. CASE Rotating(r)
  <2>1. keyfile # 0 /\ ~Quiet
    BY <1>3 DEF OneRotation, Quiet
  <2>2. UNCHANGED <<keyfile, minted, backups>>
    BY <2>1 DEF Portal, InsertsRow, DeletesBlob, SetsSeed, PortalRestarts,
                SavesBlob, DeletesRow, UserKey, keys
  <2>3. /\ stagedKey' \in {0, stagedKey}
        /\ \A a \in Accounts : staged'[a] \in {0, staged[a]}
    BY DEF Portal, InsertsRow, DeletesBlob, SetsSeed, PortalRestarts,
           SavesBlob, DeletesRow
  <2>4. \A a \in Held' : a \in Held /\ enc'[a] = enc[a]
    <3> USE DEF Held, WithKeys
    <3>1. CASE InsertsRow
      BY <3>1 DEF InsertsRow, NoHandler
    <3>2. CASE DeletesBlob
      BY <3>2 DEF DeletesBlob, NoHandler
    <3>3. CASE SetsSeed \/ PortalRestarts \/ \E a \in Accounts : DeletesRow(a)
      BY <3>3 DEF SetsSeed, PortalRestarts, DeletesRow
    <3>4. ASSUME NEW a \in Accounts, SavesBlob(a)
          PROVE  \A b \in Held' : b \in Held /\ enc'[b] = enc[b]
      <4>1. PICK k \in 1..MaxKeys : enc' = [enc EXCEPT ![a] = k]
        BY <3>4 DEF SavesBlob
      <4>2. raced' = raced \cup {a}
        BY <2>1, <3>4 DEF SavesBlob
      <4> QED BY <4>1, <4>2
    <3> QED BY <3>1, <3>2, <3>3, <3>4 DEF Portal
  <2> QED BY <1>1, <2>2, <2>3, <2>4, Undisturbed
<1> QED BY <1>2, <1>3

\* One case per action: how a rotation gets from phase to phase.
LEMMA RotatesPhase ==
    ASSUME TypeOK, OneRotation, NEW r \in Rotators, Phase(r), Rotates(r)
    PROVE  Phase(r)'
<1> USE DEF TypeOK, blobs, portal, history, keys, Goes, Releases, NoRotation
<1>1. CASE rot'[r].pc \in {"idle", "load"}
  BY <1>1 DEF Phase
<1>2. CASE RotationBegins(r)
  <2>1. rot'[r].pc \in {"idle", "load"}
    BY <1>2 DEF RotationBegins
  <2> QED BY <1>1, <2>1
<1>3. CASE Loads(r)
  <2>1. CASE rot'[r].pc = "backup"
    BY <1>3, <2>1 DEF Loads, Phase, OldKeyed, Held, WithKeys, Readable
  <2> QED BY <1>1, <1>3, <2>1 DEF Loads
<1>4. CASE BacksUp(r)
  BY <1>4 DEF BacksUp, Phase, OldKeyed, Held, WithKeys
<1>5. CASE Stages(r)
  BY <1>5 DEF Stages, Phase, OldKeyed, Held, WithKeys
<1>6. CASE ReplacesKey(r)
  <2>1. CASE stagedKey = 0
    BY <1>1, <1>6, <2>1 DEF ReplacesKey
  <2>2. CASE stagedKey # 0
    <3>1. /\ rot[r].pc = "key" /\ rot'[r].pc = "blobs"
          /\ rot'[r].todo = rot[r].todo
          /\ keyfile' = minted /\ UNCHANGED <<backups, enc, staged, raced>>
      BY <1>6, <2>2 DEF ReplacesKey, Phase
    <3> QED BY <3>1 DEF Phase, OldKeyed, Held, WithKeys
  <2> QED BY <2>1, <2>2
<1>7. CASE Sweeps(r) \/ RotationCrashes(r)
  BY <1>1, <1>7 DEF Sweeps, RotationCrashes
<1>8. ASSUME NEW a \in Accounts, ReplacesBlob(r, a) PROVE Phase(r)'
  <2>1. CASE staged[a] = 0
    BY <1>1, <1>8, <2>1 DEF ReplacesBlob
  <2>2. CASE staged[a] # 0
    <3>1. /\ rot[r].pc = "blobs" /\ rot'[r].pc = "blobs"
          /\ rot'[r].todo = rot[r].todo \ {a} /\ a \in rot[r].todo
          /\ enc' = [enc EXCEPT ![a] = staged[a]]
          /\ staged' = [staged EXCEPT ![a] = 0]
          /\ UNCHANGED <<keyfile, backups, raced>>
      BY <1>8, <2>2 DEF ReplacesBlob
    <3>2. staged[a] = keyfile
      BY <2>2, <3>1 DEF Phase
    <3> QED BY <3>1, <3>2 DEF Phase, Held, WithKeys
  <2> QED BY <2>1, <2>2
<1> QED BY <1>2, <1>3, <1>4, <1>5, <1>6, <1>7, <1>8 DEF Rotates

\* A rotation in its phase stays in it whoever moves.
LEMMA PhaseStep ==
    ASSUME TypeOK, OneRotation, PhaseInv, [Next]_vars PROVE PhaseInv'
<1> SUFFICES ASSUME ~overlapped', NEW r \in Rotators PROVE Phase(r)'
  BY DEF PhaseInv
<1>1. ~overlapped /\ Phase(r)
  BY OverlapStays DEF PhaseInv
<1>2. CASE Portal
  BY <1>1, <1>2, PortalPhase
<1>3. ASSUME NEW q \in Rotators, Rotates(q) PROVE Phase(r)'
  <2>1. CASE q = r
    BY <1>1, <1>3, <2>1, RotatesPhase
  <2>2. CASE q # r /\ Rotating(q)
    <3>1. rot'[r].pc = "idle"
      BY <1>1, <1>3, <2>2, OthersStand DEF OneRotation, Rotating
    <3> QED BY <3>1 DEF Phase
  <2>3. CASE q # r /\ ~Rotating(q)
    <3>1. RotationBegins(q) /\ rot'[r] = rot[r]
      BY <1>3, <2>3, OthersStand
    <3>2. UNCHANGED <<keyfile, minted, backups, enc, staged, stagedKey, raced>>
      BY <3>1 DEF RotationBegins, keys, blobs
    <3> QED BY <1>1, <3>1, <3>2 DEF Phase, OldKeyed, Held, WithKeys
  <2> QED BY <2>1, <2>2, <2>3
<1>4. ASSUME NEW b \in backups, Restores(b) PROVE Phase(r)'
  <2>1. rot'[r].pc = "idle"
    BY <1>4 DEF Restores, Quiet, Rotating
  <2> QED BY <2>1 DEF Phase
<1>5. CASE UNCHANGED vars
  BY <1>1, <1>5 DEF vars, keys, blobs, portal, history, Phase, OldKeyed, Held,
                    WithKeys
<1> QED BY <1>2, <1>3, <1>4, <1>5 DEF Next

-----------------------------------------------------------------------------
\* A key is dropped only when no blob answered for is under it: in the key's
\* replacement it has a backup, in the sweep all are under the new one.
LEMMA KeptStep ==
    ASSUME TypeOK, OneRotation, PhaseInv, KeptInv, [Next]_vars PROVE KeptInv'
<1> USE DEF TypeOK, blobs, portal, history
<1> SUFFICES ASSUME ~overlapped', ~overwritten', NEW a \in Held'
             PROVE  enc'[a] \in Kept'
  BY DEF KeptInv
<1>1. ~overlapped /\ a \in Accounts /\ enc'[a] # 0
  BY OverlapStays DEF Held, WithKeys
<1>2. ASSUME ~overwritten, a \in Held, enc'[a] = enc[a], Kept \subseteq Kept'
      PROVE  enc'[a] \in Kept'
  BY <1>1, <1>2 DEF KeptInv
<1>3. CASE Portal
  <2>1. overwritten' = overwritten
    BY <1>3 DEF Portal, InsertsRow, DeletesBlob, SetsSeed, PortalRestarts,
                SavesBlob, DeletesRow
  <2>2. Kept \subseteq Kept'
    BY <1>3 DEF Portal, InsertsRow, DeletesBlob, SetsSeed, PortalRestarts,
                SavesBlob, DeletesRow, UserKey, keys, Kept
  <2>3. CASE InsertsRow \/ DeletesBlob
    BY <1>1, <1>2, <2>1, <2>2, <2>3
       DEF InsertsRow, DeletesBlob, NoHandler, Held, WithKeys
  <2>4. CASE SetsSeed \/ PortalRestarts \/ \E b \in Accounts : DeletesRow(b)
    BY <1>1, <1>2, <2>1, <2>2, <2>4
       DEF SetsSeed, PortalRestarts, DeletesRow, Held, WithKeys
  <2>5. ASSUME NEW b \in Accounts, SavesBlob(b) PROVE enc'[a] \in Kept'
    <3>1. PICK k \in 1..MaxKeys : UserKey(k) /\ enc' = [enc EXCEPT ![b] = k]
      BY <2>5 DEF SavesBlob
    <3>2. k \in Kept'
      BY <3>1, ConstantsAssumption DEF UserKey, keys, Kept
    <3>3. CASE a = b
      BY <3>1, <3>2, <3>3
    <3>4. CASE a # b
      BY <1>1, <1>2, <2>1, <2>2, <2>5, <3>1, <3>4 DEF SavesBlob, Held, WithKeys
    <3> QED BY <3>3, <3>4
  <2> QED BY <1>3, <2>3, <2>4, <2>5 DEF Portal
<1>4. ASSUME NEW r \in Rotators, Rotates(r) PROVE enc'[a] \in Kept'
  <2> USE DEF keys
  <2>1. Phase(r) /\ overwritten' = overwritten
    BY <1>1, <1>4 DEF PhaseInv, Rotates, RotationBegins, Loads, BacksUp,
       Stages, ReplacesKey, Sweeps, RotationCrashes, ReplacesBlob
  <2>2. CASE RotationBegins(r) \/ Loads(r) \/ BacksUp(r) \/ Stages(r)
               \/ RotationCrashes(r)
    <3>1. Kept \subseteq Kept' /\ enc' = enc /\ raced' = raced
      BY <2>2 DEF RotationBegins, Loads, BacksUp, Stages, RotationCrashes, Kept
    <3> QED BY <1>1, <1>2, <2>1, <3>1 DEF Held, WithKeys
  <2>3. CASE ReplacesKey(r)
    <3>1. /\ keyfile \in backups /\ enc[a] = keyfile
          /\ backups' = backups /\ enc' = enc
      BY <2>1, <2>3 DEF ReplacesKey, Phase, OldKeyed, Held, WithKeys
    <3> QED BY <3>1 DEF Kept
  <2>4. CASE Sweeps(r)
    <3>1. enc[a] = keyfile /\ keyfile' = keyfile /\ enc' = enc
      BY <2>1, <2>4 DEF Sweeps, Completes, Phase, Held, WithKeys
    <3> QED BY <1>1, <3>1 DEF Kept
  <2>5. ASSUME NEW b \in Accounts, ReplacesBlob(r, b) PROVE enc'[a] \in Kept'
    <3>1. Kept' = Kept /\ raced' = raced
      BY <2>5 DEF ReplacesBlob, Kept
    <3>2. CASE a = b /\ staged[b] # 0
      <4>1. enc'[a] = keyfile
        BY <2>1, <2>5, <3>2 DEF ReplacesBlob, Phase
      <4> QED BY <1>1, <3>1, <4>1 DEF Kept
    <3>3. CASE a # b \/ staged[b] = 0
      <4>1. enc'[a] = enc[a]
        BY <1>1, <2>5, <3>3 DEF ReplacesBlob
      <4> QED BY <1>1, <1>2, <2>1, <3>1, <4>1 DEF Held, WithKeys
    <3> QED BY <3>2, <3>3
  <2> QED BY <1>4, <2>2, <2>3, <2>4, <2>5 DEF Rotates
<1>5. ASSUME NEW b \in backups, Restores(b) PROVE enc'[a] \in Kept'
  <2>1. ~overwritten /\ prestore = 0
    BY <1>5, Zenon DEF Restores
  <2>2. Kept \subseteq Kept' /\ enc' = enc /\ raced' = raced
    BY <1>5, <2>1 DEF Restores, Kept
  <2> QED BY <1>1, <1>2, <2>1, <2>2 DEF Held, WithKeys
<1>6. CASE UNCHANGED vars
  BY <1>1, <1>2, <1>6 DEF vars, keys, Held, WithKeys, Kept
<1> QED BY <1>3, <1>4, <1>5, <1>6 DEF Next

-----------------------------------------------------------------------------
\* The invariant holds throughout.
LEMMA Invariance == Spec => []IInv
<1>1. Init => IInv
  <2> SUFFICES ASSUME Init PROVE IInv
    OBVIOUS
  <2>1. TypeOK
    BY DEF Init, TypeOK, Stage, NoRotation
  <2>2. RowsHaveBlobs /\ HalfInv
    BY DEF Init, RowsHaveBlobs, HalfInv
  <2>3. OneRotation /\ PhaseInv
    BY DEF Init, OneRotation, Rotating, PhaseInv, Phase, NoRotation
  <2>4. KeptInv
    BY DEF Init, KeptInv, Held, WithKeys
  <2> QED BY <2>1, <2>2, <2>3, <2>4 DEF IInv
<1>2. IInv /\ [Next]_vars => IInv'
  BY TypeStep, RowsStep, OneStep, PhaseStep, KeptStep DEF IInv
<1> QED BY <1>1, <1>2, PTL DEF Spec

\* create_account writes the file and then the row, delete_account the row
\* and then the file: wherever the portal dies and whatever any number of
\* rotations do, no row is without its file.
THEOREM RowsAlwaysHaveBlobs == Spec => []RowsHaveBlobs
<1>1. IInv => RowsHaveBlobs
  BY DEF IInv
<1> QED BY <1>1, Invariance, PTL

\* rotate_user_key's order (backup, staging, key file, blobs, sweep): wherever
\* it is cut short, and however often, the key of every blob it answers for
\* is on disk, for any number of accounts and keys.
THEOREM KeysAreKept == Spec => []Recoverable
<1>1. IInv => Recoverable
  BY DEF IInv, TypeOK, RowsHaveBlobs, KeptInv, Held, WithKeys, Recoverable
<1> QED BY <1>1, Invariance, PTL

\* A rotation that gets to its end has left every blob it answers for under
\* the key in force.
THEOREM RotationsEndReadable == Spec => RotationReadable
<1>1. IInv /\ [Next]_vars =>
        [\A r \in Rotators : Sweeps(r) /\ ~overlapped =>
            \A a \in rows \ raced : Readable(a)]_vars
  <2> SUFFICES ASSUME IInv, NEW r \in Rotators, Sweeps(r), ~overlapped,
                      NEW a \in rows \ raced
               PROVE  Readable(a)
    OBVIOUS
  <2>1. Phase(r) /\ a \in Held
    BY DEF IInv, TypeOK, PhaseInv, RowsHaveBlobs, Held, WithKeys
  <2> QED BY <2>1 DEF Sweeps, Completes, Phase, Readable, Held, WithKeys
<1> QED BY <1>1, Invariance, PTL DEF Spec, RotationReadable
-----------------------------------------------------------------------------
\* The inductive invariant of Charts, as far as the breaker and the caches go.

Asking == {"ask", "aged", "call", "clear", "stamp", "stampForGood", "notify", "ended"}
Fetching == {"lock", "fetch", "fetched"}
Entries == [until : Nat, asOf : Nat]

ChartsTypeOK ==
    /\ clock \in Nat
    /\ failures \in Nat /\ latched \in BOOLEAN /\ condemned \in BOOLEAN
    /\ pc \in [Threads -> {"idle", "walk"} \cup Asking \cup Fetching]
    /\ outcome = [t \in Threads |-> outcome[t]]
    /\ fired \in Nat /\ askedLate \subseteq Threads
    /\ kind = [r \in Threads |-> kind[r]]
    /\ began \in [Threads -> Nat] /\ asOf \in [Threads -> Nat]
    /\ lock \in Threads \cup {Null}
    /\ tickerCache \in Entries \cup {Null}
    /\ chartCache \in Entries \cup {Null} /\ candlesCache \in Entries \cup {Null}
    /\ hit \in Int /\ shown \in Nat /\ backwards \in BOOLEAN

\* One thread has found the breaker not latched and latched it, and is the one
\* to tell of it; whoever asked since then was turned away.
Telling(t) == pc[t] \in {"stampForGood", "notify"}
Told ==
    /\ latched <=> condemned
    /\ \A t \in askedLate : pc[t] \notin {"aged", "call", "clear", "stamp"}
    /\ \A s, t \in Threads : Telling(s) /\ Telling(t) => s = t
    /\ fired = 0 \/ (fired = 1 /\ latched /\ \A t \in Threads : ~Telling(t))
    /\ (\E t \in Threads : Telling(t)) => latched
    /\ latched => fired = 1 \/ \E t \in Threads : Telling(t)

\* A payload is no older than its handler, nor is what it was served for.
Dated ==
    /\ \A r \in Threads :
        /\ began[r] <= clock /\ asOf[r] <= clock
        /\ outcome[r] = "ok" => pc[r] = "ended"
        /\ outcome[r] = "ok" \/ pc[r] \in {"clear", "fetched"} => began[r] <= asOf[r]
    /\ \A c \in {tickerCache, chartCache, candlesCache} \ {Null} : c.until <= c.asOf + Ttl

\* The lock is with whoever fetches; what it has fetched is as late as any
\* payload that was stored or shown.
Latest(t) == shown <= t /\ (tickerCache # Null => tickerCache.asOf <= t)
Serial ==
    /\ \A r \in Threads :
        /\ pc[r] \in {"fetch", "fetched"} => lock = r
        /\ pc[r] = "fetched" => Latest(asOf[r])
    /\ Latest(clock)
    /\ tickerCache # Null => shown <= tickerCache.asOf

ChartsInv == ChartsTypeOK /\ Told /\ Dated /\ Serial /\ ServedInOrder

\* Outside get_ohlcv a step leaves the breaker alone, and no slot at a place
\* within it.
LEMMA Outside ==
    ASSUME NEW r \in Threads, ChartsTypeOK,
           \/ Ticker(r) \/ ChartHit(r) \/ ChartMiss(r) \/ ChartEnds(r)
           \/ Candles(r) \/ (r \in Walkers /\ Walk(r))
    PROVE  /\ UNCHANGED <<clock, fields, read, verdicts>>
           /\ \/ pc' = pc
              \/ /\ pc[r] \in {"idle", "walk", "ended"} \cup Fetching
                 /\ \E p \in {"idle", "walk", "ask"} \cup Fetching :
                        pc' = [pc EXCEPT ![r] = p]
<1> USE DEF ChartsTypeOK, Fetching, Begins, Idle, Gone, To, breaker, breakerVars, locals
<1>1. CASE Ticker(r)
  BY <1>1 DEF Ticker, TickerHit, TickerMiss, PriceAsks, TakesLock, TickerAnswers,
              TickerStores, PriceReplies, FetchFails
<1>2. CASE ChartHit(r) \/ ChartMiss(r) \/ ChartEnds(r)
  BY <1>2 DEF ChartHit, ChartMiss, ChartEnds
<1>3. CASE Candles(r) \/ (r \in Walkers /\ Walk(r))
  BY <1>3 DEF Candles, CandlesHit, CandlesMiss, Walk, PageArrives, PageEmpty,
              Walks, CandlesEnds
<1> QED BY <1>1, <1>2, <1>3
\* A step of get_ohlcv, in terms of the slot it is in.
LEMMA Inside ==
    ASSUME NEW r \in Threads, ChartsTypeOK, ChartCalls(r)
    PROVE  /\ UNCHANGED <<clock, kind, began, lock, caches, walk, seen>>
           /\ asOf' = IF pc[r] = "call" THEN [asOf EXCEPT ![r] = clock] ELSE asOf
           /\ \E p \in Asking : pc' = [pc EXCEPT ![r] = p]
           /\ pc'[r] = "clear" => pc[r] = "call"
           /\ \/ outcome' = outcome
              \/ \E o \in {"open", "crashed", "unavailable", "refused"} :
                     outcome' = [outcome EXCEPT ![r] = o]
              \/ /\ pc[r] \in {"call", "clear"} /\ pc'[r] = "ended"
                 /\ outcome' = [outcome EXCEPT ![r] = "ok"]
<1>1. /\ UNCHANGED <<clock, kind, began, lock, caches, walk, seen>>
      /\ asOf' = IF pc[r] = "call" THEN [asOf EXCEPT ![r] = clock] ELSE asOf
  BY DEF ChartCalls
<1> USE DEF Asking, Ends, To, ChartsTypeOK
<1>2. CASE IsOpen(r)
  BY <1>1, <1>2 DEF IsOpen
<1>3. CASE Aged(r)
  BY <1>1, <1>3 DEF Aged
<1>4. CASE Succeeds(r) \/ Clears(r)
  BY <1>1, <1>4 DEF Succeeds, Clears
<1>5. CASE FailsTransiently(r) \/ Stamps(r)
  BY <1>1, <1>5 DEF FailsTransiently, Stamps
<1>6. CASE FailsPermanently(r) \/ StampsForGood(r) \/ Notifies(r)
  BY <1>1, <1>6 DEF FailsPermanently, StampsForGood, Notifies
<1> QED BY <1>2, <1>3, <1>4, <1>5, <1>6 DEF ChartCalls, BreakerStep

\* Every step keeps the types.
LEMMA ChartsTypeStep == ChartsTypeOK /\ [ChartsNext]_chartsVars => ChartsTypeOK'
<1> SUFFICES ASSUME ChartsTypeOK, [ChartsNext]_chartsVars PROVE ChartsTypeOK'
  OBVIOUS
<1> USE ChartsAssumption, BreakerAssumption
    DEF ChartsTypeOK, Asking, Fetching, Begins, Idle, Gone, To, breaker,
        breakerVars, fields, locals, verdicts, slots, caches, seen
<1>1. CASE UNCHANGED chartsVars
  BY <1>1 DEF chartsVars
<1>2. CASE ClockTicks
  BY <1>2 DEF ClockTicks
<1>3. ASSUME NEW r \in Threads, Ticker(r) PROVE ChartsTypeOK'
  <2>1. CASE TickerHit(r)
    <3>1. tickerCache \in Entries
      BY <2>1 DEF TickerHit, Fresh
    <3> QED BY <2>1, <3>1 DEF TickerHit, Serve, Show, Entries
  <2>2. CASE TickerMiss(r) \/ PriceAsks(r) \/ TakesLock(r) \/ TickerAnswers(r)
    BY <2>2 DEF TickerMiss, PriceAsks, TakesLock, TickerAnswers
  <2>3. CASE TickerStores(r)
    <3>1. tickerCache' \in Entries
      BY <2>3 DEF TickerStores, Entries
    <3> QED BY <2>3, <3>1 DEF TickerStores, Show, Unlocks
  <2>4. CASE PriceReplies(r) \/ FetchFails(r)
    BY <2>4 DEF PriceReplies, FetchFails, Unlocks
  <2> QED BY <1>3, <2>1, <2>2, <2>3, <2>4 DEF Ticker
<1>4. ASSUME NEW r \in Threads, Chart(r) PROVE ChartsTypeOK'
  <2>1. CASE ChartHit(r)
    <3>1. chartCache \in Entries
      BY <2>1 DEF ChartHit, Fresh
    <3> QED BY <2>1, <3>1 DEF ChartHit, Serve, Entries
  <2>2. CASE ChartMiss(r)
    BY <2>2 DEF ChartMiss
  <2>3. CASE ChartEnds(r)
    <3>1. chartCache' \in Entries \cup {Null}
      BY <2>3 DEF ChartEnds, Entries
    <3> QED BY <2>3, <3>1 DEF ChartEnds
  <2>4. CASE ChartCalls(r)
    <3>1. /\ UNCHANGED <<clock, kind, began, lock, caches, seen>>
          /\ asOf' \in [Threads -> Nat] /\ outcome' = [t \in Threads |-> outcome'[t]]
          /\ pc' \in [Threads -> {"idle", "walk"} \cup Asking \cup Fetching]
      BY <2>4, Inside
    <3>2. /\ failures' \in Nat /\ latched' \in BOOLEAN /\ condemned' \in BOOLEAN
          /\ fired' \in Nat /\ askedLate' \subseteq Threads
      <4>1. CASE IsOpen(r)
        BY <4>1 DEF IsOpen
      <4>2. CASE Aged(r)
        BY <4>2 DEF Aged
      <4>3. CASE Succeeds(r) \/ Clears(r) \/ FailsTransiently(r) \/ Stamps(r)
        BY <4>3 DEF Succeeds, Clears, FailsTransiently, Stamps
      <4>4. CASE FailsPermanently(r) \/ StampsForGood(r) \/ Notifies(r)
        <5>1. CASE FailsPermanently(r)
          BY <5>1 DEF FailsPermanently, Ends
        <5>2. CASE StampsForGood(r) \/ Notifies(r)
          BY <5>2 DEF StampsForGood, Notifies
        <5> QED BY <4>4, <5>1, <5>2
      <4> QED BY <2>4, <4>1, <4>2, <4>3, <4>4 DEF ChartCalls, BreakerStep
    <3> QED BY <3>1, <3>2
  <2> QED BY <1>4, <2>1, <2>2, <2>3, <2>4 DEF Chart
<1>5. ASSUME NEW r \in Threads, Candles(r) PROVE ChartsTypeOK'
  <2>1. CASE CandlesHit(r)
    <3>1. candlesCache \in Entries
      BY <2>1 DEF CandlesHit, Fresh
    <3> QED BY <2>1, <3>1 DEF CandlesHit, Serve, Entries
  <2>2. CASE CandlesMiss(r)
    BY <2>2 DEF CandlesMiss
  <2> QED BY <1>5, <2>1, <2>2 DEF Candles
<1>6. ASSUME NEW r \in Walkers, Walk(r) PROVE ChartsTypeOK'
  <2>1. CASE PageArrives(r) \/ PageEmpty(r)
    BY <2>1 DEF PageArrives, PageEmpty, Walks
  <2>2. CASE CandlesEnds(r)
    <3>1. candlesCache' \in Entries
      BY <2>2 DEF CandlesEnds, Entries
    <3> QED BY <2>2, <3>1 DEF CandlesEnds
  <2> QED BY <1>6, <2>1, <2>2 DEF Walk
<1> QED BY <1>1, <1>2, <1>3, <1>4, <1>5, <1>6 DEF ChartsNext

\* The one thread that latches the breaker tells of it, and nobody asks past
\* the latch: the test and the assignment are one step, and a latch is never
\* taken back.
LEMMA ToldStep == ChartsTypeOK /\ Told /\ [ChartsNext]_chartsVars => Told'
<1> SUFFICES ASSUME ChartsTypeOK, Told, [ChartsNext]_chartsVars PROVE Told'
  OBVIOUS
<1>1. CASE UNCHANGED chartsVars \/ ClockTicks
  BY <1>1 DEF Told, Telling, chartsVars, ClockTicks, breakerVars, fields, locals, verdicts
<1>2. ASSUME NEW r \in Threads,
             \/ Ticker(r) \/ ChartHit(r) \/ ChartMiss(r) \/ ChartEnds(r)
             \/ Candles(r) \/ (r \in Walkers /\ Walk(r))
      PROVE  Told'
  <2>1. /\ UNCHANGED <<latched, fired, condemned, askedLate>>
        /\ \/ pc' = pc
           \/ /\ pc[r] \in {"idle", "walk", "ended"} \cup Fetching
              /\ \E p \in {"idle", "walk", "ask"} \cup Fetching :
                     pc' = [pc EXCEPT ![r] = p]
    BY <1>2, Outside DEF fields, verdicts
  <2> QED BY <2>1 DEF Told, Telling, Fetching, ChartsTypeOK
<1>3. ASSUME NEW r \in Threads, ChartCalls(r) PROVE Told'
  <2> USE DEF ChartsTypeOK, Told, Telling, To, Ends, fields, verdicts
  <2>1. CASE IsOpen(r)
    <3>1. CASE latched
      BY <2>1, <3>1 DEF IsOpen
    <3>2. CASE ~latched
      BY <2>1, <3>2 DEF IsOpen
    <3> QED BY <3>1, <3>2
  <2>2. CASE Aged(r)
    <3>1. /\ UNCHANGED <<latched, fired, condemned, askedLate>>
          /\ r \notin askedLate /\ pc[r] = "aged"
          /\ \E p \in {"ended", "call"} : pc' = [pc EXCEPT ![r] = p]
      BY <2>2 DEF Aged
    <3> QED BY <3>1
  <2>3. CASE Succeeds(r) \/ Clears(r) \/ FailsTransiently(r) \/ Stamps(r)
    BY <2>3 DEF Succeeds, Clears, FailsTransiently, Stamps
  <2>4. CASE FailsPermanently(r)
    BY <2>4 DEF FailsPermanently
  <2>5. CASE StampsForGood(r)
    BY <2>5 DEF StampsForGood
  <2>6. CASE Notifies(r)
    BY <2>6 DEF Notifies
  <2> QED BY <1>3, <2>1, <2>2, <2>3, <2>4, <2>5, <2>6 DEF ChartCalls, BreakerStep
<1> QED BY <1>1, <1>2, <1>3, ChartsAssumption DEF ChartsNext, Chart

\* No payload is older than the handler that fetched it.
LEMMA DatedStep == ChartsTypeOK /\ Dated /\ [ChartsNext]_chartsVars => Dated'
<1> SUFFICES ASSUME ChartsTypeOK, Dated, [ChartsNext]_chartsVars PROVE Dated'
  OBVIOUS
<1> USE ChartsAssumption
    DEF ChartsTypeOK, Dated, Fetching, Asking, Begins, Idle, Gone, To, breaker,
        breakerVars, fields, locals, verdicts, slots, caches, seen
<1>1. CASE UNCHANGED chartsVars \/ ClockTicks
  BY <1>1 DEF chartsVars, ClockTicks
<1>2. ASSUME NEW r \in Threads, Ticker(r) PROVE Dated'
  <2>1. CASE TickerHit(r) \/ TickerMiss(r) \/ PriceAsks(r) \/ TakesLock(r)
    BY <2>1 DEF TickerHit, TickerMiss, PriceAsks, TakesLock
  <2>2. CASE TickerAnswers(r) \/ PriceReplies(r) \/ FetchFails(r)
    BY <2>2 DEF TickerAnswers, PriceReplies, FetchFails
  <2>3. CASE TickerStores(r)
    BY <2>3 DEF TickerStores
  <2> QED BY <1>2, <2>1, <2>2, <2>3 DEF Ticker
<1>3. ASSUME NEW r \in Threads, Chart(r) PROVE Dated'
  <2>1. CASE ChartHit(r) \/ ChartMiss(r)
    BY <2>1 DEF ChartHit, ChartMiss
  <2>2. CASE ChartEnds(r)
    BY <2>2 DEF ChartEnds
  <2>3. CASE ChartCalls(r)
    <3>1. UNCHANGED <<clock, began, caches>>
      BY <2>3, Inside
    <3>2. ASSUME NEW t \in Threads, t # r
          PROVE  pc'[t] = pc[t] /\ asOf'[t] = asOf[t] /\ outcome'[t] = outcome[t]
      BY <2>3, <3>2, Inside
    <3>3. asOf'[r] = (IF pc[r] = "call" THEN clock ELSE asOf[r])
      BY <2>3, Inside
    <3>4. /\ outcome'[r] = "ok" => pc'[r] = "ended"
          /\ outcome'[r] = "ok" => outcome[r] = "ok" \/ pc[r] \in {"call", "clear"}
          /\ pc'[r] \in Asking /\ (pc'[r] = "clear" => pc[r] = "call")
      <4>1. outcome[r] # "ok" \/ pc[r] = "ended"
        OBVIOUS
      <4>2. pc[r] # "ended"
        BY <2>3 DEF ChartCalls, BreakerStep, IsOpen, Aged, Succeeds, Clears,
             FailsTransiently, Stamps, FailsPermanently, StampsForGood, Notifies
      <4> QED BY <2>3, <4>1, <4>2, Inside
    <3> QED BY <3>1, <3>2, <3>3, <3>4
  <2> QED BY <1>3, <2>1, <2>2, <2>3 DEF Chart
<1>4. ASSUME NEW r \in Threads, Candles(r) PROVE Dated'
  BY <1>4 DEF Candles, CandlesHit, CandlesMiss
<1>5. ASSUME NEW r \in Walkers, Walk(r) PROVE Dated'
  BY <1>5 DEF Walk, PageArrives, PageEmpty, Walks, CandlesEnds
<1> QED BY <1>1, <1>2, <1>3, <1>4, <1>5 DEF ChartsNext

\* Under the lock payloads are fetched and stored one after the other.
LEMMA SerialStep ==
    ChartsTypeOK /\ Dated /\ Serial /\ ServedInOrder /\ [ChartsNext]_chartsVars
        => (Serial /\ ServedInOrder)'
<1> SUFFICES ASSUME ChartsTypeOK, Dated, Serial, ServedInOrder, [ChartsNext]_chartsVars
             PROVE  (Serial /\ ServedInOrder)'
  OBVIOUS
<1> USE ChartsAssumption, BreakerAssumption
    DEF ChartsTypeOK, Serial, ServedInOrder, Latest, Fetching, Begins, Idle, Gone, To,
        breaker, breakerVars, fields, locals, verdicts, slots, caches, seen
<1>1. CASE UNCHANGED chartsVars \/ ClockTicks
  BY <1>1 DEF chartsVars, ClockTicks, Entries
<1>2. ASSUME NEW r \in Threads, Ticker(r) PROVE (Serial /\ ServedInOrder)'
  <2>1. CASE TickerHit(r)
    <3>1. tickerCache \in Entries /\ tickerCache # Null
      BY <2>1 DEF TickerHit, Fresh
    <3>2. tickerCache.until \in Nat /\ tickerCache.asOf \in Nat
      BY <3>1 DEF Entries
    <3>3. tickerCache.until <= tickerCache.asOf + Ttl
      BY <3>1 DEF Dated
    <3> QED BY <2>1, <3>1, <3>2, <3>3 DEF TickerHit, Fresh, Serve, Show
  <2>2. CASE TickerMiss(r) \/ PriceAsks(r) \/ TakesLock(r)
    BY <2>2 DEF TickerMiss, PriceAsks, TakesLock
  <2>3. CASE TickerAnswers(r) \/ PriceReplies(r) \/ FetchFails(r)
    BY <2>3 DEF TickerAnswers, PriceReplies, FetchFails, Unlocks
  <2>4. CASE TickerStores(r)
    <3>1. lock = r /\ Latest(asOf[r]) /\ shown' = asOf[r]
      BY <2>4 DEF TickerStores, Show
    <3>2. tickerCache' = [until |-> began[r] + Ttl, asOf |-> asOf[r]]
      BY <2>4 DEF TickerStores
    <3>3. tickerCache'.asOf = asOf[r] /\ asOf[r] <= clock
      BY <3>2 DEF Dated
    <3> QED BY <2>4, <3>1, <3>3 DEF TickerStores, Show, Unlocks
  <2> QED BY <1>2, <2>1, <2>2, <2>3, <2>4 DEF Ticker
<1>3. ASSUME NEW r \in Threads, Chart(r) PROVE (Serial /\ ServedInOrder)'
  <2>1. CASE ChartHit(r)
    <3>1. chartCache \in Entries /\ chartCache # Null
      BY <2>1 DEF ChartHit, Fresh
    <3>2. chartCache.until \in Nat /\ chartCache.asOf \in Nat
      BY <3>1 DEF Entries
    <3>3. chartCache.until <= chartCache.asOf + Ttl
      BY <3>1 DEF Dated
    <3> QED BY <2>1, <3>1, <3>2, <3>3 DEF ChartHit, Fresh, Serve
  <2>2. CASE ChartMiss(r) \/ ChartEnds(r)
    BY <2>2 DEF ChartMiss, ChartEnds
  <2>3. CASE ChartCalls(r)
    BY <2>3, Inside DEF Asking
  <2> QED BY <1>3, <2>1, <2>2, <2>3 DEF Chart
<1>4. ASSUME NEW r \in Threads, Candles(r) PROVE (Serial /\ ServedInOrder)'
  <2>1. CASE CandlesHit(r)
    <3>1. candlesCache \in Entries /\ candlesCache # Null
      BY <2>1 DEF CandlesHit, Fresh
    <3>2. candlesCache.until \in Nat /\ candlesCache.asOf \in Nat
      BY <3>1 DEF Entries
    <3>3. candlesCache.until <= candlesCache.asOf + Ttl
      BY <3>1 DEF Dated
    <3> QED BY <2>1, <3>1, <3>2, <3>3 DEF CandlesHit, Fresh, Serve
  <2>2. CASE CandlesMiss(r)
    BY <2>2 DEF CandlesMiss
  <2> QED BY <1>4, <2>1, <2>2 DEF Candles
<1>5. ASSUME NEW r \in Walkers, Walk(r) PROVE (Serial /\ ServedInOrder)'
  BY <1>5 DEF Walk, PageArrives, PageEmpty, Walks, CandlesEnds
<1> QED BY <1>1, <1>2, <1>3, <1>4, <1>5 DEF ChartsNext

\* The invariant holds in every reachable state.
LEMMA ChartsInvariance == ChartsSpec => []ChartsInv
<1>1. ChartsInit => ChartsInv
  <2> SUFFICES ASSUME ChartsInit PROVE ChartsInv
    OBVIOUS
  <2> USE ChartsAssumption, BreakerAssumption DEF ChartsInit, BreakerInit
  <2>1. ChartsTypeOK
    <3>1. /\ outcome = [t \in Threads |-> outcome[t]]
          /\ kind = [r \in Threads |-> kind[r]]
      OBVIOUS
    <3>2. /\ pc \in [Threads -> {"idle", "walk"} \cup Asking \cup Fetching]
          /\ began \in [Threads -> Nat] /\ asOf \in [Threads -> Nat]
      OBVIOUS
    <3>3. clock = 0 /\ failures = 0 /\ fired = 0 /\ hit = 0 /\ shown = 0 /\ askedLate = {}
      OBVIOUS
    <3>4. latched \in BOOLEAN /\ condemned \in BOOLEAN /\ backwards \in BOOLEAN
      BY Zenon
    <3>5. /\ lock = Null /\ tickerCache = Null
          /\ chartCache = Null /\ candlesCache = Null
      OBVIOUS
    <3> HIDE DEF ChartsInit, BreakerInit
    <3> QED BY <3>1, <3>2, <3>3, <3>4, <3>5 DEF ChartsTypeOK
  <2>2. Told
    BY DEF Told, Telling
  <2>3. Dated
    BY DEF Dated
  <2>4. Serial /\ ServedInOrder
    BY DEF Serial, Latest, ServedInOrder
  <2> QED BY <2>1, <2>2, <2>3, <2>4 DEF ChartsInv
<1>2. ChartsInv /\ [ChartsNext]_chartsVars => ChartsInv'
  BY ChartsTypeStep, ToldStep, DatedStep, SerialStep DEF ChartsInv
<1> QED BY <1>1, <1>2, PTL DEF ChartsSpec

\* A permanent error latches the breaker for good, and is told once
\* (CircuitBreaker._enter_permanent_open, is_open).
THEOREM BreakerStaysLatched == ChartsSpec => []LatchedForGood
<1>1. ChartsInv => LatchedForGood
  BY DEF ChartsInv, Told, Telling, LatchedForGood
<1> QED BY <1>1, ChartsInvariance, PTL

\* No cache serves what is older than its TTL, and the ticker never goes back
\* in time (api_ticker, api_chart, api_candles, _price_lock).
THEOREM CachesServeInOrder == ChartsSpec => []ServedInOrder
<1>1. ChartsInv => ServedInOrder
  BY DEF ChartsInv
<1> QED BY <1>1, ChartsInvariance, PTL
-----------------------------------------------------------------------------
\* The inductive invariant of the page walk.

Left(n) == {b \in Listed : b >= n}
WalkRecords == [since : Nat, empty : 0 .. 2, pages : Nat,
                bars : SUBSET Nat, lost : SUBSET Nat]

\* A page that came back empty was given up, or there is nothing from it on.
Tried(w, n) == n \in w.lost \/ Left(n) = {}

\* What lies behind the walk was fetched or is close to a page given up; an
\* empty page was tried, and before the second one the page before it; and a
\* walk that has anything before it has come a page's length with each page.
Walked(w) ==
    /\ \A b \in Wanted : b < w.since =>
           \/ b \in w.bars
           \/ \E s \in w.lost : s <= b /\ b < s + PageSize
    /\ w.empty >= 1 => Tried(w, w.since - PageSize)
    /\ w.empty = 2 => Tried(w, w.since)
    /\ w.empty < 2 => Left(w.since) = {} \/ First + w.pages * PageSize <= w.since
Gathered ==
    /\ walk \in [Walkers -> WalkRecords]
    /\ \A r \in Walkers : pc[r] = "walk" => Walked(walk[r])
\* Of some natural numbers one is the least.
LEMMA LeastOf ==
    ASSUME NEW T \in SUBSET Nat, T # {}
    PROVE  \E n \in T : \A m \in T : n <= m
<1> DEFINE R == {ss \in Nat \X Nat : ss[1] < ss[2]}
<1>1. IsWellFoundedOn(R, Nat)
  BY NatLessThanWellFounded DEF OpToRel
<1>2. \A x, y \in Nat : x < y => <<x, y>> \in R
  OBVIOUS
<1> HIDE DEF R
<1>3. PICK x \in T : \A y \in T : ~(<<y, x>> \in R)
  BY <1>1, WFMin
<1>4. ASSUME NEW y \in T PROVE x <= y
  <2>1. x \in Nat /\ y \in Nat /\ ~(<<y, x>> \in R)
    BY <1>3, <1>4
  <2> QED BY <1>2, <2>1
<1> QED BY <1>4

\* What the exchange has before a bar, from another one on.
Below(n, b) == {c \in Left(n) : c < b}

\* A page holds the bars that fewer than PageSize others precede.
LEMMA PageCounts ==
    ASSUME NEW n \in Nat
    PROVE  /\ Page(n) = {b \in Left(n) : Cardinality(Below(n, b)) < PageSize}
           /\ Left(n) \subseteq Nat
           /\ \A b \in Left(n) : /\ IsFiniteSet(Below(n, b))
                                 /\ Cardinality(Below(n, b)) \in Nat
<1>1. Page(n) = {b \in Left(n) : Cardinality(Below(n, b)) < PageSize}
  BY DEF Page, Left, Below
<1>2. Left(n) \subseteq Nat
  BY ChartsAssumption DEF Left
<1>3. ASSUME NEW b \in Left(n)
      PROVE  IsFiniteSet(Below(n, b)) /\ Cardinality(Below(n, b)) \in Nat
  <2>1. Below(n, b) \in SUBSET Listed /\ IsFiniteSet(Listed)
    BY ChartsAssumption DEF Below, Left
  <2> QED BY <2>1, FS_Subset, FS_CardinalityType
<1> QED BY <1>1, <1>2, <1>3

\* A page is empty when the exchange has nothing from its start on.
LEMMA PageOfLeft ==
    ASSUME NEW n \in Nat, Page(n) = {}
    PROVE  Left(n) = {}
<1> SUFFICES ASSUME Left(n) # {} PROVE FALSE
  OBVIOUS
<1>1. PICK b \in Left(n) : \A c \in Left(n) : b <= c
  BY PageCounts, LeastOf
<1>2. Below(n, b) = {}
  BY <1>1, PageCounts DEF Below
<1>3. Cardinality(Below(n, b)) = 0
  BY <1>2, FS_EmptySet
<1>4. 0 < PageSize
  BY ChartsAssumption
<1> QED BY <1>1, <1>3, <1>4, PageCounts

\* A page holds everything up to its newest bar, and is the last one unless
\* it reaches a page's length.
LEMMA PageReaches ==
    ASSUME NEW n \in Nat, Page(n) # {}
    PROVE  /\ Newest(Page(n)) \in Page(n)
           /\ Newest(Page(n)) \in Nat /\ n <= Newest(Page(n))
           /\ \A b \in Left(n) : b <= Newest(Page(n)) => b \in Page(n)
           /\ Left(Newest(Page(n)) + 1) = {} \/ n + PageSize <= Newest(Page(n)) + 1
<1> DEFINE rank(b) == Cardinality(Below(n, b))
<1>1. /\ Page(n) = {b \in Left(n) : rank(b) < PageSize}
      /\ Left(n) \subseteq Nat
      /\ \A b \in Left(n) : IsFiniteSet(Below(n, b)) /\ rank(b) \in Nat
  BY PageCounts
<1>2. PageSize \in Nat /\ PageSize > 0
  BY ChartsAssumption
\* The later a bar, the more are before it.
<1>3. ASSUME NEW b \in Left(n), NEW c \in Left(n), b < c
      PROVE  rank(b) < rank(c)
  <2>1. b \in Nat /\ c \in Nat
    BY <1>1, <1>3
  <2>2. Below(n, b) \in SUBSET Below(n, c)
    BY <1>1, <1>3, <2>1 DEF Below
  <2>3. b \in Below(n, c) /\ b \notin Below(n, b)
    BY <1>3, <2>1 DEF Below
  <2>4. rank(b) <= rank(c) /\ (rank(c) = rank(b) => Below(n, c) = Below(n, b))
    BY <1>1, <1>3, <2>2, FS_Subset
  <2> QED BY <1>1, <1>3, <2>3, <2>4
<1> HIDE DEF rank
\* The bar with the most before it is the newest.
<1>4. \E m \in Page(n) : \A c \in Page(n) : c <= m
  <2> DEFINE T == {PageSize - rank(b) : b \in Page(n)}
  <2>1. T \in SUBSET Nat /\ T # {}
    BY <1>1, <1>2
  <2>2. PICK k \in T : \A l \in T : k <= l
    BY <2>1, LeastOf
  <2>3. PICK m \in Page(n) : k = PageSize - rank(m)
    BY <2>2
  <2>4. ASSUME NEW c \in Page(n) PROVE c <= m
    <3>1. /\ m \in Left(n) /\ c \in Left(n) /\ m \in Nat /\ c \in Nat
          /\ rank(m) \in Nat /\ rank(c) \in Nat
      BY <1>1, <2>3, <2>4
    <3>2. k <= PageSize - rank(c)
      BY <2>2, <2>4
    <3>3. rank(c) <= rank(m)
      BY <1>2, <2>3, <3>1, <3>2
    <3>4. ~(m < c)
      BY <1>3, <3>1, <3>3
    <3> QED BY <3>1, <3>4
  <2> QED BY <2>3, <2>4
<1> DEFINE top == Newest(Page(n))
<1>5. top \in Page(n) /\ \A c \in Page(n) : c <= top
  BY <1>4 DEF Newest
<1> HIDE DEF top
<1>6. top \in Left(n) /\ top \in Nat /\ n <= top /\ rank(top) < PageSize
  BY <1>1, <1>5 DEF Left
<1>7. ASSUME NEW b \in Left(n), b <= top PROVE b \in Page(n)
  <2>1. b \in Nat /\ rank(b) \in Nat /\ rank(top) \in Nat
    BY <1>1, <1>6, <1>7
  <2>2. rank(b) <= rank(top)
    BY <1>3, <1>6, <1>7, <2>1
  <2> QED BY <1>1, <1>2, <1>6, <1>7, <2>1, <2>2
<1>8. ASSUME Left(top + 1) # {} PROVE n + PageSize <= top + 1
  <2>1. Left(top + 1) \in SUBSET Nat
    BY ChartsAssumption DEF Left
  <2>2. PICK x \in Left(top + 1) : \A y \in Left(top + 1) : x <= y
    BY <1>8, <2>1, LeastOf
  <2>3. x \in Nat /\ top < x /\ x \in Left(n)
    BY <1>6, <2>1, <2>2 DEF Left
  <2>4. ~(rank(x) < PageSize)
    BY <1>1, <1>5, <1>6, <2>3
  <2>5. Below(n, x) \in SUBSET (n .. top)
    <3>1. ASSUME NEW c \in Below(n, x) PROVE c \in n .. top
      <4>1. c \in Nat /\ n <= c /\ c < x /\ c \in Listed
        BY <1>1, <3>1 DEF Below, Left
      <4>2. c \notin Left(top + 1)
        BY <2>2, <2>3, <4>1
      <4> QED BY <1>6, <4>1, <4>2 DEF Left
    <3> QED BY <3>1
  <2>6. IsFiniteSet(n .. top) /\ Cardinality(n .. top) = top - n + 1
    BY <1>6, FS_Interval
  <2>7. rank(x) <= top - n + 1
    BY <2>5, <2>6, FS_Subset DEF rank
  <2> QED BY <1>1, <1>2, <1>6, <2>3, <2>4, <2>7
<1> QED BY <1>5, <1>6, <1>7, <1>8 DEF top

\* The records a page leaves behind.
LEMMA NewRecords ==
    ASSUME NEW w \in WalkRecords, NEW e \in 0 .. 2, NEW S \in SUBSET Nat,
           NEW n \in Nat, NEW p \in Nat
    PROVE  /\ [w EXCEPT !.empty = e, !.bars = S, !.since = n, !.pages = p] \in WalkRecords
           /\ [w EXCEPT !.empty = e, !.lost = S, !.since = n, !.pages = p] \in WalkRecords
<1>1. [w EXCEPT !.empty = e] \in WalkRecords
  BY DEF WalkRecords
<1>2. \A v \in WalkRecords : /\ [v EXCEPT !.bars = S] \in WalkRecords
                             /\ [v EXCEPT !.lost = S] \in WalkRecords
  BY DEF WalkRecords
<1>3. \A v \in WalkRecords : /\ [v EXCEPT !.since = n] \in WalkRecords
                             /\ [v EXCEPT !.pages = p] \in WalkRecords
  BY DEF WalkRecords
<1> QED BY <1>1, <1>2, <1>3

\* A page that is there takes the walk past all it holds.
LEMMA ArrivesStep ==
    ASSUME Gathered, NEW r \in Walkers, PageArrives(r)
    PROVE  walk' \in [Walkers -> WalkRecords] /\ Walked(walk'[r])
<1> DEFINE w == walk[r]
           top == Newest(Page(w.since))
           v == [w EXCEPT !.empty = 0,
                          !.bars = @ \cup (Page(w.since) \cap First .. End),
                          !.since = top + 1,
                          !.pages = w.pages + 1]
<1>1. w \in WalkRecords /\ Walked(w) /\ More(w) /\ Page(w.since) # {}
  BY DEF Gathered, PageArrives, Walks
<1>2. walk' = [walk EXCEPT ![r] = v]
  BY DEF PageArrives, Walks
<1>3. w.since \in Nat /\ w.pages \in Nat /\ w.bars \subseteq Nat /\ w.lost \subseteq Nat
  BY <1>1 DEF WalkRecords
<1>4. /\ v.since = top + 1 /\ v.empty = 0 /\ v.pages = w.pages + 1 /\ v.lost = w.lost
      /\ v.bars = w.bars \cup (Page(w.since) \cap First .. End)
  BY <1>1 DEF WalkRecords
<1>5. /\ top \in Nat /\ w.since <= top
      /\ \A b \in Left(w.since) : b <= top => b \in Page(w.since)
      /\ Left(top + 1) = {} \/ w.since + PageSize <= top + 1
  BY <1>1, <1>3, PageReaches
<1>6. v \in WalkRecords
  <2>1. v.bars \subseteq Nat
    BY <1>3, <1>4, PageCounts
  <2>2. v.bars \in SUBSET Nat /\ top + 1 \in Nat /\ w.pages + 1 \in Nat
    BY <1>3, <1>5, <2>1
  <2>3. w.bars \cup (Page(w.since) \cap First .. End) \in SUBSET Nat
    BY <1>4, <2>2
  <2>4. w \in WalkRecords /\ 0 \in 0 .. 2
    BY <1>1
  <2> HIDE DEF w, top
  <2> QED BY <2>2, <2>3, <2>4, NewRecords, Zenon
<1> HIDE DEF v, top
<1>7. ASSUME NEW b \in Wanted, b < v.since
      PROVE  \/ b \in v.bars
             \/ \E s \in v.lost : s <= b /\ b < s + PageSize
  <2>1. b \in Nat /\ b \in Listed /\ b \in First .. End
    BY <1>7, ChartsAssumption DEF Wanted
  <2>2. CASE b < w.since
    BY <1>1, <1>4, <2>2 DEF Walked
  <2>3. CASE ~(b < w.since)
    BY <1>3, <1>4, <1>5, <1>7, <2>1, <2>3 DEF Left
  <2> QED BY <2>2, <2>3
<1>8. Left(v.since) = {} \/ First + v.pages * PageSize <= v.since
  <2>1. Left(w.since) # {}
    BY <1>1, <1>3, PageCounts
  <2>2. w.empty \in 0 .. 2 /\ w.empty < 2
    BY <1>1 DEF More, WalkRecords
  <2>3. CASE First + w.pages * PageSize <= w.since
    <3>1. (w.pages + 1) * PageSize = w.pages * PageSize + PageSize
      BY <1>3, ChartsAssumption
    <3>2. w.pages * PageSize \in Nat /\ PageSize \in Nat /\ First \in Nat
      BY <1>3, ChartsAssumption
    <3> QED BY <1>3, <1>4, <1>5, <2>3, <3>1, <3>2
  <2> QED BY <1>1, <2>1, <2>2, <2>3 DEF Walked
<1>9. Walked(v)
  BY <1>4, <1>7, <1>8 DEF Walked
<1> QED BY <1>2, <1>6, <1>9 DEF Gathered

\* An empty page is tried again a page's length on, and then ends the walk.
LEMMA EmptyStep ==
    ASSUME Gathered, NEW r \in Walkers, PageEmpty(r)
    PROVE  walk' \in [Walkers -> WalkRecords] /\ Walked(walk'[r])
<1> DEFINE w == walk[r]
           v == [w EXCEPT !.empty = @ + 1,
                          !.lost = IF Page(w.since) = {} THEN @ ELSE @ \cup {w.since},
                          !.since = IF w.empty = 0 THEN @ + PageSize ELSE @,
                          !.pages = w.pages + 1]
<1>1. w \in WalkRecords /\ Walked(w) /\ More(w)
  BY DEF Gathered, PageEmpty, Walks
<1>2. walk' = [walk EXCEPT ![r] = v]
  BY DEF PageEmpty, Walks
<1>3. /\ w.since \in Nat /\ w.pages \in Nat /\ w.bars \subseteq Nat /\ w.lost \subseteq Nat
      /\ w.empty \in {0, 1}
  BY <1>1 DEF WalkRecords, More
<1>4. /\ v.since = (IF w.empty = 0 THEN w.since + PageSize ELSE w.since)
      /\ v.empty = w.empty + 1 /\ v.pages = w.pages + 1 /\ v.bars = w.bars
      /\ v.lost = IF Page(w.since) = {} THEN w.lost ELSE w.lost \cup {w.since}
  BY <1>1 DEF WalkRecords
<1>5. PageSize \in Nat /\ First \in Nat
  BY ChartsAssumption
<1>6. v \in WalkRecords
  <2> DEFINE lost == IF Page(w.since) = {} THEN w.lost ELSE w.lost \cup {w.since}
             since == IF w.empty = 0 THEN w.since + PageSize ELSE w.since
  <2>1. /\ w.empty + 1 \in 0 .. 2 /\ lost \in SUBSET Nat /\ since \in Nat
        /\ w.pages + 1 \in Nat
    BY <1>3, <1>5
  <2>2. v = [w EXCEPT !.empty = w.empty + 1, !.lost = lost, !.since = since,
                      !.pages = w.pages + 1]
    BY <1>1 DEF WalkRecords
  <2>3. w \in WalkRecords
    BY <1>1
  <2> HIDE DEF v, w, lost, since
  <2> QED BY <2>1, <2>2, <2>3, NewRecords, Zenon
<1> HIDE DEF v
<1>7. Tried(v, w.since) /\ w.lost \subseteq v.lost
  BY <1>3, <1>4, PageOfLeft DEF Tried
<1>8. ASSUME NEW b \in Wanted, b < v.since
      PROVE  \/ b \in v.bars
             \/ \E s \in v.lost : s <= b /\ b < s + PageSize
  <2>1. b \in Nat /\ b \in Listed
    BY <1>8, ChartsAssumption DEF Wanted
  <2>2. CASE b < w.since
    BY <1>1, <1>4, <1>7, <2>2 DEF Walked
  <2>3. CASE ~(b < w.since)
    <3>1. b \in Left(w.since) /\ b < w.since + PageSize
      BY <1>3, <1>4, <1>5, <1>8, <2>1, <2>3 DEF Left
    <3> QED BY <1>3, <1>7, <2>1, <2>3, <3>1 DEF Tried
  <2> QED BY <2>2, <2>3
<1>9. CASE w.empty = 0
  <2>1. v.since - PageSize = w.since /\ v.empty = 1
    BY <1>3, <1>4, <1>5, <1>9
  <2>2. Left(v.since) = {} \/ First + v.pages * PageSize <= v.since
    <3>1. CASE Left(w.since) = {}
      BY <1>3, <1>4, <1>5, <1>9, <3>1, ChartsAssumption DEF Left
    <3>2. CASE First + w.pages * PageSize <= w.since
      <4>1. (w.pages + 1) * PageSize = w.pages * PageSize + PageSize
        BY <1>3, <1>5
      <4>2. w.pages * PageSize \in Nat
        BY <1>3, <1>5
      <4> QED BY <1>3, <1>4, <1>5, <1>9, <3>2, <4>1, <4>2
    <3> QED BY <1>1, <1>9, <3>1, <3>2 DEF Walked
  <2>3. Walked(v)
    BY <1>7, <1>8, <2>1, <2>2 DEF Walked
  <2> QED BY <1>2, <1>6, <2>3 DEF Gathered
<1>10. CASE w.empty = 1
  <2>1. v.since = w.since /\ v.empty = 2
    BY <1>4, <1>10
  <2>2. Tried(v, v.since - PageSize)
    BY <1>1, <1>7, <1>10, <2>1 DEF Walked, Tried
  <2>3. Walked(v)
    BY <1>7, <1>8, <2>1, <2>2 DEF Walked
  <2> QED BY <1>2, <1>6, <2>3 DEF Gathered
<1> QED BY <1>3, <1>9, <1>10

\* Every step keeps what is known of the walks.
LEMMA GatheredStep == ChartsTypeOK /\ Gathered /\ [ChartsNext]_chartsVars => Gathered'
<1> SUFFICES ASSUME ChartsTypeOK, Gathered, [ChartsNext]_chartsVars PROVE Gathered'
  OBVIOUS
<1> USE DEF breaker, breakerVars, locals
<1>1. CASE UNCHANGED chartsVars \/ ClockTicks
  BY <1>1 DEF Gathered, chartsVars, ClockTicks
<1>2. ASSUME walk' = walk, \A t \in Walkers : pc'[t] = "walk" => pc[t] = "walk"
      PROVE  Gathered'
  BY <1>2 DEF Gathered
<1>3. ASSUME NEW r \in Threads, Ticker(r) \/ Chart(r) PROVE Gathered'
  <2>1. CASE Ticker(r)
    <3>1. walk' = walk /\ \/ pc' = pc
                          \/ \E p : p # "walk" /\ pc' = [pc EXCEPT ![r] = p]
      BY <2>1 DEF Ticker, TickerHit, TickerMiss, PriceAsks, TakesLock, TickerAnswers,
           TickerStores, PriceReplies, FetchFails, Gone, To
    <3> QED BY <1>2, <3>1, ChartsAssumption DEF ChartsTypeOK
  <2>2. CASE ChartHit(r) \/ ChartMiss(r) \/ ChartEnds(r)
    <3>1. walk' = walk /\ \/ pc' = pc
                          \/ \E p : p # "walk" /\ pc' = [pc EXCEPT ![r] = p]
      BY <2>2 DEF ChartHit, ChartMiss, ChartEnds, Gone, To
    <3> QED BY <1>2, <3>1, ChartsAssumption DEF ChartsTypeOK
  <2>3. CASE ChartCalls(r)
    BY <1>2, <2>3, Inside, ChartsAssumption DEF ChartsTypeOK, Asking
  <2> QED BY <1>3, <2>1, <2>2, <2>3 DEF Chart
<1>4. ASSUME NEW r \in Threads, Candles(r) PROVE Gathered'
  <2>1. CASE CandlesHit(r)
    BY <1>2, <2>1 DEF CandlesHit
  <2>2. CASE CandlesMiss(r)
    <3> DEFINE v == [NoWalk EXCEPT !.since = First]
    <3>1. /\ walk' = [walk EXCEPT ![r] = v] /\ r \in Walkers
          /\ pc' = [pc EXCEPT ![r] = "walk"]
      BY <2>2 DEF CandlesMiss, To
    <3>2. v = [since |-> First, empty |-> 0, pages |-> 0, bars |-> {}, lost |-> {}]
      BY DEF NoWalk
    <3> HIDE DEF v
    <3>3. v \in WalkRecords
      BY <3>2, ChartsAssumption DEF WalkRecords
    <3>4. v.since = First /\ v.empty = 0 /\ v.pages * PageSize = 0
      BY <3>2, ChartsAssumption
    <3>5. \A b \in Wanted : ~(b < v.since)
      BY <3>4, ChartsAssumption DEF Wanted
    <3>6. First + v.pages * PageSize <= v.since
      BY <3>4, ChartsAssumption
    <3>7. Walked(v)
      BY <3>4, <3>5, <3>6 DEF Walked
    <3> QED BY <3>1, <3>3, <3>7 DEF Gathered, ChartsTypeOK
  <2> QED BY <1>4, <2>1, <2>2 DEF Candles
<1>5. ASSUME NEW r \in Walkers, Walk(r) PROVE Gathered'
  <2>1. CASE PageArrives(r) \/ PageEmpty(r)
    <3>1. pc' = pc /\ \A t \in Walkers \ {r} : walk'[t] = walk[t]
      BY <2>1 DEF PageArrives, PageEmpty, Walks, Gathered
    <3>2. walk' \in [Walkers -> WalkRecords] /\ Walked(walk'[r])
      BY <2>1, ArrivesStep, EmptyStep
    <3> QED BY <3>1, <3>2 DEF Gathered
  <2>2. CASE CandlesEnds(r)
    <3>1. NoWalk \in WalkRecords
      BY DEF NoWalk, WalkRecords
    <3>2. walk' = [walk EXCEPT ![r] = NoWalk] /\ pc' = [pc EXCEPT ![r] = "idle"]
      BY <2>2 DEF CandlesEnds, Gone
    <3> QED BY <3>1, <3>2, ChartsAssumption DEF Gathered, ChartsTypeOK
  <2> QED BY <1>5, <2>1, <2>2 DEF Walk
<1> QED BY <1>1, <1>3, <1>4, <1>5 DEF ChartsNext

\* A finished walk misses no more than the pages it has given up
\* (_fetch_ohlcv_range, _fetch_ohlcv_page_with_retry).
THEOREM WalksMissLittle == ChartsSpec => []OneBadPage
<1>1. ChartsInit => Gathered
  <2>1. NoWalk \in WalkRecords
    BY DEF NoWalk, WalkRecords
  <2> QED BY <2>1, ChartsAssumption DEF ChartsInit, BreakerInit, Gathered
<1>2. ChartsInv /\ Gathered /\ [ChartsNext]_chartsVars => Gathered'
  BY GatheredStep DEF ChartsInv
<1>3. Gathered => OneBadPage
  <2> SUFFICES ASSUME Gathered, NEW r \in Walkers, pc[r] = "walk", ~More(walk[r]),
                      \A b \in walk[r].lost : b + PageSize \notin walk[r].lost,
                      NEW b \in Wanted \ walk[r].bars
               PROVE  \E s \in walk[r].lost : s <= b /\ b < s + PageSize
    BY DEF OneBadPage
  <2> DEFINE w == walk[r]
  <2>1. w \in WalkRecords /\ Walked(w)
    BY DEF Gathered
  <2>2. /\ w.since \in Nat /\ w.empty \in 0 .. 2 /\ w.pages \in Nat /\ w.lost \subseteq Nat
        /\ First \in Nat /\ End \in Nat /\ Present \in Nat /\ PageSize \in Nat
        /\ MaxPages \in Nat /\ End - First <= MaxPages * PageSize
    BY <2>1, ChartsAssumption DEF WalkRecords
  <2>3. b \in Nat /\ b \in Listed /\ b < End /\ b < Present
    BY ChartsAssumption DEF Wanted
  <2>4. CASE b < w.since
    BY <2>1, <2>4 DEF Walked
  <2>5. CASE ~(b < w.since)
    <3>1. b \in Left(w.since)
      BY <2>2, <2>3, <2>5 DEF Left
    <3>2. w.since < End /\ w.since < Present
      BY <2>2, <2>3, <2>5
    <3>3. CASE w.empty = 2
      <4>1. w.since \in w.lost
        BY <2>1, <3>1, <3>3 DEF Walked, Tried
      <4>2. Left(w.since - PageSize) # {}
        BY <2>2, <2>3, <2>5 DEF Left
      <4>3. w.since - PageSize \in w.lost
        BY <2>1, <3>3, <4>2 DEF Walked, Tried
      <4>4. (w.since - PageSize) + PageSize = w.since
        BY <2>2
      <4> QED BY <4>1, <4>3, <4>4
    <3>4. CASE w.empty < 2
      <4>1. w.pages >= MaxPages
        BY <2>2, <3>2, <3>4 DEF More
      <4>2. First + w.pages * PageSize <= w.since
        BY <2>1, <3>1, <3>4 DEF Walked
      <4>3. MaxPages * PageSize <= w.pages * PageSize
        BY <2>2, <4>1
      <4>4. MaxPages * PageSize \in Nat /\ w.pages * PageSize \in Nat
        BY <2>2
      <4> QED BY <2>2, <3>2, <4>2, <4>3, <4>4
    <3> QED BY <2>2, <3>3, <3>4
  <2> QED BY <2>4, <2>5
<1> QED BY <1>1, <1>2, <1>3, ChartsInvariance, PTL DEF ChartsSpec
=============================================================================
