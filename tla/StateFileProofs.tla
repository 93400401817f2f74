-------------------------- MODULE StateFileProofs --------------------------
(***************************************************************************)
(* Proofs about the writes of state.json (StateFile), for any closers,     *)
(* editors, inodes and versions and under every kill: its types, and that  *)
(* it is the atomic file of AtomicFile as long as no two writes overlap,   *)
(* which they never do while nobody edits the file without the lock.       *)
(***************************************************************************)
EXTENDS StateFile, TLAPS

-----------------------------------------------------------------------------
\* The inductive invariant.

\* The tmp name never leads to the inode of state.json.
Apart == entry["tmp"] # NoFile => entry["tmp"] # entry["state"]

\* Who may be in a write: the engine that runs, the holder of the lock while
\* none runs, and an editor where there are edits.
Turns ==
    /\ engine = "down" => pc[Engine] = "idle"
    /\ \A c \in Closers : pc[c] # "idle" <=> lock = c
    /\ lock # "free" => engine = "down"
    /\ ~edits => \A e \in Editors : pc[e] = "idle"

\* No two writers are in a write, from their read to their replace.
Alone == \A v, w \in Writers : pc[v] # "idle" /\ pc[w] # "idle" => v = w

\* The deals of a version would be no older than those in state.json.
Newer(v) == entry["state"] # NoFile => data[entry["state"]].deals <= v

\* Where a write has got to: its text is no older than state.json, and is going
\* into a file that is not state.json and that nobody else writes.  The file
\* may have lost its name to the sweep of a portal restart.
Underway(w) ==
    /\ pc[w] \in {"read", "opened"} => Newer(text[w].deals)
    /\ pc[w] = "opened" => /\ fd[w] # entry["state"] /\ data[fd[w]] = Torn
                           /\ entry["tmp"] \in {NoFile, fd[w]}
    /\ pc[w] = "filled" /\ entry["tmp"] # NoFile =>
           data[entry["tmp"]] \in Snapshots /\ Newer(data[entry["tmp"]].deals)

\* What a writer is about to put into state.json is no newer than a version.
Within(w, v) ==
    /\ pc[w] \in {"read", "opened"} => text[w].deals <= v
    /\ pc[w] = "filled" /\ entry["tmp"] # NoFile => data[entry["tmp"]].deals <= v

\* What the engine has in memory is no older than state.json or what it writes.
Remembers == engine # "down" => Newer(mem) /\ Within(Engine, mem)

\* An editor brings no deals of its own.
Echoes(e) ==
    pc[e] # "idle" => entry["state"] # NoFile /\ Within(e, data[entry["state"]].deals)

Whole == entry["state"] # NoFile => data[entry["state"]] \in Snapshots

\* The deals are safe: in state.json, in memory and on their way.
Sound == /\ Whole
         /\ Remembers
         /\ \A w \in Writers : Underway(w)
         /\ \A e \in Editors : Echoes(e)

\* What holds of every write, also of those that overlap.
Base == TypeOK /\ Apart /\ Turns

FInv == Base /\ (~edits => Sound)

-----------------------------------------------------------------------------
\* Types.

\* What is read, cut or begun is a snapshot.
LEMMA SnapshotFacts ==
    /\ 0 \in Versions /\ Blank \in Snapshots /\ Torn \notin Snapshots
    /\ NoFile \notin Snapshots
    /\ \A s \in Snapshots : s.deals \in Versions /\ s.running \in BOOLEAN
    /\ \A s \in Snapshots, r \in BOOLEAN : /\ [s EXCEPT !.running = r] \in Snapshots
                                           /\ [s EXCEPT !.running = r].deals = s.deals
    /\ \A v \in Versions, r \in BOOLEAN : [deals |-> v, running |-> r] \in Snapshots
  BY ConstantsAssumption DEF Versions, Snapshots, Blank, Torn

\* open(tmp, "w").
LEMMA OpensTypes ==
    ASSUME TypeOK, NEW w \in Writers, NEW s \in Snapshots, Opens(w, s)
    PROVE  /\ entry' \in [{"state", "tmp"} -> Inodes \cup {NoFile}]
           /\ data' \in [Inodes -> Snapshots \cup {Torn}]
           /\ pc' \in [Writers -> {"idle", "read", "opened", "filled"}]
           /\ text' \in [Writers -> Snapshots]
           /\ fd' \in [Writers -> Inodes \cup {NoFile}]
           /\ \A x \in Writers : fd'[x] # NoFile <=> pc'[x] = "opened"
  BY ConstantsAssumption DEF TypeOK, Opens, Goes

\* Every step keeps the types.
LEMMA TypeStep == TypeOK /\ [Next]_vars => TypeOK'
<1> SUFFICES ASSUME TypeOK, [Next]_vars PROVE TypeOK'
  OBVIOUS
<1> Engine \in Writers /\ Closers \cup Editors \subseteq Writers
  BY DEF Writers
<1>1. CASE UNCHANGED vars
  BY <1>1 DEF vars, TypeOK
<1>2. CASE Loads
  BY <1>2, SnapshotFacts DEF Loads, Readable, TypeOK
<1>3. CASE TickWrites
  <2>1. PICK v \in Versions : mem' = v /\ Opens(Engine, [deals |-> v, running |-> TRUE])
    BY <1>3 DEF TickWrites
  <2>2. [deals |-> v, running |-> TRUE] \in Snapshots
    BY SnapshotFacts
  <2> QED BY <1>3, <2>1, <2>2, OpensTypes DEF TickWrites, TypeOK
<1>4. ASSUME NEW w \in Writers, Fills(w) PROVE TypeOK'
  <2>1. data' \in [Inodes -> Snapshots \cup {Torn}]
    BY <1>4 DEF Fills, TypeOK
  <2> QED BY <1>4, <2>1, SnapshotFacts DEF Fills, Goes, TypeOK
<1>5. CASE EngineReplaces
  BY <1>5, SnapshotFacts DEF EngineReplaces, Replaces, Goes, TypeOK
<1>6. ASSUME Dies, UNCHANGED <<entry, data, lock, edits>> PROVE TypeOK'
  BY <1>6, SnapshotFacts DEF Dies, Goes, TypeOK
<1>7. CASE Stops
  <2>1. CASE Readable \/ State = NoFile
    <3> DEFINE s == [deals |-> IF Readable THEN State.deals ELSE 0, running |-> FALSE]
    <3>1. s \in Snapshots /\ Opens(Engine, s) /\ engine' = "stopping"
          /\ UNCHANGED <<mem, lock, edits>>
      BY <1>7, <2>1, SnapshotFacts DEF Stops, Readable
    <3> HIDE DEF s
    <3> QED BY <3>1, OpensTypes DEF TypeOK
  <2> QED BY <1>6, <1>7, <2>1 DEF Stops
<1>8. CASE EngineKilled
  BY <1>6, <1>8 DEF EngineKilled
<1>9. CASE PortalRestarts
  BY <1>9, SnapshotFacts DEF PortalRestarts, TypeOK
<1>10. ASSUME NEW c \in Closers, CloserBegins(c) PROVE TypeOK'
  <2>1. PICK v \in Versions : text' = [text EXCEPT ![c].deals = v]
    BY <1>10 DEF CloserBegins
  <2>2. [text[c] EXCEPT !.deals = v] \in Snapshots
    BY DEF TypeOK, Snapshots
  <2>3. text' \in [Writers -> Snapshots]
    BY <2>1, <2>2 DEF TypeOK
  <2> QED BY <1>10, <2>3 DEF CloserBegins, Goes, TypeOK
<1>11. ASSUME NEW e \in Editors, EditorReads(e) PROVE TypeOK'
  <2>1. PICK r \in {FALSE, State.running} : text' = [text EXCEPT ![e] = [State EXCEPT !.running = r]]
    BY <1>11 DEF EditorReads
  <2>2. [State EXCEPT !.running = r] \in Snapshots
    BY <1>11, SnapshotFacts DEF EditorReads, Readable
  <2> QED BY <1>11, <2>1, <2>2 DEF EditorReads, Goes, TypeOK
<1>12. ASSUME NEW e \in Editors, EditorOpens(e) PROVE TypeOK'
  <2>1. text[e] \in Snapshots
    BY DEF TypeOK
  <2> QED BY <1>12, <2>1, OpensTypes DEF EditorOpens, TypeOK
<1>13. ASSUME NEW c \in Closers, CloserOpens(c) PROVE TypeOK'
  <2> DEFINE r == Readable /\ State.running
  <2>1. r \in BOOLEAN
    BY Zenon
  <2>2. Opens(c, [text[c] EXCEPT !.running = r]) /\ UNCHANGED <<engine, mem, lock, edits>>
    BY <1>13 DEF CloserOpens
  <2>3. text[c] \in Snapshots
    BY DEF TypeOK
  <2> HIDE DEF r
  <2>4. [text[c] EXCEPT !.running = r] \in Snapshots
    BY <2>1, <2>3, SnapshotFacts
  <2> QED BY <2>2, <2>4, OpensTypes DEF TypeOK
<1>14. ASSUME NEW w \in Closers \cup Editors, PortalReplaces(w) PROVE TypeOK'
  BY <1>14 DEF PortalReplaces, Replaces, Goes, TypeOK
<1> QED BY <1>1, <1>2, <1>3, <1>4, <1>5, <1>7, <1>8, <1>9, <1>10, <1>11, <1>12, <1>13, <1>14
        DEF Next, EngineStep, Portal

\* Every step keeps the tmp file apart from state.json.
LEMMA ApartStep == TypeOK /\ Apart /\ [Next]_vars => Apart'
<1> SUFFICES ASSUME TypeOK, Apart, [Next]_vars PROVE Apart'
  OBVIOUS
<1>1. ASSUME NEW w \in Writers, NEW s, Opens(w, s) PROVE Apart'
  <2>1. PICK i \in Inodes : /\ IF entry["tmp"] = NoFile THEN Unused(i) ELSE i = entry["tmp"]
                            /\ entry' = [entry EXCEPT !["tmp"] = i]
    BY <1>1 DEF Opens
  <2>2. entry'["tmp"] = i /\ entry'["state"] = entry["state"]
    BY <2>1 DEF TypeOK
  <2>3. i # entry["state"]
    BY <2>1 DEF Unused, Apart
  <2> QED BY <2>2, <2>3 DEF Apart
<1>2. CASE UNCHANGED entry
  BY <1>2 DEF Apart
<1>3. CASE Replaces
  BY <1>2, <1>3 DEF Replaces, Apart
<1>4. CASE PortalRestarts
  BY <1>4 DEF PortalRestarts, Apart, TypeOK
<1> Engine \in Writers /\ Closers \cup Editors \subseteq Writers
  BY DEF Writers
<1> QED BY <1>1, <1>2, <1>3, <1>4
        DEF Next, EngineStep, Loads, TickWrites, Fills, EngineReplaces, Stops, EngineKilled,
            CloserBegins, EditorReads, Portal, EditorOpens, CloserOpens, PortalReplaces, vars

-----------------------------------------------------------------------------
\* Turns.

\* The writers are told apart, and "free" is none of them.
LEMMA WritersApart ==
    /\ Engine \notin Closers /\ Engine \notin Editors /\ Closers \cap Editors = {}
    /\ "free" \notin Closers
    /\ Engine \in Writers /\ Closers \cup Editors \subseteq Writers
  BY ConstantsAssumption DEF Writers

\* Every step keeps the turns of the writers.
LEMMA TurnsStep == TypeOK /\ Turns /\ [Next]_vars => Turns'
<1> SUFFICES ASSUME TypeOK, Turns, [Next]_vars PROVE Turns'
  OBVIOUS
<1> USE WritersApart DEF Turns, TypeOK
<1>1. ASSUME UNCHANGED <<engine, pc, lock, edits>> PROVE Turns'
  BY <1>1
\* A writer already in its write goes on.
<1>2. ASSUME NEW w \in Writers, NEW q \in {"opened", "filled"}, Goes(w, q),
             IF w = Engine THEN engine # "down" /\ engine' # "down"
                           ELSE pc[w] # "idle" /\ engine' = engine,
             UNCHANGED <<lock, edits>>
      PROVE  Turns'
  BY <1>2 DEF Goes, Writers
<1>3. CASE Loads
  BY <1>3 DEF Loads
<1>4. CASE TickWrites
  BY <1>2, <1>4 DEF TickWrites, Opens
<1>5. ASSUME NEW w \in Writers, Fills(w) PROVE Turns'
  <2>1. pc[w] = "opened" /\ Goes(w, "filled") /\ UNCHANGED <<engine, lock, edits>>
    BY <1>5 DEF Fills
  <2>2. w = Engine => engine # "down"
    BY <2>1
  <2> QED BY <1>2, <2>1, <2>2
<1>6. CASE EngineReplaces
  BY <1>6 DEF EngineReplaces, Goes
<1>7. ASSUME Dies, UNCHANGED <<lock, edits>> PROVE Turns'
  BY <1>7 DEF Dies, Goes
<1>8. CASE Stops
  <2>1. CASE Readable \/ State = NoFile
    <3>1. Goes(Engine, "opened") /\ engine = "up" /\ engine' = "stopping" /\ UNCHANGED <<lock, edits>>
      BY <1>8, <2>1 DEF Stops, Opens
    <3> QED BY <1>2, <3>1
  <2> QED BY <1>7, <1>8, <2>1 DEF Stops
<1>9. CASE EngineKilled
  BY <1>7, <1>9 DEF EngineKilled
<1>10. CASE PortalRestarts
  BY <1>10 DEF PortalRestarts
<1>11. ASSUME NEW c \in Closers, CloserBegins(c) PROVE Turns'
  BY <1>11 DEF CloserBegins, Goes
<1>12. ASSUME NEW e \in Editors, EditorReads(e) PROVE Turns'
  BY <1>12 DEF EditorReads, Goes
<1>13. ASSUME NEW e \in Editors, EditorOpens(e) PROVE Turns'
  BY <1>2, <1>13 DEF EditorOpens, Opens
<1>14. ASSUME NEW c \in Closers, CloserOpens(c) PROVE Turns'
  BY <1>2, <1>14 DEF CloserOpens, Opens
<1>15. ASSUME NEW w \in Closers \cup Editors, PortalReplaces(w) PROVE Turns'
  BY <1>15 DEF PortalReplaces, Goes
<1> QED BY <1>1, <1>3, <1>4, <1>5, <1>6, <1>8, <1>9, <1>10, <1>11, <1>12, <1>13, <1>14, <1>15
        DEF Next, EngineStep, Portal, vars

\* Without edits there is one writer at a time.
LEMMA OneAtATime ==
    /\ Base /\ ~edits => Alone
    /\ Base' /\ ~edits' => Alone'
  BY WritersApart DEF Base, TypeOK, Turns, Writers, Alone

-----------------------------------------------------------------------------
\* Versions.

\* Whether the file is edited at all does not change.
LEMMA EditsStay == [Next]_vars => UNCHANGED edits
  BY DEF Next, EngineStep, Portal, Loads, TickWrites, Fills, EngineReplaces, Stops,
     EngineKilled, PortalRestarts, CloserBegins, EditorReads, EditorOpens, CloserOpens,
     PortalReplaces, vars

\* Nobody but w is in a write.
Only(w) == \A x \in Writers : pc[x] # "idle" => x = w

\* One writer is alone in its write, also the one that is about to begin.
LEMMA AloneOnly ==
    ASSUME TypeOK, NEW w \in Writers
    PROVE  /\ Alone /\ pc[w] # "idle" => Only(w)
           /\ \A p \in {"read", "opened"} : Alone' /\ Goes(w, p) => Only(w)
<1>1. Alone /\ pc[w] # "idle" => Only(w)
  BY DEF Alone, Only
<1>2. ASSUME NEW p \in {"read", "opened"}, Alone', Goes(w, p), NEW x \in Writers, pc[x] # "idle"
      PROVE  x = w
  <2>1. pc'[w] # "idle" /\ (x # w => pc'[x] = pc[x])
    BY <1>2 DEF Goes, TypeOK
  <2> QED BY <1>2, <2>1 DEF Alone
<1> QED BY <1>1, <1>2 DEF Only

\* open(tmp, "w") by the one writer there is.
LEMMA OpensSound ==
    ASSUME Base, Sound, TypeOK', NEW w \in Writers, Only(w),
           NEW s \in Snapshots, Newer(s.deals), Opens(w, s),
           engine' # "down" => Newer(mem'),
           w = Engine => s.deals <= mem',
           w \in Editors => entry["state"] # NoFile /\ s.deals <= data[entry["state"]].deals
    PROVE  Sound'
<1>1. PICK i \in Inodes : /\ IF entry["tmp"] = NoFile THEN Unused(i) ELSE i = entry["tmp"]
                          /\ entry' = [entry EXCEPT !["tmp"] = i]
                          /\ data' = [data EXCEPT ![i] = Torn]
                          /\ fd' = [fd EXCEPT ![w] = i]
  BY DEF Opens
<1>2. pc' = [pc EXCEPT ![w] = "opened"] /\ text' = [text EXCEPT ![w] = s]
  BY DEF Opens, Goes
<1>3. i # entry["state"]
  BY <1>1 DEF Unused, Base, Apart
<1>4. /\ entry'["state"] = entry["state"] /\ entry'["tmp"] = i
      /\ fd'[w] = i /\ data'[i] = Torn /\ text'[w] = s /\ pc'[w] = "opened"
      /\ entry["state"] # NoFile => data'[entry["state"]] = data[entry["state"]]
  BY <1>1, <1>2, <1>3 DEF Base, TypeOK
<1>5. \A x \in Writers : x # w => pc'[x] = "idle"
  BY <1>2 DEF Only, Base, TypeOK
<1>6. Whole'
  BY <1>4 DEF Sound, Whole
<1>7. Remembers'
  <2> SUFFICES ASSUME engine' # "down" PROVE Newer(mem)' /\ Within(Engine, mem)'
    BY DEF Remembers
  <2>1. Newer(mem)'
    BY <1>4 DEF Newer
  <2>2. Within(Engine, mem)'
    BY <1>4, <1>5, WritersApart DEF Within
  <2> QED BY <2>1, <2>2
<1>8. ASSUME NEW x \in Writers PROVE Underway(x)'
  <2>1. CASE x = w
    BY <1>3, <1>4, <2>1 DEF Underway, Newer
  <2>2. CASE x # w
    BY <1>5, <2>2 DEF Underway
  <2> QED BY <2>1, <2>2
<1>9. ASSUME NEW e \in Editors PROVE Echoes(e)'
  <2>1. CASE e = w
    BY <1>4, <2>1 DEF Echoes, Within
  <2>2. CASE e # w
    BY <1>5, <2>2, WritersApart DEF Echoes
  <2> QED BY <2>1, <2>2
<1> QED BY <1>6, <1>7, <1>8, <1>9 DEF Sound

\* write and close by the one writer there is: what it writes is whole.
LEMMA FillsSound ==
    ASSUME Base, Sound, NEW w \in Writers, Only(w), Fills(w)
    PROVE  Sound'
<1>1. /\ pc[w] = "opened" /\ pc' = [pc EXCEPT ![w] = "filled"]
      /\ UNCHANGED <<entry, engine, mem, lock, edits>>
  BY DEF Fills, Goes
<1>2. /\ Newer(text[w].deals) /\ fd[w] # entry["state"] /\ data[fd[w]] = Torn
      /\ entry["tmp"] \in {NoFile, fd[w]} /\ fd[w] \in Inodes
      /\ text[w] \in Snapshots
  BY <1>1 DEF Sound, Underway, Base, TypeOK
<1>3. data' = [data EXCEPT ![fd[w]] = text[w]]
  BY <1>2 DEF Fills
<1>4. /\ data'[fd[w]] = text[w] /\ pc'[w] = "filled"
      /\ entry["state"] # NoFile => data'[entry["state"]] = data[entry["state"]]
  BY <1>1, <1>2, <1>3 DEF Base, TypeOK
<1>5. \A x \in Writers : x # w => pc'[x] = "idle"
  BY <1>1 DEF Only, Base, TypeOK
<1>6. Whole'
  BY <1>1, <1>4 DEF Sound, Whole
<1>7. Remembers'
  <2> SUFFICES ASSUME engine # "down" PROVE Newer(mem)' /\ Within(Engine, mem)'
    BY <1>1 DEF Remembers
  <2>1. Newer(mem) /\ Within(Engine, mem)
    BY DEF Sound, Remembers
  <2>2. Newer(mem)'
    BY <1>1, <1>4, <2>1 DEF Newer
  <2>3. Within(Engine, mem)'
    <3>1. CASE w = Engine
      BY <1>1, <1>2, <1>4, <2>1, <3>1 DEF Within
    <3>2. CASE w # Engine
      BY <1>5, <3>2, WritersApart DEF Within
    <3> QED BY <3>1, <3>2
  <2> QED BY <2>2, <2>3
<1>8. ASSUME NEW x \in Writers PROVE Underway(x)'
  <2>1. CASE x = w
    BY <1>1, <1>2, <1>4, <2>1 DEF Underway, Newer
  <2>2. CASE x # w
    BY <1>5, <2>2 DEF Underway
  <2> QED BY <2>1, <2>2
<1>9. ASSUME NEW e \in Editors PROVE Echoes(e)'
  <2>1. CASE e = w
    BY <1>1, <1>2, <1>4, <2>1 DEF Sound, Echoes, Within
  <2>2. CASE e # w
    BY <1>5, <2>2, WritersApart DEF Echoes
  <2> QED BY <2>1, <2>2
<1> QED BY <1>6, <1>7, <1>8, <1>9 DEF Sound

\* Path.replace by the one writer there is: an engine that runs on remembers
\* what now is state.json.
LEMMA ReplacesSound ==
    ASSUME Base, Sound, NEW w \in Writers, Only(w), pc[w] = "filled",
           Replaces, Goes(w, "idle"), UNCHANGED <<data, text, fd>>,
           engine' # "down" =>
               /\ UNCHANGED <<engine, mem>>
               /\ entry["tmp"] # NoFile => data[entry["tmp"]].deals <= mem
    PROVE  Sound'
<1>1. \A x \in Writers : pc'[x] = "idle"
  BY DEF Only, Goes, Base, TypeOK
<1>2. \/ entry' = entry
      \/ /\ entry["tmp"] # NoFile /\ entry'["state"] = entry["tmp"]
         /\ data[entry["tmp"]] \in Snapshots
  BY DEF Replaces, Sound, Underway
<1>3. Whole'
  BY <1>2 DEF Sound, Whole
<1>4. Remembers'
  <2> SUFFICES ASSUME engine' # "down" PROVE Newer(mem)' /\ Within(Engine, mem)'
    BY DEF Remembers
  <2>1. Newer(mem)'
    BY <1>2 DEF Sound, Remembers, Newer
  <2>2. Within(Engine, mem)'
    BY <1>1, WritersApart DEF Within
  <2> QED BY <2>1, <2>2
<1>5. \A x \in Writers : Underway(x)'
  BY <1>1 DEF Underway
<1>6. \A e \in Editors : Echoes(e)'
  BY <1>1, WritersApart DEF Echoes
<1> QED BY <1>3, <1>4, <1>5, <1>6 DEF Sound

\* Writers give up what they are writing, and the tmp name may go with it.
LEMMA GivesUpSound ==
    ASSUME Sound, UNCHANGED data, entry'["state"] = entry["state"],
           entry'["tmp"] \in {entry["tmp"], NoFile},
           engine' # "down" => UNCHANGED <<engine, mem>>,
           \A x \in Writers : \/ pc'[x] = "idle"
                              \/ pc'[x] = pc[x] /\ text'[x] = text[x] /\ fd'[x] = fd[x]
    PROVE  Sound'
<1>1. Whole'
  BY DEF Sound, Whole
<1>2. Remembers'
  <2> SUFFICES ASSUME engine' # "down" PROVE Newer(mem)' /\ Within(Engine, mem)'
    BY DEF Remembers
  <2>1. Newer(mem)'
    BY DEF Sound, Remembers, Newer
  <2>2. Within(Engine, mem)'
    BY WritersApart DEF Sound, Remembers, Within
  <2> QED BY <2>1, <2>2
<1>3. \A x \in Writers : Underway(x)'
  BY DEF Sound, Underway, Newer
<1>4. \A e \in Editors : Echoes(e)'
  BY WritersApart DEF Sound, Echoes, Within
<1> QED BY <1>1, <1>2, <1>3, <1>4 DEF Sound

\* A writer has read state.json and begins with deals that are no older.
LEMMA ReadsSound ==
    ASSUME Base, Sound, NEW w \in Closers \cup Editors, Goes(w, "read"),
           NEW s \in Snapshots, text' = [text EXCEPT ![w] = s], Newer(s.deals),
           w \in Editors => entry["state"] # NoFile /\ s.deals <= data[entry["state"]].deals,
           UNCHANGED <<entry, data, engine, mem, fd>>
    PROVE  Sound'
<1>1. pc'[w] = "read" /\ text'[w] = s /\ w # Engine /\ w \in Writers
  BY WritersApart DEF Goes, Base, TypeOK
<1>2. \A x \in Writers : x # w => pc'[x] = pc[x] /\ text'[x] = text[x]
  BY DEF Goes, Base, TypeOK
<1>3. Whole'
  BY DEF Sound, Whole
<1>4. Remembers'
  BY <1>1, <1>2, WritersApart DEF Sound, Remembers, Newer, Within
<1>5. ASSUME NEW x \in Writers PROVE Underway(x)'
  <2>1. CASE x = w
    BY <1>1, <2>1 DEF Underway, Newer
  <2>2. CASE x # w
    BY <1>2, <2>2 DEF Sound, Underway, Newer
  <2> QED BY <2>1, <2>2
<1>6. ASSUME NEW e \in Editors PROVE Echoes(e)'
  <2>1. CASE e = w
    BY <1>1, <2>1 DEF Echoes, Within
  <2>2. CASE e # w
    BY <1>2, <2>2, WritersApart DEF Sound, Echoes, Within
  <2> QED BY <2>1, <2>2
<1> QED BY <1>3, <1>4, <1>5, <1>6 DEF Sound

\* Every step of writers that do not overlap keeps the deals safe.
LEMMA SoundStep == Base /\ Sound /\ Alone /\ Alone' /\ [Next]_vars => Sound'
<1> SUFFICES ASSUME Base, Sound, Alone, Alone', [Next]_vars PROVE Sound'
  OBVIOUS
<1> USE WritersApart
<1>1. TypeOK /\ TypeOK'
  BY TypeStep DEF Base
<1>2. \A w \in Writers : pc[w] # "idle" => Only(w)
  BY <1>1, AloneOnly
<1>3. \A w \in Writers, p \in {"read", "opened"} : Goes(w, p) => Only(w)
  BY <1>1, AloneOnly
<1>4. CASE UNCHANGED vars
  <2> QED BY <1>4, GivesUpSound DEF vars
<1>5. CASE Loads
  <2>1. mem' = (IF Readable THEN State.deals ELSE 0) /\ engine = "down" /\ pc[Engine] = "idle"
        /\ UNCHANGED <<entry, data, pc, text, fd>>
    BY <1>5 DEF Loads, Base, Turns
  <2>2. Newer(mem')
    BY <2>1, SnapshotFacts DEF Sound, Whole, Readable, State, Newer, Versions
  <2>3. Remembers'
    BY <2>1, <2>2 DEF Remembers, Newer, Within
  <2> QED BY <2>1, <2>3 DEF Sound, Whole, Newer, Underway, Echoes, Within
<1>6. CASE TickWrites
  <2>1. PICK v \in {mem, mem + 1} \cap Versions :
               mem' = v /\ Opens(Engine, [deals |-> v, running |-> TRUE])
    BY <1>6 DEF TickWrites
  <2>2. Only(Engine)
    BY <1>3, <2>1 DEF Opens
  <2>3. Newer(mem)
    BY <1>6 DEF TickWrites, Sound, Remembers
  <2>4. v \in Int /\ mem \in Int /\ mem <= v
    BY <1>1, ConstantsAssumption DEF TypeOK, Versions
  <2>5. Newer(v)
    BY <2>3, <2>4 DEF Newer, Sound, Whole, Snapshots, Versions
  <2> DEFINE s == [deals |-> v, running |-> TRUE]
  <2>6. s \in Snapshots /\ s.deals = v
    BY SnapshotFacts
  <2>7. Opens(Engine, s)
    BY <2>1
  <2> HIDE DEF s
  <2>8. Newer(s.deals) /\ Newer(mem') /\ s.deals <= mem'
    BY <2>1, <2>4, <2>5, <2>6
  <2> QED BY <1>1, <2>2, <2>6, <2>7, <2>8, OpensSound
<1>7. ASSUME NEW w \in Writers, Fills(w) PROVE Sound'
  <2>1. Only(w)
    BY <1>2, <1>7 DEF Fills
  <2> QED BY <1>7, <2>1, FillsSound
<1>8. CASE EngineReplaces
  <2>1. Only(Engine) /\ pc[Engine] = "filled" /\ Replaces /\ Goes(Engine, "idle")
        /\ UNCHANGED <<data, text, fd>>
    BY <1>2, <1>8 DEF EngineReplaces
  <2>2. engine' # "down" => UNCHANGED <<engine, mem>>
    BY <1>8 DEF EngineReplaces
  <2>3. engine # "down" /\ entry["tmp"] # NoFile => data[entry["tmp"]].deals <= mem
    BY <2>1 DEF Sound, Remembers, Within
  <2> QED BY <2>1, <2>2, <2>3, ReplacesSound
<1>9. ASSUME Dies, UNCHANGED <<entry, data>> PROVE Sound'
  <2>1. \A x \in Writers : \/ pc'[x] = "idle"
                           \/ pc'[x] = pc[x] /\ text'[x] = text[x] /\ fd'[x] = fd[x]
    BY <1>1, <1>9 DEF Dies, Goes, TypeOK
  <2>2. engine' = "down"
    BY <1>9 DEF Dies
  <2> QED BY <1>9, <2>1, <2>2, GivesUpSound
<1>10. CASE Stops
  <2>1. CASE Readable \/ State = NoFile
    <3> DEFINE s == [deals |-> IF Readable THEN State.deals ELSE 0, running |-> FALSE]
    <3>1. /\ Opens(Engine, s) /\ engine = "up" /\ UNCHANGED mem
          /\ s.deals = IF Readable THEN State.deals ELSE 0
      BY <1>10, <2>1 DEF Stops
    <3>2. s \in Snapshots
      BY SnapshotFacts DEF Readable
    <3> HIDE DEF s
    <3>3. Only(Engine)
      BY <1>3, <3>1 DEF Opens
    <3>4. Newer(mem)
      BY <3>1 DEF Sound, Remembers
    <3>5. Newer(s.deals)
      BY <3>1, SnapshotFacts DEF Sound, Whole, Readable, State, Newer, Versions
    <3>6. s.deals <= mem
      <4>1. CASE Readable
        BY <3>1, <3>4, <4>1, SnapshotFacts DEF Newer, Readable, State
      <4>2. CASE ~Readable
        BY <1>1, <3>1, <4>2, ConstantsAssumption DEF TypeOK, Versions
      <4> QED BY <4>1, <4>2
    <3>7. Newer(mem') /\ s.deals <= mem'
      BY <3>1, <3>4, <3>6
    <3> QED BY <1>1, <3>1, <3>2, <3>3, <3>5, <3>7, OpensSound
  <2> QED BY <1>9, <1>10, <2>1 DEF Stops
<1>11. CASE EngineKilled
  BY <1>9, <1>11 DEF EngineKilled
<1>12. CASE PortalRestarts
  <2>1. /\ \A x \in Writers : \/ pc'[x] = "idle"
                              \/ pc'[x] = pc[x] /\ text'[x] = text[x] /\ fd'[x] = fd[x]
        /\ entry'["state"] = entry["state"] /\ entry'["tmp"] = NoFile
        /\ UNCHANGED <<data, engine, mem>>
    BY <1>1, <1>12 DEF PortalRestarts, TypeOK
  <2> QED BY <2>1, GivesUpSound
<1>13. ASSUME NEW c \in Closers, CloserBegins(c) PROVE Sound'
  <2>1. PICK v \in {State.deals + 1} \cap Versions : text' = [text EXCEPT ![c].deals = v]
    BY <1>13 DEF CloserBegins
  <2> DEFINE s == [text[c] EXCEPT !.deals = v]
  <2>2. s \in Snapshots /\ s.deals = v
    BY <1>1 DEF TypeOK, Snapshots
  <2>3. text' = [text EXCEPT ![c] = s]
    BY <1>1, <2>1 DEF TypeOK
  <2> HIDE DEF s
  <2>4. Goes(c, "read") /\ UNCHANGED <<entry, data, engine, mem, fd>> /\ Readable
    BY <1>13 DEF CloserBegins
  <2>5. State.deals <= s.deals
    BY <2>1, <2>2, <2>4, SnapshotFacts DEF Readable, Versions
  <2>6. Newer(s.deals)
    BY <2>5 DEF Newer, State
  <2> QED BY <2>2, <2>3, <2>4, <2>6, ReadsSound
<1>14. ASSUME NEW e \in Editors, EditorReads(e) PROVE Sound'
  <2>1. PICK r \in {FALSE, State.running} : text' = [text EXCEPT ![e] = [State EXCEPT !.running = r]]
    BY <1>14 DEF EditorReads
  <2>2. Goes(e, "read") /\ UNCHANGED <<entry, data, engine, mem, fd>> /\ Readable
    BY <1>14 DEF EditorReads
  <2> DEFINE s == [State EXCEPT !.running = r]
  <2>3. s \in Snapshots /\ s.deals = State.deals
    BY <2>2, SnapshotFacts DEF Readable
  <2>4. text' = [text EXCEPT ![e] = s]
    BY <2>1
  <2> HIDE DEF s
  <2>5. entry["state"] # NoFile /\ State = data[entry["state"]]
    BY <2>2, SnapshotFacts DEF Readable, State
  <2>6. Newer(s.deals) /\ s.deals <= data[entry["state"]].deals
    BY <2>2, <2>3, <2>5, SnapshotFacts DEF Newer, Readable, Versions
  <2> QED BY <2>2, <2>3, <2>4, <2>5, <2>6, ReadsSound
<1>15. ASSUME NEW e \in Editors, EditorOpens(e) PROVE Sound'
  <2>1. pc[e] = "read" /\ Opens(e, text[e]) /\ UNCHANGED <<engine, mem>>
    BY <1>15 DEF EditorOpens
  <2>2. Only(e) /\ text[e] \in Snapshots /\ Newer(text[e].deals)
    BY <1>1, <1>2, <2>1 DEF Sound, Underway, TypeOK
  <2>3. entry["state"] # NoFile /\ text[e].deals <= data[entry["state"]].deals
    BY <2>1 DEF Sound, Echoes, Within
  <2>4. engine' # "down" => Newer(mem')
    BY <2>1 DEF Sound, Remembers
  <2> QED BY <1>1, <2>1, <2>2, <2>3, <2>4, OpensSound
<1>16. ASSUME NEW c \in Closers, CloserOpens(c) PROVE Sound'
  <2> DEFINE r == Readable /\ State.running
             s == [text[c] EXCEPT !.running = r]
  <2>1. r \in BOOLEAN
    BY Zenon
  <2>2. /\ pc[c] = "read" /\ Opens(c, s) /\ UNCHANGED <<engine, mem, lock, edits>>
    BY <1>16 DEF CloserOpens
  <2>3. text[c] \in Snapshots
    BY <1>1 DEF TypeOK
  <2> HIDE DEF r
  <2>4. s \in Snapshots /\ s.deals = text[c].deals
    BY <2>1, <2>3, SnapshotFacts
  <2> HIDE DEF s
  <2>5. Only(c) /\ Newer(s.deals)
    BY <1>2, <2>2, <2>4 DEF Sound, Underway
  <2>6. engine' # "down" => Newer(mem')
    BY <2>2 DEF Sound, Remembers
  <2> QED BY <1>1, <2>2, <2>4, <2>5, <2>6, OpensSound
<1>17. ASSUME NEW w \in Closers \cup Editors, PortalReplaces(w) PROVE Sound'
  <2>1. /\ Only(w) /\ pc[w] = "filled" /\ Replaces /\ Goes(w, "idle")
        /\ UNCHANGED <<data, engine, mem, text, fd>>
    BY <1>2, <1>17 DEF PortalReplaces
  <2>2. engine # "down" /\ entry["tmp"] # NoFile => data[entry["tmp"]].deals <= mem
    <3> SUFFICES ASSUME engine # "down", entry["tmp"] # NoFile PROVE data[entry["tmp"]].deals <= mem
      OBVIOUS
    <3>1. w \in Editors
      BY <2>1 DEF Base, Turns, TypeOK
    <3>2. /\ entry["state"] # NoFile /\ data[entry["tmp"]].deals <= data[entry["state"]].deals
          /\ data[entry["state"]] \in Snapshots /\ data[entry["tmp"]] \in Snapshots
      BY <2>1, <3>1 DEF Sound, Echoes, Within, Whole, Underway
    <3>3. data[entry["state"]].deals <= mem
      BY <3>2 DEF Sound, Remembers, Newer
    <3>4. mem \in Int /\ data[entry["state"]].deals \in Int /\ data[entry["tmp"]].deals \in Int
      BY <1>1, <3>2, SnapshotFacts, ConstantsAssumption DEF TypeOK, Versions
    <3> QED BY <3>2, <3>3, <3>4
  <2> QED BY <2>1, <2>2, ReplacesSound
<1> QED BY <1>4, <1>5, <1>6, <1>7, <1>8, <1>10, <1>11, <1>12, <1>13, <1>14, <1>15, <1>16, <1>17
        DEF Next, EngineStep, Portal

-----------------------------------------------------------------------------
\* What a step does to state.json: nothing, or the tmp file takes its place.
LEMMA ReplacedWhole ==
    ASSUME Base, Sound, [Next]_vars
    PROVE  \/ /\ entry'["state"] = entry["state"]
              /\ entry["state"] # NoFile => data'[entry["state"]] = data[entry["state"]]
           \/ /\ entry["tmp"] # NoFile /\ entry'["state"] = entry["tmp"]
              /\ data' = data /\ \E w \in Writers : pc[w] = "filled"
<1> DEFINE Same == /\ entry'["state"] = entry["state"]
                   /\ entry["state"] # NoFile => data'[entry["state"]] = data[entry["state"]]
           Swap == /\ entry["tmp"] # NoFile /\ entry'["state"] = entry["tmp"]
                   /\ data' = data /\ \E w \in Writers : pc[w] = "filled"
<1> SUFFICES Same \/ Swap
  OBVIOUS
<1> USE WritersApart
<1>1. ASSUME NEW w \in Writers, NEW s, Opens(w, s) PROVE Same
  <2>1. PICK i \in Inodes : /\ IF entry["tmp"] = NoFile THEN Unused(i) ELSE i = entry["tmp"]
                            /\ entry' = [entry EXCEPT !["tmp"] = i]
                            /\ data' = [data EXCEPT ![i] = Torn]
    BY <1>1 DEF Opens
  <2>2. i # entry["state"]
    BY <2>1 DEF Unused, Apart, Base
  <2> QED BY <2>1, <2>2 DEF Base, TypeOK
<1>2. ASSUME NEW w \in Writers, Fills(w) PROVE Same
  <2>1. fd[w] # entry["state"]
    BY <1>2 DEF Fills, Sound, Underway
  <2>2. PICK d \in {text[w], Torn} : data' = [data EXCEPT ![fd[w]] = d]
    BY <1>2 DEF Fills
  <2> QED BY <1>2, <2>1, <2>2 DEF Fills, Base, TypeOK
<1>3. ASSUME NEW w \in Writers, pc[w] = "filled", Replaces, UNCHANGED data PROVE Same \/ Swap
  BY <1>3 DEF Replaces
<1>4. CASE UNCHANGED <<entry, data>>
  BY <1>4
<1>5. CASE PortalRestarts
  BY <1>5 DEF PortalRestarts, Base, TypeOK
<1> HIDE DEF Same, Swap
<1> QED BY <1>1, <1>2, <1>3, <1>4, <1>5
        DEF Next, EngineStep, Loads, TickWrites, EngineReplaces, Stops, EngineKilled,
            CloserBegins, EditorReads, Portal, EditorOpens, CloserOpens, PortalReplaces, vars

\* The deals that a reader of state.json sees, if there is one.
Deals == IF State = NoFile THEN NoFile ELSE State.deals

Plain == INSTANCE AtomicFile WITH Nothing <- NoFile, seen <- Deals

\* The deals in state.json are then always there and only move forward.
LEMMA Forward ==
    ASSUME Base, Sound, Sound', [Next]_vars
    PROVE  [Plain!Replace]_Deals
<1>1. Whole /\ Whole' /\ \A w \in Writers : Underway(w)
  BY DEF Sound
<1>2. State' # NoFile => State' \in Snapshots
  BY <1>1 DEF Whole, State
<1>3. ASSUME State # NoFile PROVE State' # NoFile /\ State \in Snapshots /\ State.deals <= State'.deals
  <2>1. entry["state"] # NoFile /\ State = data[entry["state"]] /\ State \in Snapshots
    BY <1>1, <1>3 DEF Whole, State
  <2>2. State.deals <= State.deals
    BY <2>1, SnapshotFacts DEF Versions
  <2> QED BY <1>1, <1>2, <2>1, <2>2, ReplacedWhole, SnapshotFacts DEF Underway, Newer, State, Whole
<1> SUFFICES ASSUME ~(Deals' = Deals) PROVE Plain!Replace
  OBVIOUS
<1>4. State' # NoFile
  BY <1>3 DEF Deals
<1>5. Deals' = State'.deals /\ Deals' \in Nat
  <2>1. Deals' = State'.deals
    BY <1>4 DEF Deals
  <2> QED BY <1>2, <1>4, <2>1, SnapshotFacts DEF Versions
<1>6. Deals # NoFile => Deals' >= Deals
  <2> SUFFICES ASSUME Deals # NoFile PROVE Deals' >= Deals
    OBVIOUS
  <2>1. State # NoFile /\ Deals = State.deals
    BY DEF Deals
  <2> QED BY <1>2, <1>3, <1>4, <1>5, <2>1, SnapshotFacts DEF Versions
<1> QED BY <1>5, <1>6 DEF Plain!Replace

-----------------------------------------------------------------------------
\* The theorems.

\* What holds of every write holds at the start, and every step keeps it.
LEMMA BaseHolds == (Init => Base /\ Sound /\ Deals = NoFile) /\ (Base /\ [Next]_vars => Base')
<1>1. ASSUME Init PROVE Base /\ Sound /\ Deals = NoFile
  <2>1. TypeOK
    BY <1>1, SnapshotFacts DEF Init, TypeOK
  <2> QED BY <1>1, <2>1, WritersApart
          DEF Init, Base, Apart, Turns, Sound, Whole, Remembers, Underway, Echoes, Newer, Within,
              Deals, State
<1>2. Base /\ [Next]_vars => Base'
  BY TypeStep, ApartStep, TurnsStep DEF Base
<1> QED BY <1>1, <1>2

\* The invariant holds throughout.
LEMMA Invariance == Spec => []FInv
<1>1. Init => FInv
  BY BaseHolds DEF FInv
<1>2. FInv /\ [Next]_vars => FInv'
  <2> SUFFICES ASSUME FInv, [Next]_vars PROVE FInv'
    OBVIOUS
  <2>1. Base /\ Base'
    BY BaseHolds DEF FInv
  <2>2. UNCHANGED edits
    BY EditsStay
  <2>3. ASSUME ~edits PROVE Sound'
    <3>1. ~edits'
      BY <2>2, <2>3, Zenon
    <3>2. Alone /\ Alone'
      BY <2>1, <2>3, <3>1, OneAtATime
    <3> QED BY <2>1, <2>3, <3>2, SoundStep DEF FInv
  <2>4. ~edits' => ~edits
    BY <2>2, Zenon
  <2> QED BY <2>1, <2>3, <2>4 DEF FInv
<1> QED BY <1>1, <1>2, PTL DEF Spec

\* The names, inodes, texts and open files of the writers are what the code
\* takes them for under every kill, edits included (StateIO.write, Path.replace).
THEOREM TypeCorrect == Spec => []TypeOK
<1>1. FInv => TypeOK
  BY DEF FInv, Base
<1> QED BY <1>1, Invariance, PTL

\* While nobody edits the file without the lock, state.json is the atomic file
\* that its readers take it for: always absent or one complete snapshot, whose
\* deals only move forward, through writes cut short by SIGKILL, reloads, the
\* portal's sweep of the tmp file and offline closes (StateIO, _locked_close).
THEOREM WritesAreAtomic == Spec => OneWriter
<1> DEFINE seen == IF edits \/ State = NoFile THEN NoFile ELSE State.deals
<1>1. Init => seen = NoFile
  BY DEF Init, State
<1>2. FInv /\ FInv' /\ [Next]_vars => [Reader!Replace]_seen
  <2> SUFFICES ASSUME FInv, FInv', [Next]_vars, ~(seen' = seen) PROVE Reader!Replace
    OBVIOUS
  <2>1. UNCHANGED edits
    BY EditsStay
  <2>2. ~edits
    BY <2>1, Zenon
  <2>3. ~edits'
    BY <2>1, <2>2, Zenon
  <2>4. seen = Deals /\ seen' = Deals'
    BY <2>2, <2>3 DEF Deals
  <2>5. [Plain!Replace]_Deals
    BY <2>2, <2>3, Forward DEF FInv
  <2> HIDE DEF seen
  <2>6. Deals' \in Nat /\ (Deals # NoFile => Deals' >= Deals)
    BY <2>4, <2>5 DEF Plain!Replace
  <2>7. seen' \in Nat /\ (seen # NoFile => seen' >= seen)
    BY <2>4, <2>6
  <2> QED BY <2>7 DEF Reader!Replace, seen
<1> QED BY <1>1, <1>2, Invariance, PTL DEF Spec, OneWriter, Reader!Spec, Reader!Init

\* The edits themselves do no harm, only an overlap does: as long as no two
\* writers are between their read and their replace at once, state.json is the
\* atomic file also where the portal's silent-exit reconcile, its drawdown reset
\* and _persist_stopped_reason_field rewrite it without the lock, and under every
\* kill (BotInfo.read_state, reset_drawdown).
THEOREM LoneWritersAreAtomic == Spec /\ []Alone => Plain!Spec
<1>1. Init => Base /\ Sound /\ Deals = NoFile
  BY BaseHolds
<1>2. Base /\ [Next]_vars => Base'
  BY BaseHolds
<1>3. Base /\ Sound /\ Alone /\ Alone' /\ [Next]_vars => Sound'
  BY SoundStep
<1>4. Base /\ Sound /\ Sound' /\ [Next]_vars => [Plain!Replace]_Deals
  BY Forward
<1> QED BY <1>1, <1>2, <1>3, <1>4, PTL DEF Spec, Plain!Spec, Plain!Init
=============================================================================
