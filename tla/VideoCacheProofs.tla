-------------------------- MODULE VideoCacheProofs --------------------------
(***************************************************************************)
(* What the metadata cache files, for any sets of jars, uploads, runs and  *)
(* callers: under which fingerprint, made by which yt-dlp, and how often.  *)
(*                                                                         *)
(* The argument is about the one caller that holds the coordinator.  As    *)
(* long as the generation it noted stands and it did not begin inside a    *)
(* cookie change, the jar it hashed is the jar of the row and the          *)
(* extraction it waits for began in that generation; that such a result    *)
(* was got with the row's jar is what CookieJarProofs shows.               *)
(***************************************************************************)
EXTENDS VideoCache, CookieJarProofs

CallerType ==
    [pc: CallerPC, leads: BOOLEAN, key: Keys, joined: Keys \cup {Nothing}, since: Nat,
     inside: BOOLEAN, got: Entries \cup {Nothing, Failed}]

TypeInv ==
    /\ mem \in Entries \cup {Nothing} /\ db \in Entries \cup {Nothing}
    /\ flight \in [Keys -> Entries \cup {Nothing, Failed}]
    /\ coordinator \in Callers \cup {Nobody}
    /\ caller \in [Callers -> CallerType]
    /\ binary \in Versions /\ version \in Versions /\ spawned \in Versions

\* A leader between the coordinator's lock and its release.
Works(local) == local.leads /\ local.pc \notin {"queue", "done"}

\* What a caller with these locals holds: leadership and its cell.
Placed(local) ==
    /\ local.leads => local.pc \notin {"idle", "join", "wait"}
    /\ local.pc \in {"queue", "extract", "publish", "store", "insert"} => local.leads
    /\ local.joined # Nothing <=> local.pc \in {"wait", "queue"} \/ Works(local)

CellsHeld == \A k \in Keys : flight[k] # Nothing => Crew(k) # {}

OwnLogin(entry) == entry.login \in {entry.key.jar, NoJar}
Honest(entry) ==
    entry # Nothing => entry.key.version <= entry.binary /\ (~entry.inside => OwnLogin(entry))

\* What a caller with these locals knows of the jar, the binary, its
\* extraction and its result.
Sound(local) ==
    /\ local.key.version <= version
    /\ Works(local) => local.since <= gen
    /\ Works(local) /\ local.since = gen /\ ~local.inside =>
          /\ ~Changing
          /\ local.pc # "jar" => local.key.jar = row
          /\ local.pc = "extract" => run[Leader].since = gen
          /\ local.pc = "publish" => OwnLogin(local.got)
    /\ local.pc = "extract" =>
          /\ run[Leader].pc # "idle"
          /\ run[Leader].pc \in {"stage", "copy", "bareFirst"} \/ local.key.version <= spawned
          /\ ~Fits(db, local.key)
    /\ local.pc \in {"publish", "store", "insert"} =>
          local.got \in Entries /\ local.got.key.version <= local.got.binary
    /\ local.pc = "publish" => local.got.inside = local.inside
    /\ local.pc \in {"store", "insert"} => Honest(local.got)

CacheInv ==
    /\ JarInv
    /\ TypeInv
    /\ version <= binary
    /\ CellsHeld
    /\ \A c \in Callers : (coordinator = c <=> Works(caller[c]))
    /\ \A c \in Callers : Placed(caller[c]) /\ Sound(caller[c])
    /\ Honest(mem) /\ Honest(db)

-----------------------------------------------------------------------------
(* Callers and cells.                                                      *)

\* Only the holder of the coordinator works.
LEMMA OneWorks ==
  ASSUME CacheInv, NEW c \in Callers, NEW d \in Callers,
         Works(caller[c]), Works(caller[d])
  PROVE  c = d
  BY DEF CacheInv

LEMMA LocalsType ==
  ASSUME CacheInv, NEW c \in Callers
  PROVE  caller[c] \in CallerType /\ Placed(caller[c]) /\ Sound(caller[c])
  BY DEF CacheInv, TypeInv

LEMMA BecomesSets ==
  ASSUME CacheInv, NEW c \in Callers, NEW local, Becomes(c, local)
  PROVE  caller'[c] = local /\ \A d \in Callers \ {c} : caller'[d] = caller[d]
  BY DEF CacheInv, TypeInv, Becomes

\* A step of one caller, and, while it works, of the extraction it waits for:
\* if its new locals are sound, nothing else suffers.
LEMMA CallerMoves ==
  ASSUME CacheInv, NEW c \in Callers, NEW local \in CallerType, Becomes(c, local),
         JarInv', UNCHANGED <<row, gen, change, toolVars, spawned>>,
         Works(caller[c]) \/ (run' = run /\ db' = db),
         mem' \in Entries \cup {Nothing}, db' \in Entries \cup {Nothing},
         flight' \in [Keys -> Entries \cup {Nothing, Failed}], CellsHeld',
         coordinator' \in Callers \cup {Nobody}, coordinator' = c <=> Works(local),
         \A d \in Callers \ {c} : coordinator' = d <=> coordinator = d,
         Placed(local), Sound(local)', Honest(mem'), Honest(db')
  PROVE  CacheInv'
  <1>1. caller'[c] = local /\ \A d \in Callers \ {c} : caller'[d] = caller[d]
    BY BecomesSets
  <1>2. TypeInv'
    <2>1. caller' \in [Callers -> CallerType]
      BY DEF Becomes, CacheInv, TypeInv
    <2> QED
      BY <2>1 DEF CacheInv, TypeInv, toolVars
  <1>3. \A d \in Callers : (coordinator' = d <=> Works(caller'[d]))
    BY <1>1 DEF CacheInv
  <1>4. \A d \in Callers : Placed(caller'[d])
    BY <1>1 DEF CacheInv
  <1>5. Changing' = Changing
    BY DEF Changing, Replacing
  <1>6. ASSUME NEW d \in Callers \ {c} PROVE Sound(caller[d])'
    <2>1. Sound(caller[d]) /\ Placed(caller[d]) /\ caller'[d] = caller[d]
      BY <1>1 DEF CacheInv
    <2>2. CASE Works(caller[c])
      <3>1. caller[d].pc # "extract"
        BY <2>1, <2>2, OneWorks DEF Works, Placed
      <3> QED
        BY <1>5, <2>1, <3>1 DEF Sound, toolVars
    <2>3. CASE run' = run /\ db' = db
      BY <1>5, <2>1, <2>3 DEF Sound, toolVars
    <2> QED
      BY <2>2, <2>3
  <1>7. Sound(caller[c])'
    BY <1>1 DEF Sound
  <1> QED
    BY <1>2, <1>3, <1>4, <1>6, <1>7 DEF CacheInv, toolVars

\* Nobody but the one who leaves loses its cell.
LEMMA CellsStay ==
  ASSUME CacheInv, NEW c \in Callers, NEW local, Becomes(c, local),
         caller[c].joined = Nothing \/ local.joined = caller[c].joined, UNCHANGED flight
  PROVE  CellsHeld' /\ flight' \in [Keys -> Entries \cup {Nothing, Failed}]
  <1>1. caller'[c] = local /\ \A d \in Callers \ {c} : caller'[d] = caller[d]
    BY BecomesSets
  <1>2. ASSUME NEW k \in Keys, flight'[k] # Nothing
        PROVE  \E d \in Callers : caller'[d].joined = k
    <2>1. PICK d \in Callers : caller[d].joined = k
      BY <1>2 DEF CacheInv, CellsHeld, Crew
    <2>2. k # Nothing
      BY OutcomesAssumption
    <2> QED
      BY <1>1, <2>1, <2>2
  <1> QED
    BY <1>2 DEF CacheInv, TypeInv, CellsHeld, Crew

LEMMA LeavingKeepsCells ==
  ASSUME CacheInv, NEW c \in Callers, NEW local, Becomes(c, local), local.joined = Nothing,
         NEW outcome \in Entries \cup {Nothing, Failed},
         LET key == caller[c].joined
         IN  \/ key = Nothing /\ UNCHANGED flight
             \/ flight' = [flight EXCEPT ![key] = Nothing]
             \/ ~Empties(key, c) /\ UNCHANGED flight
             \/ ~Empties(key, c) /\ flight' = [flight EXCEPT ![key] = outcome]
  PROVE  CellsHeld' /\ flight' \in [Keys -> Entries \cup {Nothing, Failed}]
  <1>1. caller'[c] = local /\ \A d \in Callers \ {c} : caller'[d] = caller[d]
    BY BecomesSets
  <1>2. PICK key : key = caller[c].joined
    OBVIOUS
  <1>3. flight \in [Keys -> Entries \cup {Nothing, Failed}] /\ CellsHeld
    BY DEF CacheInv, TypeInv
  <1>4. flight' \in [Keys -> Entries \cup {Nothing, Failed}]
    BY <1>3
  <1>5. ASSUME NEW k \in Keys, flight'[k] # Nothing
        PROVE  \E d \in Callers : caller'[d].joined = k
    <2>1. CASE k = key
      <3>1. k # Nothing
        BY OutcomesAssumption
      <3>2. ~Empties(key, c)
        BY <1>2, <1>3, <1>5, <2>1, <3>1
      <3>3. PICK d \in Callers \ {c} : caller[d].joined = key
        BY <3>2 DEF Empties, Crew
      <3> QED
        BY <1>1, <2>1, <3>3
    <2>2. CASE k # key
      <3>1. flight[k] # Nothing
        BY <1>2, <1>3, <1>5, <2>2
      <3>2. PICK d \in Callers : caller[d].joined = k
        BY <1>3, <3>1 DEF CellsHeld, Crew
      <3> QED
        BY <1>1, <1>2, <2>2, <3>2
    <2> QED
      BY <2>1, <2>2
  <1> QED
    BY <1>4, <1>5 DEF CellsHeld, Crew

\* A step of one caller that runs nothing and gives nothing back.
LEMMA PlainMove ==
  ASSUME CacheInv, NEW c \in Callers, NEW local \in CallerType, Becomes(c, local),
         UNCHANGED <<jarVars, flight, coordinator, toolVars, spawned>>,
         mem' \in Entries \cup {Nothing}, Honest(mem'),
         db' \in Entries \cup {Nothing}, Honest(db'), Works(caller[c]) \/ db' = db,
         caller[c].joined = Nothing \/ local.joined = caller[c].joined,
         Works(local) <=> Works(caller[c]), local.pc # "extract", Placed(local), Sound(local)
  PROVE  CacheInv'
  <1>1. JarInv'
    BY NextJarInv DEF CacheInv
  <1>2. CellsHeld' /\ flight' \in [Keys -> Entries \cup {Nothing, Failed}]
    BY CellsStay
  <1>3. /\ coordinator' \in Callers \cup {Nobody} /\ (coordinator' = c <=> Works(local))
        /\ \A d \in Callers \ {c} : coordinator' = d <=> coordinator = d
    BY DEF CacheInv, TypeInv
  <1>4. Sound(local)'
    <2>1. Changing' = Changing
      BY DEF Changing, Replacing, jarVars
    <2> QED
      BY <2>1 DEF Sound, jarVars, toolVars
  <1>5. UNCHANGED <<row, gen, change, run, toolVars, spawned>>
    BY DEF jarVars
  <1>6. Works(caller[c]) \/ (run' = run /\ db' = db)
    BY <1>5
  <1> QED
    BY <1>1, <1>2, <1>3, <1>4, <1>5, <1>6, CallerMoves

\* A caller that finishes, a leader with an outcome for its cell.
LEMMA Finishing ==
  ASSUME CacheInv, NEW c \in Callers, NEW outcome \in Entries \cup {Failed},
         Finish(c, outcome), caller[c].pc \notin {"idle", "wait", "queue", "done"},
         JarInv', UNCHANGED <<row, gen, change, toolVars, spawned>>,
         Works(caller[c]) \/ (run' = run /\ db' = db),
         mem' \in Entries \cup {Nothing}, Honest(mem'),
         db' \in Entries \cup {Nothing}, Honest(db')
  PROVE  CacheInv'
  <1>1. PICK local : local = [caller[c] EXCEPT !.pc = "done", !.joined = Nothing, !.got = outcome]
    OBVIOUS
  <1>2. caller[c] \in CallerType /\ Placed(caller[c]) /\ Sound(caller[c])
    BY LocalsType
  <1>3. Becomes(c, local)
    BY <1>1 DEF Finish
  <1>4. local \in CallerType
    BY <1>1, <1>2 DEF CallerType, CallerPC
  <1>5. local.pc = "done" /\ local.joined = Nothing /\ local.key = caller[c].key
    BY <1>1, <1>2 DEF CallerType
  <1>6. ~Works(local) /\ Placed(local)
    BY <1>5 DEF Works, Placed
  <1>7. Sound(local)'
    BY <1>2, <1>5, <1>6 DEF Sound, toolVars
  <1>8. CASE caller[c].leads
    <2>1. coordinator = c /\ coordinator' = Nobody /\ Nobody \notin Callers
      BY <1>2, <1>8, OutcomesAssumption DEF CacheInv, Works, Finish
    <2>2. flight' = [flight EXCEPT ![caller[c].joined] =
                       IF Empties(caller[c].joined, c) THEN Nothing ELSE outcome]
      BY <1>8 DEF Finish
    <2>3. CellsHeld' /\ flight' \in [Keys -> Entries \cup {Nothing, Failed}]
      <3>1. CASE Empties(caller[c].joined, c)
        BY <1>3, <1>5, <2>2, <3>1, LeavingKeepsCells
      <3>2. CASE ~Empties(caller[c].joined, c)
        BY <1>3, <1>5, <2>2, <3>2, LeavingKeepsCells
      <3> QED
        BY <3>1, <3>2
    <2> QED
      BY <1>3, <1>4, <1>6, <1>7, <2>1, <2>3, CallerMoves
  <1>9. CASE ~caller[c].leads
    <2>1. caller[c].joined = Nothing /\ ~Works(caller[c])
      BY <1>2, <1>9 DEF Placed, Works, CallerType
    <2>2. UNCHANGED <<flight, coordinator>>
      BY <1>9 DEF Finish
    <2>3. CellsHeld' /\ flight' \in [Keys -> Entries \cup {Nothing, Failed}]
      BY <1>3, <2>1, <2>2, CellsStay
    <2>4. /\ coordinator' \in Callers \cup {Nobody} /\ coordinator' # c
          /\ \A d \in Callers \ {c} : coordinator' = d <=> coordinator = d
      BY <2>1, <2>2 DEF CacheInv, TypeInv
    <2> QED
      BY <1>3, <1>4, <1>6, <1>7, <2>3, <2>4, CallerMoves
  <1> QED
    BY <1>8, <1>9

-----------------------------------------------------------------------------
(* get_or_extract up to its flight.                                        *)

\* What a step finds that leaves mem and db alone.
LEMMA Stored ==
  ASSUME CacheInv
  PROVE  /\ mem \in Entries \cup {Nothing} /\ Honest(mem)
         /\ db \in Entries \cup {Nothing} /\ Honest(db)
  BY DEF CacheInv, TypeInv

LEMMA CallKeeps ==
  ASSUME CacheInv, NEW c \in Callers, Call(c)
  PROVE  CacheInv'
  <1>1. PICK local : local = [caller[c] EXCEPT !.pc = "jar"]
    OBVIOUS
  <1>2. caller[c] \in CallerType /\ Placed(caller[c]) /\ Sound(caller[c]) /\ caller[c].pc = "idle"
    BY LocalsType DEF Call, At
  <1>3. Becomes(c, local) /\ UNCHANGED <<jarVars, mem, db, flight, coordinator, toolVars, spawned>>
    BY <1>1 DEF Call, GoTo
  <1>4. local \in CallerType
    BY <1>1, <1>2 DEF CallerType, CallerPC
  <1>5. /\ local.pc = "jar" /\ local.leads = caller[c].leads /\ local.key = caller[c].key
        /\ local.joined = caller[c].joined
    BY <1>1, <1>2 DEF CallerType
  <1>6. ~local.leads /\ local.joined = Nothing
    BY <1>2, <1>5 DEF Placed, Works
  <1>7. /\ ~Works(local) /\ ~Works(caller[c]) /\ Placed(local) /\ Sound(local)
    BY <1>2, <1>5, <1>6 DEF Placed, Works, Sound
  <1> QED
    BY <1>3, <1>4, <1>5, <1>7, PlainMove, Stored

LEMMA ReadJarKeeps ==
  ASSUME CacheInv, NEW c \in Callers, ReadJar(c)
  PROVE  CacheInv'
  <1>0. caller[c] \in CallerType /\ Placed(caller[c]) /\ Sound(caller[c]) /\ caller[c].pc = "jar"
    BY LocalsType DEF ReadJar, At
  <1>1. PICK key : key = [jar |-> row, version |-> caller[c].key.version]
    OBVIOUS
  <1>2. PICK local : local = [caller[c] EXCEPT !.pc = "version", !.key = key]
    OBVIOUS
  <1>3. Becomes(c, local) /\ UNCHANGED <<jarVars, mem, db, flight, coordinator, toolVars, spawned>>
    <2>1. [caller[c].key EXCEPT !.jar = row] = key
      BY <1>0, <1>1 DEF CallerType, Keys
    <2>2. [caller[c] EXCEPT !.pc = "version", !.key.jar = row] = local
      BY <1>0, <1>2, <2>1 DEF CallerType
    <2> QED
      BY <2>2 DEF ReadJar
  <1>4. key \in Keys
    BY <1>0, <1>1 DEF CallerType, Keys, CacheInv, JarInv, JarTypeOK
  <1>5. local \in CallerType
    BY <1>0, <1>2, <1>4 DEF CallerType, CallerPC
  <1>6. /\ local.pc = "version" /\ local.leads = caller[c].leads /\ local.key = key
        /\ local.joined = caller[c].joined /\ local.since = caller[c].since
        /\ local.inside = caller[c].inside /\ key.jar = row /\ key.version = caller[c].key.version
    BY <1>0, <1>1, <1>2 DEF CallerType
  <1>7. (Works(local) <=> Works(caller[c])) /\ Placed(local) /\ Sound(local)
    BY <1>0, <1>6 DEF Placed, Works, Sound
  <1> QED
    BY <1>3, <1>5, <1>6, <1>7, PlainMove, Stored

LEMMA ReadVersionKeeps ==
  ASSUME CacheInv, NEW c \in Callers, ReadVersion(c)
  PROVE  CacheInv'
  <1>0. caller[c] \in CallerType /\ Placed(caller[c]) /\ Sound(caller[c]) /\ caller[c].pc = "version"
    BY LocalsType DEF ReadVersion, At
  <1>1. PICK key : key = [jar |-> caller[c].key.jar, version |-> version]
    OBVIOUS
  <1>2. PICK local : local = [caller[c] EXCEPT !.pc = "memory", !.key = key]
    OBVIOUS
  <1>3. Becomes(c, local) /\ UNCHANGED <<jarVars, mem, db, flight, coordinator, toolVars, spawned>>
    <2>1. [caller[c].key EXCEPT !.version = version] = key
      BY <1>0, <1>1 DEF CallerType, Keys
    <2>2. [caller[c] EXCEPT !.pc = "memory", !.key.version = version] = local
      BY <1>0, <1>2, <2>1 DEF CallerType
    <2> QED
      BY <2>2 DEF ReadVersion
  <1>4. key \in Keys /\ version \in Nat
    BY <1>0, <1>1 DEF CallerType, Keys, CacheInv, TypeInv, Versions
  <1>5. local \in CallerType
    BY <1>0, <1>2, <1>4 DEF CallerType, CallerPC
  <1>6. /\ local.pc = "memory" /\ local.leads = caller[c].leads /\ local.key = key
        /\ local.joined = caller[c].joined /\ local.since = caller[c].since
        /\ local.inside = caller[c].inside /\ key.jar = caller[c].key.jar /\ key.version = version
    BY <1>0, <1>1, <1>2 DEF CallerType
  <1>7. (Works(local) <=> Works(caller[c])) /\ Placed(local) /\ Sound(local)
    BY <1>0, <1>4, <1>6 DEF Placed, Works, Sound
  <1> QED
    BY <1>3, <1>5, <1>6, <1>7, PlainMove, Stored

LEMMA MemoryHitKeeps ==
  ASSUME CacheInv, NEW c \in Callers, MemoryHit(c)
  PROVE  CacheInv'
  <1>1. /\ caller[c].pc = "memory" /\ mem # Nothing /\ Finish(c, mem)
        /\ UNCHANGED <<jarVars, mem, db, toolVars, spawned>>
    BY DEF MemoryHit, At, Fits
  <1>2. mem \in Entries
    BY <1>1, Stored
  <1>3. JarInv' /\ UNCHANGED <<row, gen, change, run>>
    BY <1>1, NextJarInv DEF CacheInv, jarVars
  <1> QED
    BY <1>1, <1>2, <1>3, Stored, Finishing

LEMMA MemoryMissKeeps ==
  ASSUME CacheInv, NEW c \in Callers, MemoryMiss(c)
  PROVE  CacheInv'
  <1>0. caller[c] \in CallerType /\ Placed(caller[c]) /\ Sound(caller[c]) /\ caller[c].pc = "memory"
    BY LocalsType DEF MemoryMiss, At
  <1>1. PICK local : local = [caller[c] EXCEPT !.pc = "database"]
    OBVIOUS
  <1>2. /\ Becomes(c, local) /\ mem' = Nothing
        /\ UNCHANGED <<jarVars, db, flight, coordinator, toolVars, spawned>>
    BY <1>1 DEF MemoryMiss, GoTo
  <1>3. local \in CallerType
    BY <1>0, <1>1 DEF CallerType, CallerPC
  <1>4. /\ local.pc = "database" /\ local.leads = caller[c].leads /\ local.key = caller[c].key
        /\ local.joined = caller[c].joined /\ local.since = caller[c].since
        /\ local.inside = caller[c].inside
    BY <1>0, <1>1 DEF CallerType
  <1>5. (Works(local) <=> Works(caller[c])) /\ Placed(local) /\ Sound(local)
    BY <1>0, <1>4 DEF Placed, Works, Sound
  <1>6. mem' \in Entries \cup {Nothing} /\ Honest(mem')
    BY <1>2 DEF Honest
  <1> QED
    BY <1>2, <1>3, <1>4, <1>5, <1>6, PlainMove, Stored

LEMMA DatabaseHitKeeps ==
  ASSUME CacheInv, NEW c \in Callers, DatabaseHit(c)
  PROVE  CacheInv'
  <1>1. /\ caller[c].pc = "database" /\ db # Nothing /\ mem' = db /\ Finish(c, db)
        /\ UNCHANGED <<jarVars, db, toolVars, spawned>>
    BY DEF DatabaseHit, At, Fits
  <1>2. db \in Entries
    BY <1>1, Stored
  <1>3. JarInv' /\ UNCHANGED <<row, gen, change, run>>
    BY <1>1, NextJarInv DEF CacheInv, jarVars
  <1> QED
    BY <1>1, <1>2, <1>3, Stored, Finishing

LEMMA ReadFailsKeeps ==
  ASSUME CacheInv, NEW c \in Callers, ReadFails(c)
  PROVE  CacheInv'
  <1>1. /\ caller[c].pc \in {"jar", "version", "database"} /\ Finish(c, Failed)
        /\ UNCHANGED <<jarVars, mem, db, toolVars, spawned>>
    BY DEF ReadFails
  <1>2. JarInv' /\ UNCHANGED <<row, gen, change, run>>
    BY <1>1, NextJarInv DEF CacheInv, jarVars
  <1> QED
    BY <1>1, <1>2, Stored, Finishing

\* A leader that misses in the database holds the coordinator, so that its
\* extraction is the only one, and the database has nothing for it.
LEMMA DatabaseMissKeeps ==
  ASSUME CacheInv, NEW c \in Callers, DatabaseMiss(c)
  PROVE  CacheInv'
  <1>0. caller[c] \in CallerType /\ Placed(caller[c]) /\ Sound(caller[c]) /\ caller[c].pc = "database"
    BY LocalsType DEF DatabaseMiss, At
  <1>1. CASE ExtractAfterMiss(c)
    <2>1. PICK local : local = [caller[c] EXCEPT !.pc = "extract"]
      OBVIOUS
    <2>2. /\ Becomes(c, local) /\ caller[c].leads /\ Extract(Leader)
          /\ ~Fits(db, caller[c].key)
          /\ UNCHANGED <<mem, db, flight, coordinator, toolVars, spawned>>
      BY <1>1, <2>1 DEF ExtractAfterMiss, GoTo, DatabaseMiss
    <2>3. local \in CallerType
      BY <1>0, <2>1 DEF CallerType, CallerPC
    <2>4. /\ local.pc = "extract" /\ local.leads /\ local.key = caller[c].key
          /\ local.joined = caller[c].joined /\ local.since = caller[c].since
          /\ local.inside = caller[c].inside
      BY <1>0, <2>1, <2>2 DEF CallerType
    <2>5. Works(local) /\ Works(caller[c]) /\ Placed(local)
      BY <1>0, <2>2, <2>4 DEF Placed, Works
    <2>6. /\ run'[Leader].pc \in {"stage", "bareFirst"} /\ run'[Leader].since = gen
          /\ UNCHANGED <<row, file, gen, verdict, holder, change>>
      <3>1. run \in [Runs -> RunType] /\ Leader \in Runs
        BY LeaderAssumption DEF CacheInv, JarInv, JarTypeOK
      <3>2. PICK pc \in {"stage", "bareFirst"} :
              run' = [run EXCEPT ![Leader] = [IdleRun EXCEPT !.pc = pc, !.since = gen]]
        BY <2>2 DEF Extract, RunBecomes
      <3>3. run'[Leader].pc = pc /\ run'[Leader].since = gen
        BY <3>1, <3>2 DEF IdleRun
      <3> QED
        BY <2>2, <3>3 DEF Extract
    <2>7. Sound(local)'
      <3>1. Changing' = Changing
        BY <2>6 DEF Changing, Replacing
      <3> QED
        BY <1>0, <2>2, <2>4, <2>5, <2>6, <3>1 DEF Sound, Fits, toolVars, Works
    <2>8. JarInv'
      BY <2>2, LeaderAssumption, NextJarInv DEF CacheInv, JarNext
    <2>9. CellsHeld' /\ flight' \in [Keys -> Entries \cup {Nothing, Failed}]
      BY <2>2, <2>4, CellsStay
    <2>10. /\ coordinator' \in Callers \cup {Nobody} /\ coordinator' = c
           /\ \A d \in Callers \ {c} : coordinator' = d <=> coordinator = d
      BY <2>2, <2>5 DEF CacheInv, TypeInv
    <2> QED
      BY <2>2, <2>3, <2>5, <2>6, <2>7, <2>8, <2>9, <2>10, Stored, CallerMoves
  <1>2. CASE ~caller[c].leads /\ GoTo(c, "join") /\ UNCHANGED <<jarVars, mem, db, flight, coordinator, toolVars, spawned>>
    <2>1. PICK local : local = [caller[c] EXCEPT !.pc = "join"]
      OBVIOUS
    <2>2. Becomes(c, local)
      BY <1>2, <2>1 DEF GoTo
    <2>3. local \in CallerType
      BY <1>0, <2>1 DEF CallerType, CallerPC
    <2>4. /\ local.pc = "join" /\ local.leads = caller[c].leads /\ local.key = caller[c].key
          /\ local.joined = caller[c].joined
      BY <1>0, <2>1 DEF CallerType
    <2>5. ~Works(local) /\ ~Works(caller[c]) /\ Placed(local) /\ Sound(local)
      BY <1>0, <1>2, <2>4 DEF Placed, Works, Sound
    <2> QED
      BY <1>2, <2>2, <2>3, <2>4, <2>5, PlainMove, Stored
  <1> QED
    BY <1>1, <1>2 DEF DatabaseMiss

-----------------------------------------------------------------------------
(* The flight.                                                             *)

LEMMA JoinKeeps ==
  ASSUME CacheInv, NEW c \in Callers, Join(c)
  PROVE  CacheInv'
  <1>0. caller[c] \in CallerType /\ Placed(caller[c]) /\ Sound(caller[c]) /\ caller[c].pc = "join"
    BY LocalsType DEF Join, At
  <1>1. PICK local : local = [caller[c] EXCEPT !.pc = "wait", !.joined = caller[c].key]
    OBVIOUS
  <1>2. Becomes(c, local) /\ UNCHANGED <<jarVars, mem, db, flight, coordinator, toolVars, spawned>>
    BY <1>1 DEF Join
  <1>3. local \in CallerType
    BY <1>0, <1>1 DEF CallerType, CallerPC
  <1>4. /\ local.pc = "wait" /\ local.leads = caller[c].leads /\ local.key = caller[c].key
        /\ local.joined = caller[c].key
    BY <1>0, <1>1 DEF CallerType
  <1>5. ~caller[c].leads /\ caller[c].joined = Nothing /\ local.joined # Nothing
    BY <1>0, <1>4, OutcomesAssumption DEF Placed, Works, CallerType
  <1>6. ~Works(local) /\ ~Works(caller[c]) /\ Placed(local) /\ Sound(local)
    BY <1>0, <1>4, <1>5 DEF Placed, Works, Sound
  <1> QED
    BY <1>2, <1>3, <1>4, <1>5, <1>6, PlainMove, Stored

LEMMA LeadKeeps ==
  ASSUME CacheInv, NEW c \in Callers, Lead(c)
  PROVE  CacheInv'
  <1>0. caller[c] \in CallerType /\ Placed(caller[c]) /\ Sound(caller[c]) /\ caller[c].pc = "wait"
    BY LocalsType DEF Lead, At
  <1>1. PICK local : local = [caller[c] EXCEPT !.pc = "queue", !.leads = TRUE]
    OBVIOUS
  <1>2. Becomes(c, local) /\ UNCHANGED <<jarVars, mem, db, flight, coordinator, toolVars, spawned>>
    BY <1>1 DEF Lead
  <1>3. local \in CallerType
    BY <1>0, <1>1 DEF CallerType, CallerPC
  <1>4. /\ local.pc = "queue" /\ local.leads /\ local.key = caller[c].key
        /\ local.joined = caller[c].joined
    BY <1>0, <1>1 DEF CallerType
  <1>5. ~Works(local) /\ ~Works(caller[c]) /\ Placed(local) /\ Sound(local)
    BY <1>0, <1>4 DEF Placed, Works, Sound
  <1> QED
    BY <1>2, <1>3, <1>4, <1>5, PlainMove, Stored

LEMMA ShareKeeps ==
  ASSUME CacheInv, NEW c \in Callers, Share(c)
  PROVE  CacheInv'
  <1>0. caller[c] \in CallerType /\ Placed(caller[c]) /\ Sound(caller[c]) /\ caller[c].pc = "wait"
    BY LocalsType DEF Share, At
  <1>1. PICK key, outcome : key = caller[c].joined /\ outcome = flight[key]
    OBVIOUS
  <1>2. key \in Keys /\ outcome \in Entries \cup {Nothing, Failed}
    BY <1>0, <1>1 DEF Placed, CallerType, CacheInv, TypeInv
  <1>3. PICK local : local = [caller[c] EXCEPT !.pc = "done", !.joined = Nothing, !.got = outcome]
    OBVIOUS
  <1>4. Becomes(c, local) /\ Leave(c) /\ UNCHANGED <<jarVars, mem, db, coordinator, toolVars, spawned>>
    BY <1>1, <1>3 DEF Share
  <1>5. local \in CallerType
    BY <1>0, <1>2, <1>3 DEF CallerType, CallerPC
  <1>6. /\ local.pc = "done" /\ local.leads = caller[c].leads /\ local.key = caller[c].key
        /\ local.joined = Nothing
    BY <1>0, <1>3 DEF CallerType
  <1>7. ~Works(local) /\ ~Works(caller[c]) /\ Placed(local)
    BY <1>0, <1>6 DEF Placed, Works
  <1>8. CellsHeld' /\ flight' \in [Keys -> Entries \cup {Nothing, Failed}]
    <2>1. \/ flight' = [flight EXCEPT ![key] = Nothing]
          \/ ~Empties(key, c) /\ UNCHANGED flight
      BY <1>1, <1>2, <1>4, OutcomesAssumption DEF Leave
    <2> QED
      BY <1>1, <1>4, <1>6, <2>1, LeavingKeepsCells
  <1>9. JarInv' /\ UNCHANGED <<row, gen, change, run>>
    BY <1>4, NextJarInv DEF CacheInv, jarVars
  <1>10. Sound(local)'
    BY <1>0, <1>4, <1>6, <1>7 DEF Sound, toolVars
  <1>11. /\ coordinator' \in Callers \cup {Nobody} /\ coordinator' # c
         /\ \A d \in Callers \ {c} : coordinator' = d <=> coordinator = d
    BY <1>4, <1>7 DEF CacheInv, TypeInv
  <1> QED
    BY <1>4, <1>5, <1>7, <1>8, <1>9, <1>10, <1>11, Stored, CallerMoves

\* The generation is noted, and whether a change is under way.
LEMMA TakeCoordinatorKeeps ==
  ASSUME CacheInv, NEW c \in Callers, TakeCoordinator(c)
  PROVE  CacheInv'
  <1>0. caller[c] \in CallerType /\ Placed(caller[c]) /\ Sound(caller[c]) /\ caller[c].pc = "queue"
    BY LocalsType DEF TakeCoordinator, At
  <1>1. PICK inside \in BOOLEAN : inside = Changing
    BY Zenon DEF Changing
  <1>2. PICK local : local = [caller[c] EXCEPT !.pc = "jar", !.since = gen, !.inside = inside]
    OBVIOUS
  <1>3. /\ Becomes(c, local) /\ coordinator = Nobody /\ coordinator' = c
        /\ UNCHANGED <<jarVars, mem, db, flight, toolVars, spawned>>
    BY <1>1, <1>2 DEF TakeCoordinator
  <1>4. gen \in Nat
    BY BoundAssumption DEF CacheInv, JarInv, JarTypeOK
  <1>5. local \in CallerType
    BY <1>0, <1>2, <1>4 DEF CallerType, CallerPC
  <1>6. /\ local.pc = "jar" /\ local.leads /\ local.key = caller[c].key
        /\ local.joined = caller[c].joined /\ local.since = gen
    BY <1>0, <1>2 DEF CallerType, Placed
  <1>7. ~local.inside => ~Changing
    <2>1. local.inside = inside
      BY <1>0, <1>2 DEF CallerType
    <2>2. ~inside => ~Changing
      BY <1>1, Zenon
    <2> QED
      BY <2>1, <2>2
  <1>8. Works(local) /\ Placed(local)
    BY <1>0, <1>6 DEF Placed, Works
  <1>9. Sound(local)'
    <2>1. Changing' = Changing
      BY <1>3 DEF Changing, Replacing, jarVars
    <2> QED
      BY <1>0, <1>3, <1>4, <1>6, <1>7, <2>1 DEF Sound, toolVars, jarVars
  <1>10. CellsHeld' /\ flight' \in [Keys -> Entries \cup {Nothing, Failed}]
    BY <1>3, <1>6, CellsStay
  <1>11. JarInv' /\ UNCHANGED <<row, gen, change, run>>
    BY <1>3, NextJarInv DEF CacheInv, jarVars
  <1>12. /\ coordinator' \in Callers \cup {Nobody}
         /\ \A d \in Callers \ {c} : coordinator' = d <=> coordinator = d
    BY <1>3, OutcomesAssumption
  <1> QED
    BY <1>3, <1>5, <1>8, <1>9, <1>10, <1>11, <1>12, Stored, CallerMoves

\* What came back was got with the jar of the row, if that is still the one
\* the caller hashed.
LEMMA ResultBackKeeps ==
  ASSUME CacheInv, NEW c \in Callers, ResultBack(c)
  PROVE  CacheInv'
  <1>0. caller[c] \in CallerType /\ Placed(caller[c]) /\ Sound(caller[c]) /\ caller[c].pc = "extract"
    BY LocalsType DEF ResultBack, At
  <1>1. RunOver(Leader) /\ UNCHANGED <<mem, db, toolVars, spawned>>
    BY DEF ResultBack
  <1>2. JarInv' /\ UNCHANGED <<row, gen, change>>
    BY <1>1, LeaderAssumption, NextJarInv DEF CacheInv, JarNext, RunOver
  <1>3. Works(caller[c])
    BY <1>0 DEF Works, Placed
  <1>4. CASE Finish(c, Failed)
    BY <1>0, <1>1, <1>2, <1>3, <1>4, Stored, Finishing
  <1>5. CASE /\ run[Leader].result # Failed
             /\ Becomes(c, [caller[c] EXCEPT !.pc = "publish", !.got = EntryOf(c)])
             /\ UNCHANGED <<flight, coordinator>>
    <2>1. PICK entry : entry = EntryOf(c)
      OBVIOUS
    <2>2. run[Leader] \in RunType /\ run[Leader].pc = "done"
      BY <1>1, LeaderAssumption DEF CacheInv, JarInv, JarTypeOK, RunOver, RunAt
    <2>3. entry \in Entries
      <3>1. run[Leader].result \in Jar
        BY <1>5, <2>2 DEF RunType
      <3>2. spawned \in Versions /\ caller[c].key \in Keys /\ caller[c].inside \in BOOLEAN
        BY <1>0 DEF CacheInv, TypeInv, CallerType
      <3> QED
        BY <2>1, <3>1, <3>2 DEF EntryOf, Entries
    <2>4. /\ entry.key = caller[c].key /\ entry.login = run[Leader].result
          /\ entry.binary = spawned /\ entry.inside = caller[c].inside
      BY <2>1 DEF EntryOf
    <2>5. PICK local : local = [caller[c] EXCEPT !.pc = "publish", !.got = entry]
      OBVIOUS
    <2>6. Becomes(c, local)
      BY <1>5, <2>1, <2>5
    <2>7. local \in CallerType
      BY <1>0, <2>3, <2>5 DEF CallerType, CallerPC
    <2>8. /\ local.pc = "publish" /\ local.leads = caller[c].leads /\ local.key = caller[c].key
          /\ local.joined = caller[c].joined /\ local.since = caller[c].since
          /\ local.inside = caller[c].inside /\ local.got = entry
      BY <1>0, <2>5 DEF CallerType
    <2>9. Works(local) /\ Placed(local)
      BY <1>0, <1>3, <2>8 DEF Works, Placed
    <2>10. local.since = gen /\ ~local.inside
             => ~Changing /\ local.key.jar = row /\ OwnLogin(entry)
      <3> SUFFICES ASSUME local.since = gen, ~local.inside
                   PROVE  ~Changing /\ local.key.jar = row /\ OwnLogin(entry)
        OBVIOUS
      <3>1. ~Changing /\ caller[c].key.jar = row /\ run[Leader].since = gen
        BY <1>0, <1>3, <2>8 DEF Sound
      <3>2. run[Leader].result \in {row, NoJar, Failed}
        BY <2>2, <3>1, LeaderAssumption DEF CacheInv, JarInv, Knows
      <3> QED
        BY <1>5, <2>4, <2>8, <3>1, <3>2 DEF OwnLogin
    <2>11. entry.key.version <= entry.binary
      BY <1>0, <2>2, <2>4 DEF Sound
    <2>12. Sound(local)'
      <3>1. Changing' = Changing
        BY <1>2 DEF Changing, Replacing
      <3> QED
        BY <1>0, <1>1, <1>2, <1>3, <2>3, <2>4, <2>8, <2>9, <2>10, <2>11, <3>1
           DEF Sound, toolVars
    <2>13. CellsHeld' /\ flight' \in [Keys -> Entries \cup {Nothing, Failed}]
      BY <1>5, <2>6, <2>8, CellsStay
    <2>14. /\ coordinator' \in Callers \cup {Nobody} /\ coordinator' = c
           /\ \A d \in Callers \ {c} : coordinator' = d <=> coordinator = d
      BY <1>3, <1>5 DEF CacheInv, TypeInv
    <2> QED
      BY <1>1, <1>2, <1>3, <2>6, <2>7, <2>9, <2>12, <2>13, <2>14, Stored, CallerMoves
  <1> QED
    BY <1>4, <1>5 DEF ResultBack

LEMMA PublishKeeps ==
  ASSUME CacheInv, NEW c \in Callers, Publish(c)
  PROVE  CacheInv'
  <1>0. caller[c] \in CallerType /\ Placed(caller[c]) /\ Sound(caller[c]) /\ caller[c].pc = "publish"
    BY LocalsType DEF Publish, At
  <1>1. UNCHANGED <<jarVars, mem, db, toolVars, spawned>>
    BY DEF Publish
  <1>2. Works(caller[c]) /\ caller[c].got \in Entries
    BY <1>0 DEF Works, Placed, Sound
  <1>3. CASE gen = caller[c].since
    <2>1. PICK local : local = [caller[c] EXCEPT !.pc = "store"]
      OBVIOUS
    <2>2. Becomes(c, local) /\ UNCHANGED <<flight, coordinator>>
      BY <1>3, <2>1 DEF Publish, GoTo
    <2>3. local \in CallerType
      BY <1>0, <2>1 DEF CallerType, CallerPC
    <2>4. /\ local.pc = "store" /\ local.leads = caller[c].leads /\ local.key = caller[c].key
          /\ local.joined = caller[c].joined /\ local.since = caller[c].since
          /\ local.inside = caller[c].inside /\ local.got = caller[c].got
      BY <1>0, <2>1 DEF CallerType
    <2>5. Works(local) /\ Placed(local)
      BY <1>0, <1>2, <2>4 DEF Works, Placed
    <2>6. Honest(local.got)
      BY <1>0, <1>2, <1>3, <2>4 DEF Sound, Honest
    <2>7. Sound(local)
      BY <1>0, <1>2, <2>4, <2>5, <2>6 DEF Sound
    <2> QED
      BY <1>1, <1>2, <2>2, <2>3, <2>4, <2>5, <2>7, PlainMove, Stored
  <1>4. CASE Finish(c, caller[c].got)
    <2>1. JarInv' /\ UNCHANGED <<row, gen, change, run>>
      BY <1>1, NextJarInv DEF CacheInv, jarVars
    <2> QED
      BY <1>0, <1>1, <1>2, <1>4, <2>1, Stored, Finishing
  <1> QED
    BY <1>3, <1>4 DEF Publish

LEMMA StoreInDbKeeps ==
  ASSUME CacheInv, NEW c \in Callers, StoreInDb(c)
  PROVE  CacheInv'
  <1>0. caller[c] \in CallerType /\ Placed(caller[c]) /\ Sound(caller[c]) /\ caller[c].pc = "store"
    BY LocalsType DEF StoreInDb, At
  <1>1. UNCHANGED <<jarVars, mem, toolVars, spawned>>
    BY DEF StoreInDb
  <1>2. Works(caller[c]) /\ caller[c].got \in Entries /\ Honest(caller[c].got)
    BY <1>0 DEF Works, Placed, Sound
  <1>3. CASE db' = caller[c].got /\ GoTo(c, "insert") /\ UNCHANGED <<flight, coordinator>>
    <2>1. PICK local : local = [caller[c] EXCEPT !.pc = "insert"]
      OBVIOUS
    <2>2. Becomes(c, local)
      BY <1>3, <2>1 DEF GoTo
    <2>3. local \in CallerType
      BY <1>0, <2>1 DEF CallerType, CallerPC
    <2>4. /\ local.pc = "insert" /\ local.leads = caller[c].leads /\ local.key = caller[c].key
          /\ local.joined = caller[c].joined /\ local.since = caller[c].since
          /\ local.inside = caller[c].inside /\ local.got = caller[c].got
      BY <1>0, <2>1 DEF CallerType
    <2>5. Works(local) /\ Placed(local)
      BY <1>0, <1>2, <2>4 DEF Works, Placed
    <2>6. Sound(local)
      BY <1>0, <1>2, <2>4, <2>5 DEF Sound
    <2>7. db' \in Entries \cup {Nothing} /\ Honest(db')
      BY <1>2, <1>3
    <2> QED
      BY <1>1, <1>2, <1>3, <2>2, <2>3, <2>4, <2>5, <2>6, <2>7, PlainMove, Stored
  <1>4. CASE Finish(c, Failed) /\ UNCHANGED db
    <2>1. JarInv' /\ UNCHANGED <<row, gen, change, run>>
      BY <1>1, NextJarInv DEF CacheInv, jarVars
    <2> QED
      BY <1>0, <1>1, <1>4, <2>1, Stored, Finishing
  <1> QED
    BY <1>3, <1>4 DEF StoreInDb

LEMMA InsertKeeps ==
  ASSUME CacheInv, NEW c \in Callers, Insert(c)
  PROVE  CacheInv'
  <1>0. Placed(caller[c]) /\ Sound(caller[c]) /\ caller[c].pc = "insert"
    BY LocalsType DEF Insert, At
  <1>1. /\ mem' = caller[c].got /\ Finish(c, caller[c].got)
        /\ UNCHANGED <<jarVars, db, toolVars, spawned>>
    BY DEF Insert
  <1>2. caller[c].got \in Entries /\ Honest(caller[c].got)
    BY <1>0 DEF Sound
  <1>3. JarInv' /\ UNCHANGED <<row, gen, change, run>>
    BY <1>1, NextJarInv DEF CacheInv, jarVars
  <1>4. mem' \in Entries \cup {Nothing} /\ Honest(mem')
    BY <1>1, <1>2
  <1> QED
    BY <1>0, <1>1, <1>2, <1>3, <1>4, Stored, Finishing

LEMMA IdleIsSound ==
  ASSUME CacheInv
  PROVE  IdleCaller \in CallerType /\ Placed(IdleCaller) /\ Sound(IdleCaller)
         /\ IdleCaller.joined = Nothing /\ IdleCaller.pc = "idle" /\ ~Works(IdleCaller)
         /\ IdleCaller.key.version = 1
  <1>1. [jar |-> NoJar, version |-> 1] \in Keys
    BY LatestAssumption DEF Keys, Jar, Versions
  <1>2. IdleCaller \in CallerType
    BY <1>1 DEF IdleCaller, CallerType, CallerPC
  <1>3. 1 <= version
    BY LatestAssumption DEF CacheInv, TypeInv, Versions
  <1> QED
    BY <1>2, <1>3 DEF IdleCaller, Placed, Sound, Works

LEMMA ReturnKeeps ==
  ASSUME CacheInv, NEW c \in Callers, Return(c)
  PROVE  CacheInv'
  <1>0. caller[c] \in CallerType /\ Placed(caller[c]) /\ Sound(caller[c]) /\ caller[c].pc = "done"
    BY LocalsType DEF Return, At
  <1>1. /\ Becomes(c, IdleCaller)
        /\ UNCHANGED <<jarVars, mem, db, flight, coordinator, toolVars, spawned>>
    BY DEF Return
  <1>2. ~Works(caller[c]) /\ caller[c].joined = Nothing
    BY <1>0 DEF Works, Placed
  <1>3. PICK local \in CallerType : local = IdleCaller
    BY IdleIsSound
  <1>4. Becomes(c, local) /\ Placed(local) /\ Sound(local) /\ ~Works(local) /\ local.pc # "extract"
    BY <1>1, <1>3, IdleIsSound
  <1> QED
    BY <1>1, <1>2, <1>4, PlainMove, Stored

\* Whoever is dropped while it waits for yt-dlp takes the run with it, and
\* the run the lock.
LEMMA RunDropped ==
  ASSUME JarInv, NEW x \in Runs, run' = [run EXCEPT ![x] = IdleRun],
         holder' = IF holder = x THEN Nobody ELSE holder,
         UNCHANGED <<row, file, gen, verdict, change>>
  PROVE  JarInv'
  <1>1. /\ run'[x] = IdleRun /\ \A y \in Runs \ {x} : run'[y] = run[y]
        /\ run \in [Runs -> RunType] /\ gen \in Nat
    BY BoundAssumption DEF JarInv, JarTypeOK
  <1>2. Changing' = Changing /\ \A c \in Replacers : Replacing(c)' = Replacing(c)
    BY DEF Changing, Replacing
  <1>3. IdleRun \in RunType /\ IdleRun.pc = "idle" /\ IdleRun.since = 0 /\ IdleRun.staged = 0
    BY DEF IdleRun, RunType, RunPC, Jar
  <1>4. \A y \in Runs : Knows(run[y])'
    <2> TAKE y \in Runs
    <2>1. CASE y = x
      BY <2>1, <1>1, <1>3 DEF Knows, HoldsJar
    <2>2. CASE y # x
      BY <2>2, <1>1, <1>2 DEF JarInv, Knows, HoldsJar
    <2> QED
      BY <2>1, <2>2
  <1>5. JarTypeOK'
    <2>1. run' \in [Runs -> RunType]
      BY <1>1, <1>3
    <2>2. \A y \in Runs : RunAt(y, "rename")' <=> holder' = y
      <3> TAKE y \in Runs
      <3>1. RunAt(y, "rename") <=> holder = y
        BY DEF JarInv, JarTypeOK
      <3>2. Nobody # y
        BY ActorsAssumption
      <3> QED
        BY <3>1, <3>2, <1>1, <1>3 DEF RunAt
    <2>3. \A c \in Replacers : Replacing(c)' <=> holder' = c
      <3> TAKE c \in Replacers
      <3>1. Replacing(c) <=> holder = c
        BY DEF JarInv, JarTypeOK
      <3>2. Nobody # c /\ x # c
        BY ActorsAssumption
      <3> QED
        BY <3>1, <3>2, <1>2
    <2>4. holder' \in Replacers \cup Runs \cup {Nobody}
      BY DEF JarInv, JarTypeOK
    <2> QED
      BY <2>1, <2>2, <2>3, <2>4 DEF JarInv, JarTypeOK
  <1>6. \A c \in Replacers : PhaseOK(c)'
    BY <1>2 DEF JarInv, PhaseOK
  <1>7. JarsAgree' /\ VerdictIsCurrent'
    BY <1>2 DEF JarInv, JarsAgree, VerdictIsCurrent
  <1> QED
    BY <1>4, <1>5, <1>6, <1>7 DEF JarInv

LEMMA CancelKeeps ==
  ASSUME CacheInv, NEW c \in Callers, Cancel(c)
  PROVE  CacheInv'
  <1>0. caller[c] \in CallerType /\ Placed(caller[c]) /\ Sound(caller[c])
    BY LocalsType
  <1>1. /\ Becomes(c, IdleCaller) /\ Leave(c)
        /\ coordinator' = IF coordinator = c THEN Nobody ELSE coordinator
        /\ UNCHANGED <<row, file, gen, verdict, change, mem, db, toolVars, spawned>>
    BY DEF Cancel
  <1>2. CellsHeld' /\ flight' \in [Keys -> Entries \cup {Nothing, Failed}]
    <2>1. PICK key : key = caller[c].joined
      OBVIOUS
    <2>2. \/ key = Nothing /\ UNCHANGED flight
          \/ flight' = [flight EXCEPT ![key] = Nothing]
          \/ ~Empties(key, c) /\ UNCHANGED flight
      BY <1>1, <2>1 DEF Leave
    <2> QED
      BY <1>1, <2>1, <2>2, IdleIsSound, LeavingKeepsCells
  <1>3. PICK local \in CallerType : local = IdleCaller
    BY IdleIsSound
  <1>4. /\ Becomes(c, local) /\ Placed(local) /\ ~Works(local)
        /\ local.pc = "idle" /\ local.key.version = 1
    BY <1>1, <1>3, IdleIsSound
  <1>5. Sound(local)'
    BY <1>1, <1>3, <1>4, IdleIsSound DEF Sound, toolVars
  <1>6. /\ coordinator' \in Callers \cup {Nobody} /\ coordinator' # c
        /\ \A d \in Callers \ {c} : coordinator' = d <=> coordinator = d
    BY <1>1, OutcomesAssumption DEF CacheInv, TypeInv
  <1>7. CASE At(c, "extract")
    <2>1. Works(caller[c])
      BY <1>0, <1>7 DEF At, Works, Placed
    <2>2. JarInv'
      <3>1. /\ run' = [run EXCEPT ![Leader] = IdleRun]
            /\ holder' = IF holder = Leader THEN Nobody ELSE holder
        BY <1>7 DEF Cancel
      <3> QED
        BY <1>1, <3>1, LeaderAssumption, RunDropped DEF CacheInv
    <2> QED
      BY <1>1, <1>2, <1>4, <1>5, <1>6, <2>1, <2>2, Stored, CallerMoves
  <1>8. CASE ~At(c, "extract")
    <2>1. UNCHANGED jarVars
      BY <1>1, <1>8 DEF Cancel, jarVars
    <2>2. JarInv' /\ UNCHANGED <<row, gen, change, run>>
      BY <2>1, NextJarInv DEF CacheInv, jarVars
    <2> QED
      BY <1>1, <1>2, <1>4, <1>5, <1>6, <2>2, Stored, CallerMoves
  <1> QED
    BY <1>7, <1>8

-----------------------------------------------------------------------------
(* Beside the callers.                                                     *)

\* A change begins with a new generation; until then the row stays.
LEMMA GenerationBrackets ==
  ASSUME JarInv, JarNext
  PROVE  /\ gen \in Nat /\ gen' \in Nat /\ gen <= gen'
         /\ gen' = gen /\ ~Changing => ~Changing' /\ row' = row
  <1>1. gen \in Nat /\ change \in [Replacers -> ChangeType]
    BY BoundAssumption DEF JarInv, JarTypeOK
  <1>2. CASE \E c \in Replacers : ChangeBegin(c) \/ Forget(c)
    BY <1>1, <1>2 DEF ChangeBegin, Forget, NewGeneration
  <1>3. CASE \E c \in Replacers : WriteFile(c) \/ CommitRow(c) \/ RestoreFile(c)
    <2>1. Changing
      BY <1>3 DEF WriteFile, CommitRow, RestoreFile, ChangeAt, Changing, Replacing
    <2> QED
      BY <1>1, <1>3, <2>1 DEF WriteFile, CommitRow, RestoreFile
  <1>4. CASE \E c \in Replacers :
                (\E new \in Jar : ChangeStart(c, new)) \/ ChangeNothing(c) \/ ChangeRefused(c)
    <2>1. PICK c \in Replacers :
             (\E new \in Jar : ChangeStart(c, new)) \/ ChangeNothing(c) \/ ChangeRefused(c)
      BY <1>4
    <2>2. gen' = gen /\ row' = row
      BY <2>1 DEF ChangeStart, ChangeNothing, ChangeRefused
    <2>3. ASSUME ChangeNothing(c) \/ ChangeRefused(c)
          PROVE  \E local : change' = [change EXCEPT ![c] = local] /\ local.pc \in {"idle", "lock"}
      <3>1. IdleChange.pc = "idle"
        BY DEF IdleChange
      <3>2. change' = [change EXCEPT ![c] = IdleChange]
        BY <2>3 DEF ChangeNothing, ChangeRefused
      <3> QED
        BY <3>1, <3>2
    <2>4. ASSUME NEW new \in Jar, ChangeStart(c, new)
          PROVE  \E local : change' = [change EXCEPT ![c] = local] /\ local.pc \in {"idle", "lock"}
      <3>1. PICK local : local = [IdleChange EXCEPT !.pc = "lock", !.new = new]
        OBVIOUS
      <3>2. local.pc = "lock"
        BY <3>1 DEF IdleChange
      <3>3. change' = [change EXCEPT ![c] = local]
        BY <2>4, <3>1, Zenon DEF ChangeStart
      <3> QED
        BY <3>2, <3>3
    <2>5. PICK local : change' = [change EXCEPT ![c] = local] /\ local.pc \in {"idle", "lock"}
      BY <2>1, <2>3, <2>4
    <2>6. \A d \in Replacers : Replacing(d)' => Replacing(d)
      BY <1>1, <2>5 DEF Replacing
    <2> QED
      BY <1>1, <2>2, <2>6 DEF Changing
  <1>5. CASE UNCHANGED <<row, gen, change>>
    BY <1>1, <1>5 DEF Changing, Replacing
  <1>6. ASSUME NEW x \in Runs, Extract(x) \/ RunStep(x) \/ RunOver(x)
        PROVE  UNCHANGED <<row, gen, change>>
    BY <1>6 DEF Extract, RunStep, RunOver, Stage, CopyJar, CookieRun, PersistLock,
                PersistRename, BareRetry, BareFirst
  <1>7. ExpireVerdict \/ LoseFile => UNCHANGED <<row, gen, change>>
    BY DEF ExpireVerdict, LoseFile
  <1> QED
    BY <1>2, <1>3, <1>4, <1>5, <1>6, <1>7 DEF JarNext, ChangeStep

\* A step of the jar, with the binary the leader's extraction runs.
LEMMA JarMoves ==
  ASSUME CacheInv, JarNext, UNCHANGED <<cacheVars, toolVars>>, spawned' \in {spawned, binary},
         run[Leader].pc # "idle" =>
            /\ run'[Leader].pc # "idle" /\ run'[Leader].since = run[Leader].since
            /\ \/ run'[Leader].pc \in {"stage", "copy", "bareFirst"}
               \/ spawned' = binary
               \/ spawned' = spawned /\ run[Leader].pc \notin {"stage", "copy", "bareFirst"}
  PROVE  CacheInv'
  <1>1. JarInv'
    BY NextJarInv DEF CacheInv
  <1>2. TypeInv' /\ version' <= binary' /\ CellsHeld'
    BY DEF CacheInv, TypeInv, CellsHeld, Crew, cacheVars, toolVars
  <1>3. \A c \in Callers : (coordinator' = c <=> Works(caller'[c])) /\ Placed(caller'[c])
    BY DEF CacheInv, cacheVars
  <1>4. Honest(mem') /\ Honest(db')
    BY DEF CacheInv, cacheVars
  <1>5. /\ gen \in Nat /\ gen' \in Nat /\ gen <= gen'
        /\ gen' = gen /\ ~Changing => ~Changing' /\ row' = row
    BY GenerationBrackets DEF CacheInv
  <1>6. version \in Nat /\ binary \in Nat /\ spawned \in Nat /\ version <= binary
    BY DEF CacheInv, TypeInv, Versions
  <1>7. ASSUME NEW c \in Callers PROVE Sound(caller[c])'
    <2>1. PICK local \in CallerType : local = caller[c] /\ Sound(local)
      BY LocalsType
    <2>2. caller'[c] = local /\ db' = db /\ version' = version
      BY <2>1 DEF cacheVars, toolVars
    <2>3. local.since \in Nat /\ local.key.version \in Nat /\ local.key.version <= version
      BY <2>1 DEF CallerType, Keys, Versions, Sound
    <2>4. Works(local) => local.since <= gen'
      BY <1>5, <2>1, <2>3 DEF Sound
    <2>5. ASSUME Works(local), local.since = gen', ~local.inside
          PROVE  /\ ~Changing'
                 /\ local.pc # "jar" => local.key.jar = row'
                 /\ local.pc = "extract" => run'[Leader].since = gen'
                 /\ local.pc = "publish" => OwnLogin(local.got)
      <3>1. gen' = gen /\ local.since = gen
        BY <1>5, <2>1, <2>3, <2>5 DEF Sound
      <3> QED
        BY <1>5, <2>1, <2>5, <3>1 DEF Sound
    <2>6. local.pc = "extract" =>
            /\ run'[Leader].pc # "idle"
            /\ run'[Leader].pc \in {"stage", "copy", "bareFirst"} \/ local.key.version <= spawned'
            /\ ~Fits(db', local.key)
      BY <1>6, <2>1, <2>2, <2>3 DEF Sound
    <2>7. Sound(local)'
      BY <2>1, <2>2, <2>3, <2>4, <2>5, <2>6 DEF Sound
    <2> QED
      BY <2>2, <2>7 DEF Sound
  <1> QED
    BY <1>1, <1>2, <1>3, <1>4, <1>7 DEF CacheInv

\* A run that steps on stays in its generation, and past its first process
\* it has been given the binary in place.
LEMMA ExtractingKeeps ==
  ASSUME CacheInv, NEW x \in Runs, Extracting(x)
  PROVE  CacheInv'
  <1>1. /\ RunStep(x) /\ JarNext /\ UNCHANGED <<cacheVars, toolVars>>
        /\ spawned' \in {spawned, binary}
    BY DEF Extracting, JarNext
  <1>2. run \in [Runs -> RunType] /\ Leader \in Runs
    BY LeaderAssumption DEF CacheInv, JarInv, JarTypeOK
  <1>3. CASE x # Leader
    <2>1. run'[Leader] = run[Leader]
      BY <1>1, <1>2, <1>3 DEF RunStep, Stage, CopyJar, CookieRun, PersistLock, PersistRename,
         BareRetry, BareFirst, RunBecomes, RunTo, RunEnds
    <2>2. spawned' = spawned
      BY <1>3 DEF Extracting
    <2> QED
      BY <1>1, <2>1, <2>2, JarMoves
  <1>4. CASE x = Leader
    <2>1. PICK old \in RunType : old = run[Leader]
      BY <1>2
    <2>2. ASSUME NEW local, RunBecomes(x, local) PROVE run'[Leader] = local
      BY <1>2, <1>4, <2>2 DEF RunBecomes
    <2>3. Settle(old).since = old.since /\ Settle(old).pc \in {"done", "bareRetry"}
      BY <2>1 DEF Settle, RunType
    <2>4. CASE Stage(x)
      <3>1. run'[Leader] = [old EXCEPT !.pc = "copy", !.staged = gen]
        BY <1>4, <2>1, <2>2, <2>4 DEF Stage
      <3>2. run'[Leader].pc = "copy" /\ run'[Leader].since = old.since
        BY <3>1, <2>1 DEF RunType
      <3> QED
        BY <1>1, <2>1, <3>2, JarMoves
    <2>5. CASE CopyJar(x) \/ BareFirst(x)
      <3>1. spawned' = binary
        BY <1>4, <2>5 DEF Extracting, Starts, CopyJar, BareFirst, RunAt
      <3>2. run'[Leader].pc # "idle" /\ run'[Leader].since = old.since
        <4>1. CASE CopyJar(x)
          <5>1. \/ \E jar : run'[Leader] = [old EXCEPT !.pc = "cookieRun", !.jar = jar]
                \/ run'[Leader] = [old EXCEPT !.pc = "done", !.result = Fallback(old)]
            BY <1>4, <2>1, <2>2, <4>1 DEF CopyJar, RunEnds
          <5> QED
            BY <2>1, <5>1 DEF RunType
        <4>2. CASE BareFirst(x)
          <5>1. \/ \E bare : run'[Leader] = [old EXCEPT !.pc = "stage", !.bare = bare]
                \/ run'[Leader] = [old EXCEPT !.pc = "done", !.result = NoJar]
            BY <1>4, <2>1, <2>2, <4>2 DEF BareFirst, RunEnds
          <5> QED
            BY <2>1, <5>1 DEF RunType
        <4> QED
          BY <2>5, <4>1, <4>2
      <3> QED
        BY <1>1, <2>1, <3>1, <3>2, JarMoves
    <2>6. CASE CookieRun(x) \/ PersistLock(x) \/ PersistRename(x) \/ BareRetry(x)
      <3>1. old.pc \notin {"stage", "copy", "bareFirst"}
        BY <1>4, <2>1, <2>6 DEF CookieRun, PersistLock, PersistRename, BareRetry, RunAt
      <3>2. run'[Leader].pc # "idle" /\ run'[Leader].since = old.since
        <4>1. CASE CookieRun(x)
          <5>1. \/ run'[Leader] = [old EXCEPT !.pc = "done", !.result = Fallback(old)]
                \/ \E usable \in BOOLEAN :
                     \/ run'[Leader] = [[old EXCEPT !.usable = usable] EXCEPT !.pc = "persist"]
                     \/ run'[Leader] = Settle([old EXCEPT !.usable = usable])
            BY <1>4, <2>1, <2>2, <4>1 DEF CookieRun, RunEnds
          <5> QED
            BY <2>1, <5>1 DEF RunType, Settle
        <4>2. CASE PersistLock(x)
          <5>1. run'[Leader] = [old EXCEPT !.pc = "rename"] \/ run'[Leader] = Settle(old)
            BY <1>4, <2>1, <2>2, <4>2 DEF PersistLock, RunTo
          <5> QED
            BY <2>1, <2>3, <5>1 DEF RunType
        <4>3. CASE PersistRename(x)
          BY <1>4, <2>1, <2>2, <2>3, <4>3 DEF PersistRename
        <4>4. CASE BareRetry(x)
          <5>1. \E result : run'[Leader] = [old EXCEPT !.pc = "done", !.result = result]
            BY <1>4, <2>1, <2>2, <4>4 DEF BareRetry, RunEnds
          <5> QED
            BY <2>1, <5>1 DEF RunType
        <4> QED
          BY <2>6, <4>1, <4>2, <4>3, <4>4
      <3> QED
        BY <1>1, <2>1, <3>1, <3>2, JarMoves
    <2> QED
      BY <1>1, <2>4, <2>5, <2>6 DEF RunStep
  <1> QED
    BY <1>3, <1>4

LEMMA JarElsewhereKeeps ==
  ASSUME CacheInv, JarElsewhere
  PROVE  CacheInv'
  <1>1. JarNext /\ UNCHANGED <<cacheVars, toolVars, spawned>>
    BY DEF JarElsewhere, JarNext
  <1>2. run'[Leader] = run[Leader]
    <2>1. run \in [Runs -> RunType] /\ Leader \in Runs
      BY LeaderAssumption DEF CacheInv, JarInv, JarTypeOK
    <2>2. CASE \E x \in Runs \ {Leader} : Extract(x) \/ RunOver(x)
      BY <2>1, <2>2 DEF Extract, RunOver, RunBecomes
    <2>3. CASE \E c \in Replacers : (\E new \in Jar : ChangeStart(c, new)) \/ ChangeStep(c)
      BY <2>3 DEF ChangeStart, ChangeStep, ChangeNothing, ChangeRefused, ChangeBegin,
         WriteFile, CommitRow, RestoreFile, Forget
    <2>4. CASE ExpireVerdict \/ LoseFile
      BY <2>4 DEF ExpireVerdict, LoseFile
    <2> QED
      BY <2>2, <2>3, <2>4 DEF JarElsewhere
  <1> QED
    BY <1>1, <1>2, JarMoves

\* Entries that go, and a binary that is newer.
LEMMA OthersKeep ==
  ASSUME CacheInv, ExpireMem \/ ExpireDb \/ InstallBinary \/ RecordVersion
  PROVE  CacheInv'
  <1>1. UNCHANGED <<jarVars, flight, coordinator, caller, spawned>>
    BY DEF ExpireMem, ExpireDb, InstallBinary, RecordVersion, cacheVars, toolVars
  <1>2. mem' \in {mem, Nothing} /\ db' \in {db, Nothing}
    BY DEF ExpireMem, ExpireDb, InstallBinary, RecordVersion, cacheVars
  <1>3. /\ binary' \in Versions /\ version' \in Versions
        /\ version <= version' /\ version' <= binary'
    BY LatestAssumption DEF ExpireMem, ExpireDb, InstallBinary, RecordVersion, toolVars,
       CacheInv, TypeInv, Versions
  <1>4. JarInv'
    BY <1>1, NextJarInv DEF CacheInv
  <1>5. TypeInv' /\ CellsHeld'
    BY <1>1, <1>2, <1>3 DEF CacheInv, TypeInv, CellsHeld, Crew
  <1>6. Honest(mem') /\ Honest(db')
    BY <1>2 DEF CacheInv, Honest
  <1>7. Changing' = Changing
    BY <1>1 DEF Changing, Replacing, jarVars
  <1>8. ASSUME NEW c \in Callers PROVE Sound(caller[c])'
    <2>1. caller[c].key.version \in Nat /\ version \in Nat /\ version' \in Nat
      BY <1>3, LocalsType DEF CacheInv, TypeInv, CallerType, Keys, Versions
    <2>2. Sound(caller[c])
      BY LocalsType
    <2>3. caller'[c].key.version <= version'
      BY <1>1, <1>3, <2>1, <2>2 DEF Sound
    <2>4. ~Fits(db, caller[c].key) => ~Fits(db', caller[c].key)
      BY <1>2 DEF Fits
    <2> QED
      BY <1>1, <1>7, <2>2, <2>3, <2>4 DEF Sound, jarVars, Fits
  <1> QED
    BY <1>1, <1>3, <1>4, <1>5, <1>6, <1>8 DEF CacheInv

-----------------------------------------------------------------------------
(* The invariant, and what it says.                                        *)

LEMMA InitCacheInv == Init => CacheInv
  <1> SUFFICES ASSUME Init PROVE CacheInv
    OBVIOUS
  <1>1. JarInv
    BY InitJarInv DEF Init
  <1>2. [jar |-> NoJar, version |-> 1] \in Keys /\ 1 \in Versions
    BY LatestAssumption DEF Keys, Jar, Versions
  <1>3. IdleCaller \in CallerType
    BY <1>2 DEF IdleCaller, CallerType, CallerPC
  <1>4. TypeInv
    BY <1>2, <1>3 DEF Init, TypeInv
  <1>5. CellsHeld
    BY DEF Init, CellsHeld
  <1>6. \A c \in Callers : caller[c] = IdleCaller /\ coordinator # c
    BY OutcomesAssumption DEF Init
  <1>7. ~Works(IdleCaller) /\ Placed(IdleCaller) /\ Sound(IdleCaller)
    BY DEF IdleCaller, Placed, Sound, Works, Init
  <1> QED
    BY <1>1, <1>4, <1>5, <1>6, <1>7 DEF CacheInv, Init, Honest

LEMMA NextCacheInv == CacheInv /\ [Next]_vars => CacheInv'
  <1> SUFFICES ASSUME CacheInv, [Next]_vars PROVE CacheInv'
    OBVIOUS
  <1>1. ASSUME NEW c \in Callers, Call(c) \/ CallerStep(c) \/ Return(c) \/ Cancel(c)
        PROVE  CacheInv'
    BY <1>1, CallKeeps, ReadJarKeeps, ReadVersionKeeps, MemoryHitKeeps, MemoryMissKeeps,
       DatabaseHitKeeps, DatabaseMissKeeps, ReadFailsKeeps, JoinKeeps, LeadKeeps, ShareKeeps,
       TakeCoordinatorKeeps, ResultBackKeeps, PublishKeeps, StoreInDbKeeps, InsertKeeps,
       ReturnKeeps, CancelKeeps DEF CallerStep
  <1>2. ASSUME NEW x \in Runs, Extracting(x) PROVE CacheInv'
    BY <1>2, ExtractingKeeps
  <1>3. CASE JarElsewhere
    BY <1>3, JarElsewhereKeeps
  <1>4. CASE ExpireMem \/ ExpireDb \/ InstallBinary \/ RecordVersion
    BY <1>4, OthersKeep
  <1>5. CASE UNCHANGED vars
    <2>1. JarInv'
      BY <1>5, NextJarInv DEF CacheInv, vars
    <2>2. UNCHANGED <<jarVars, cacheVars, toolVars, spawned>>
      BY <1>5 DEF vars
    <2>3. Changing' = Changing
      BY <2>2 DEF Changing, Replacing, jarVars
    <2>4. \A c \in Callers : Sound(caller[c])'
      BY <2>2, <2>3 DEF CacheInv, Sound, jarVars, cacheVars, toolVars
    <2> QED
      BY <2>1, <2>2, <2>4 DEF CacheInv, TypeInv, CellsHeld, Crew, cacheVars, toolVars
  <1> QED
    BY <1>1, <1>2, <1>3, <1>4, <1>5 DEF Next

LEMMA CacheInvariance == Spec => []CacheInv
  BY InitCacheInv, NextCacheInv, PTL DEF Spec

\* Every variable has its type, the coordinator is held by a leader at work
\* and a flight's cell holds something only while a caller has it.
THEOREM CacheTypeCorrect == Spec => []TypeOK
  <1>1. CacheInv => TypeOK
    <2> SUFFICES ASSUME CacheInv PROVE TypeOK
      OBVIOUS
    <2>1. \A c \in Callers : caller[c].pc \in CallerPC /\ caller[c].key \in Keys
      BY LocalsType DEF CallerType
    <2> QED
      BY <2>1 DEF CacheInv, TypeInv, CellsHeld, Works, TypeOK
  <1> QED
    BY <1>1, CacheInvariance, PTL

\* What get_or_extract files under the fingerprint of a jar was extracted
\* with that jar or logged out, unless the extraction began within a cookie
\* change.
THEOREM FiledUnderItsJar == Spec => []FiledUnlessInside
  <1>1. CacheInv => FiledUnlessInside
    BY DEF CacheInv, FiledUnlessInside, Cached, Honest, OwnLogin
  <1> QED
    BY <1>1, CacheInvariance, PTL

\* What it files under a yt-dlp version no older binary has made.
THEOREM NeverMadeByOlder == Spec => []NeverOlder
  <1>1. CacheInv => NeverOlder
    <2> SUFFICES ASSUME CacheInv, NEW e \in Cached PROVE e.binary >= e.key.version
      BY DEF NeverOlder
    <2>1. e \in Entries /\ e.key.version <= e.binary
      BY DEF CacheInv, TypeInv, Cached, Honest
    <2> QED
      BY <2>1 DEF Entries, Keys, Versions
  <1> QED
    BY <1>1, CacheInvariance, PTL

\* A leader never extracts what the database already has under its key.
THEOREM ExtractedOnce == Spec => []NeverExtractedTwice
  <1>1. CacheInv => NeverExtractedTwice
    BY DEF CacheInv, NeverExtractedTwice, At, Sound
  <1> QED
    BY <1>1, CacheInvariance, PTL
=============================================================================
