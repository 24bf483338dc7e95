----------------------------- MODULE VideoCache -----------------------------
(***************************************************************************)
(* The metadata cache of services/video_cache.rs for one video, composed   *)
(* with the cookie jar (CookieJar) and the yt-dlp updater: callers of      *)
(* get_or_extract look in memory, then in the database, and else share a   *)
(* flight, whose leader extracts under the video's coordinator.            *)
(*                                                                         *)
(* Entries are filed under a fingerprint of the stored cookies and the     *)
(* recorded yt-dlp version.  What an entry was really made with, the login *)
(* and the binary, is kept beside it: the cache itself cannot tell.        *)
(***************************************************************************)
EXTENDS CookieJar

CONSTANTS
    Callers,   \* concurrent get_or_extract calls for the video
    Leader,    \* the extraction of the video's leader, one of Runs
    Latest,    \* the newest yt-dlp version; versions count from 1
    Nothing    \* no entry, no outcome

ASSUME LeaderAssumption == Leader \in Runs
ASSUME LatestAssumption == Latest \in Nat \ {0}

VARIABLES
    mem,         \* the video's entry in VideoCache.inner
    db,          \* its row of video_metadata_cache
    flight,      \* what the OnceCell of each fingerprint holds
    coordinator, \* who holds the video's coordinator
    caller,      \* each get_or_extract call
    binary,      \* the installed yt-dlp
    version,     \* ytdlp_info.current_version
    spawned      \* the binary that got the leader's result

cacheVars == <<mem, db, flight, coordinator, caller>>
toolVars == <<binary, version>>
vars == <<jarVars, cacheVars, toolVars, spawned>>

Versions == 1 .. Latest
Keys == [jar: Jar, version: Versions]

\* The metadata with what it was made by; "inside" says that its extraction
\* began in the middle of a cookie change.
Entries == [key: Keys, login: Jar, binary: Versions, inside: BOOLEAN]

ASSUME OutcomesAssumption ==
    /\ Nothing \notin Entries \cup Keys /\ Failed \notin Entries \cup {Nothing}
    /\ Nobody \notin Callers

\* A caller's locals: the fingerprint in use, the one whose flight it has
\* joined, the generation its extraction began in, and what it returns.
CallerPC == {"idle", "jar", "version", "memory", "database", "join", "wait", "queue",
             "extract", "publish", "store", "insert", "done"}
IdleCaller == [pc |-> "idle", leads |-> FALSE, key |-> [jar |-> NoJar, version |-> 1],
               joined |-> Nothing, since |-> 0, inside |-> FALSE, got |-> Nothing]

Init ==
    /\ JarInit
    /\ mem = Nothing
    /\ db = Nothing
    /\ flight = [k \in Keys |-> Nothing]
    /\ coordinator = Nobody
    /\ caller = [c \in Callers |-> IdleCaller]
    /\ binary = 1
    /\ version = 1
    /\ spawned = 1

-----------------------------------------------------------------------------
(* get_or_extract up to its flight.                                        *)

At(c, label) == caller[c].pc = label
Becomes(c, locals) == caller' = [caller EXCEPT ![c] = locals]
GoTo(c, label) == Becomes(c, [caller[c] EXCEPT !.pc = label])

Call(c) ==
    /\ At(c, "idle")
    /\ GoTo(c, "jar")
    /\ UNCHANGED <<jarVars, mem, db, flight, coordinator, toolVars, spawned>>

\* current_extractor_config_key reads the cookies, then the version.
ReadJar(c) ==
    /\ At(c, "jar")
    /\ Becomes(c, [caller[c] EXCEPT !.pc = "version", !.key.jar = row])
    /\ UNCHANGED <<jarVars, mem, db, flight, coordinator, toolVars, spawned>>

ReadVersion(c) ==
    /\ At(c, "version")
    /\ Becomes(c, [caller[c] EXCEPT !.pc = "memory", !.key.version = version])
    /\ UNCHANGED <<jarVars, mem, db, flight, coordinator, toolVars, spawned>>

Fits(entry, key) == entry # Nothing /\ entry.key = key

\* The flights' map holds its cells weakly: a cell lives while someone has it.
Crew(key) == {c \in Callers : caller[c].joined = key}
Empties(key, leaving) == Crew(key) \subseteq {leaving}
Leave(c) ==
    LET key == caller[c].joined
    IN  flight' = IF key # Nothing /\ Empties(key, c)
                  THEN [flight EXCEPT ![key] = Nothing] ELSE flight

\* The leader leaves its outcome in the cell, the coordinator is free.
Finish(c, outcome) ==
    LET key == caller[c].joined
    IN  /\ Becomes(c, [caller[c] EXCEPT !.pc = "done", !.joined = Nothing, !.got = outcome])
        /\ IF caller[c].leads
           THEN /\ flight' = [flight EXCEPT ![key] = IF Empties(key, c) THEN Nothing ELSE outcome]
                /\ coordinator' = Nobody
           ELSE UNCHANGED <<flight, coordinator>>

\* get_cached, for a caller and again for its leader: a hit in memory ...
MemoryHit(c) ==
    /\ At(c, "memory")
    /\ Fits(mem, caller[c].key)
    /\ Finish(c, mem)
    /\ UNCHANGED <<jarVars, mem, db, toolVars, spawned>>

\* ... else the entry there is dropped ...
MemoryMiss(c) ==
    /\ At(c, "memory")
    /\ ~Fits(mem, caller[c].key)
    /\ mem' = Nothing
    /\ GoTo(c, "database")
    /\ UNCHANGED <<jarVars, db, flight, coordinator, toolVars, spawned>>

\* ... and the row, if it fits, takes its place.
DatabaseHit(c) ==
    /\ At(c, "database")
    /\ Fits(db, caller[c].key)
    /\ mem' = db
    /\ Finish(c, db)
    /\ UNCHANGED <<jarVars, db, toolVars, spawned>>

\* A leader that misses again runs yt-dlp.
ExtractAfterMiss(c) ==
    /\ caller[c].leads
    /\ GoTo(c, "extract")
    /\ Extract(Leader)
    /\ UNCHANGED <<mem, db, flight, coordinator, toolVars, spawned>>

DatabaseMiss(c) ==
    /\ At(c, "database")
    /\ ~Fits(db, caller[c].key)
    /\ \/ ExtractAfterMiss(c)
       \/ /\ ~caller[c].leads
          /\ GoTo(c, "join")
          /\ UNCHANGED <<jarVars, mem, db, flight, coordinator, toolVars, spawned>>

\* A query of the database fails.
ReadFails(c) ==
    /\ caller[c].pc \in {"jar", "version", "database"}
    /\ Finish(c, Failed)
    /\ UNCHANGED <<jarVars, mem, db, toolVars, spawned>>

-----------------------------------------------------------------------------
(* The flight.                                                             *)

Join(c) ==
    /\ At(c, "join")
    /\ Becomes(c, [caller[c] EXCEPT !.pc = "wait", !.joined = caller[c].key])
    /\ UNCHANGED <<jarVars, mem, db, flight, coordinator, toolVars, spawned>>

\* OnceCell::get_or_init: the first to come initialises the cell; when it
\* is cancelled, one of those waiting takes over.
Lead(c) ==
    /\ At(c, "wait")
    /\ flight[caller[c].joined] = Nothing
    /\ \A d \in Crew(caller[c].joined) : ~caller[d].leads
    /\ Becomes(c, [caller[c] EXCEPT !.pc = "queue", !.leads = TRUE])
    /\ UNCHANGED <<jarVars, mem, db, flight, coordinator, toolVars, spawned>>

Share(c) ==
    /\ At(c, "wait")
    /\ flight[caller[c].joined] # Nothing
    /\ Becomes(c, [caller[c] EXCEPT !.pc = "done", !.joined = Nothing,
                                    !.got = flight[caller[c].joined]])
    /\ Leave(c)
    /\ UNCHANGED <<jarVars, mem, db, coordinator, toolVars, spawned>>

\* Mutant: the leader does not look into the cache again.
TakeCoordinatorAndRun(c) ==
    /\ At(c, "queue")
    /\ coordinator = Nobody
    /\ coordinator' = c
    /\ Becomes(c, [caller[c] EXCEPT !.pc = "extract", !.since = gen, !.inside = Changing])
    /\ Extract(Leader)
    /\ UNCHANGED <<mem, db, flight, toolVars, spawned>>

\* Under the coordinator the generation is noted before the fingerprint is
\* taken again.
TakeCoordinator(c) ==
    /\ At(c, "queue")
    /\ coordinator = Nobody
    /\ coordinator' = c
    /\ Becomes(c, [caller[c] EXCEPT !.pc = "jar", !.since = gen, !.inside = Changing])
    /\ UNCHANGED <<jarVars, mem, db, flight, toolVars, spawned>>

\* What the extraction brought home; URLs about to expire are an error.
EntryOf(c) == [key |-> caller[c].key, login |-> run[Leader].result, binary |-> spawned,
               inside |-> caller[c].inside]
ResultBack(c) ==
    /\ At(c, "extract")
    /\ RunOver(Leader)
    /\ \/ Finish(c, Failed)
       \/ /\ run[Leader].result # Failed
          /\ Becomes(c, [caller[c] EXCEPT !.pc = "publish", !.got = EntryOf(c)])
          /\ UNCHANGED <<flight, coordinator>>
    /\ UNCHANGED <<mem, db, toolVars, spawned>>

\* Mutant: a result that straddled a cookie change is cached all the same.
PublishAnyway(c) ==
    /\ At(c, "publish")
    /\ GoTo(c, "store")
    /\ UNCHANGED <<jarVars, mem, db, flight, coordinator, toolVars, spawned>>

\* A result that straddled a cookie change is returned but not cached.
Publish(c) ==
    /\ At(c, "publish")
    /\ IF gen = caller[c].since
       THEN GoTo(c, "store") /\ UNCHANGED <<flight, coordinator>>
       ELSE Finish(c, caller[c].got)
    /\ UNCHANGED <<jarVars, mem, db, toolVars, spawned>>

StoreInDb(c) ==
    /\ At(c, "store")
    /\ \/ /\ db' = caller[c].got
          /\ GoTo(c, "insert")
          /\ UNCHANGED <<flight, coordinator>>
       \/ Finish(c, Failed) /\ UNCHANGED db
    /\ UNCHANGED <<jarVars, mem, toolVars, spawned>>

Insert(c) ==
    /\ At(c, "insert")
    /\ mem' = caller[c].got
    /\ Finish(c, caller[c].got)
    /\ UNCHANGED <<jarVars, db, toolVars, spawned>>

Return(c) ==
    /\ At(c, "done")
    /\ Becomes(c, IdleCaller)
    /\ UNCHANGED <<jarVars, mem, db, flight, coordinator, toolVars, spawned>>

\* Mutant: the place in the flight is lost with a cancelled leader.
CancelKeepsCoordinator(c) ==
    /\ caller[c].pc \notin {"idle", "done"}
    /\ Becomes(c, IdleCaller)
    /\ Leave(c)
    /\ run' = IF At(c, "extract") THEN [run EXCEPT ![Leader] = IdleRun] ELSE run
    /\ holder' = IF At(c, "extract") /\ holder = Leader THEN Nobody ELSE holder
    /\ UNCHANGED <<row, file, gen, verdict, change, mem, db, coordinator, toolVars, spawned>>

\* The client disconnects and its handler is dropped, with the guards it has
\* and with the extraction it waits for.
Cancel(c) ==
    /\ caller[c].pc \notin {"idle", "done"}
    /\ Becomes(c, IdleCaller)
    /\ Leave(c)
    /\ coordinator' = IF coordinator = c THEN Nobody ELSE coordinator
    /\ run' = IF At(c, "extract") THEN [run EXCEPT ![Leader] = IdleRun] ELSE run
    /\ holder' = IF At(c, "extract") /\ holder = Leader THEN Nobody ELSE holder
    /\ UNCHANGED <<row, file, gen, verdict, change, mem, db, toolVars, spawned>>

-----------------------------------------------------------------------------
(* Beside the callers.                                                     *)

\* An entry expires, or the cleanup evicts the row but not what is in memory.
ExpireMem == mem # Nothing /\ mem' = Nothing
             /\ UNCHANGED <<jarVars, db, flight, coordinator, caller, toolVars, spawned>>
ExpireDb == db # Nothing /\ db' = Nothing
            /\ UNCHANGED <<jarVars, mem, flight, coordinator, caller, toolVars, spawned>>

\* update_binary renames the new binary into place, then records its
\* version, which may fail; the next update tries again.
InstallBinary ==
    /\ version # Latest
    /\ binary' = Latest
    /\ UNCHANGED <<jarVars, cacheVars, version, spawned>>

\* Mutant: the version is recorded before the binary is in place.
RecordVersionFirst ==
    /\ version # Latest
    /\ version' = Latest
    /\ UNCHANGED <<jarVars, cacheVars, binary, spawned>>

RecordVersion ==
    /\ version # binary
    /\ version' = binary
    /\ UNCHANGED <<jarVars, cacheVars, binary, spawned>>

\* A yt-dlp process runs the binary in place when it is started; a result
\* that is kept over a later one is the earlier process's.
Starts(x) == CopyJar(x) \/ BareRetry(x) \/ BareFirst(x)
Extracting(x) ==
    /\ RunStep(x)
    /\ spawned' = IF x = Leader /\ Starts(x)
                     /\ (RunAt(x, "bareRetry") => run'[x].result = NoJar)
                  THEN binary ELSE spawned
    /\ UNCHANGED <<cacheVars, toolVars>>

JarElsewhere ==
    /\ \/ \E c \in Replacers : (\E new \in Jar : ChangeStart(c, new)) \/ ChangeStep(c)
       \/ \E x \in Runs \ {Leader} : Extract(x) \/ RunOver(x)
       \/ ExpireVerdict \/ LoseFile
    /\ UNCHANGED <<cacheVars, toolVars, spawned>>

CallerStep(c) ==
    \/ ReadJar(c) \/ ReadVersion(c) \/ MemoryHit(c) \/ MemoryMiss(c) \/ DatabaseHit(c)
    \/ DatabaseMiss(c) \/ ReadFails(c) \/ Join(c) \/ Lead(c) \/ Share(c)
    \/ TakeCoordinator(c) \/ ResultBack(c) \/ Publish(c) \/ StoreInDb(c) \/ Insert(c)

Next ==
    \/ \E c \in Callers : Call(c) \/ CallerStep(c) \/ Return(c) \/ Cancel(c)
    \/ \E x \in Runs : Extracting(x)
    \/ JarElsewhere \/ ExpireMem \/ ExpireDb \/ InstallBinary \/ RecordVersion

Spec == Init /\ [][Next]_vars

\* A handler that is not dropped runs on; tokio's Mutex and the semaphore of
\* its OnceCell let those waiting in turn; yt-dlp is killed on a timeout.
Fairness ==
    /\ \A c \in Callers : WF_vars(CallerStep(c)) /\ WF_vars(Return(c))
    /\ \A c \in Callers : SF_vars(TakeCoordinator(c)) /\ SF_vars(Lead(c))
    /\ WF_vars(Extracting(Leader))
    /\ \A c \in Replacers : WF_vars(ChangeStep(c) /\ UNCHANGED <<cacheVars, toolVars, spawned>>)

LiveSpec == Spec /\ Fairness

-----------------------------------------------------------------------------
\* Types, and who has what: a coordinator is held by a leader at work, and a
\* cell holds something only while somebody has it.
TypeOK ==
    /\ mem \in Entries \cup {Nothing}
    /\ db \in Entries \cup {Nothing}
    /\ flight \in [Keys -> Entries \cup {Nothing, Failed}]
    /\ \A k \in Keys : flight[k] # Nothing => Crew(k) # {}
    /\ \A c \in Callers : caller[c].pc \in CallerPC /\ caller[c].key \in Keys
    /\ \A c \in Callers :
          coordinator = c <=> caller[c].leads /\ caller[c].pc \notin {"queue", "done"}
    /\ binary \in Versions /\ version \in Versions /\ spawned \in Versions

Cached == {mem, db} \ {Nothing}

\* "any extraction overlapping it can tell that its key and result may
\* describe different jars, and decline to cache": what is filed under a jar
\* was extracted with that jar or logged out, unless the extraction began, and
\* so ended, between the two advances of the generation, where it can not tell.
FiledUnlessInside == \A e \in Cached : ~e.inside => e.login \in {e.key.jar, NoJar}

\* The database never has the metadata an extraction is made for: of the
\* leaders that queue for the coordinator, the later ones find the result of
\* the first.
NeverExtractedTwice == \A c \in Callers : At(c, "extract") => ~Fits(db, caller[c].key)

\* "active_config_key - the configuration yt-dlp actually ran with": metadata
\* filed under a version was made by it, or by a newer one whose version was
\* not on record yet; never by an older one, which updates exist to get rid of.
NeverOlder == \A e \in Cached : e.binary >= e.key.version

\* Every call returns unless its client leaves, whoever else leaves.
CallsReturn == \A c \in Callers : caller[c].pc # "idle" ~> caller[c].pc = "idle"
=============================================================================
