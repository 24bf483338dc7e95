---------------------------- MODULE OfflineStore ----------------------------
(***************************************************************************)
(* Downloads kept in the browser: the private file system with its         *)
(* manifest, the migration of an older cache, and the service worker that  *)
(* asks the open pages for what it cannot read itself                      *)
(* (frontend/src/services/offline-opfs.ts, offline.ts, opfs-bridge.ts,     *)
(* sw.ts, sw-register.ts, components/video-player.ts).                     *)
(*                                                                         *)
(* A task runs in a page from one await to the next and ends with it.  A   *)
(* file is written to a copy that takes its place when it is closed.       *)
(* Byte ranges are left out: what is served of a file is its content.      *)
(***************************************************************************)
EXTENDS Naturals

CONSTANTS
    Items,    \* pairs of a video and a quality
    VideoOf,  \* the video of an item
    Kept,     \* what has been downloaded before
    Older,    \* what a build before this one has left in its cache
    Pages,    \* tabs and windows
    Tasks,    \* downloads, deletions, playbacks and migrations
    NoPage

ASSUME VideoOfAssumption == DOMAIN VideoOf = Items
ASSUME KeptAssumption == Kept \subseteq Items /\ Older \subseteq Items
ASSUME NoPageAssumption == NoPage \notin Pages

VARIABLES
    files,     \* what the file of an item holds
    dirs,      \* videos with a directory
    manifest,  \* __index.json: the items listed
    legacy,    \* the cache of older builds: its items
    migrated,  \* localStorage: hometube-opfs-migrated
    open,      \* the open pages
    active,    \* the service worker of this build has taken over
    task,
    broken,    \* history: promises that need not hold any more
    owed       \* history: what older builds had, but for what is deleted

store == <<files, dirs, manifest>>
surroundings == <<legacy, migrated, open, active>>
history == <<broken, owed>>
vars == <<store, surroundings, task, history>>

\* A task: what it does, in which page, to which item, where it is, the pages
\* it has not asked and the one it has, the body it holds, what it has read of
\* the manifest, whether the manifest changed since, and what is left to copy.
NewTask == [op |-> "none", page |-> NoPage, item |-> CHOOSE i \in Items : TRUE, pc |-> "new",
            ask |-> {}, via |-> NoPage, body |-> "none", saw |-> {}, stale |-> FALSE, todo |-> {}]
Over == [NewTask EXCEPT !.pc = "done"]

At(t, pc) == task[t].pc = pc
Becomes(t, rec) == task' = [task EXCEPT ![t] = rec]
GoesTo(t, pc) == Becomes(t, [task[t] EXCEPT !.pc = pc])

\* At work on the store, and writing the file of i.
Working(t) == task[t].op # "play" /\ task[t].pc \notin {"new", "done"}
Writing(t, i) == At(t, "pipe") /\ task[t].item = i

\* An exception ends a task; the migration goes on with the next entry.
Throws(t) == IF task[t].op = "migrate" THEN [task[t] EXCEPT !.pc = "next"] ELSE Over
Skips(t) == IF task[t].op = "migrate" THEN {"migration"} ELSE {}
Promises == {"lockstep", "migration"}

Init ==
    /\ manifest = Kept
    /\ files = [i \in Items |-> IF i \in Kept THEN "whole" ELSE "none"]
    /\ dirs = {VideoOf[i] : i \in Kept}
    /\ legacy = Older
    /\ migrated = FALSE
    /\ open = Pages
    /\ active = FALSE
    /\ task = [t \in Tasks |-> NewTask]
    /\ broken = {} /\ owed = Older

\* The promises hold for tasks that meet, but not over one item.
Begins(t, p, op, i, pc) ==
    /\ At(t, "new") /\ p \in open
    /\ Becomes(t, [NewTask EXCEPT !.op = op, !.page = p, !.item = i, !.pc = pc])
    /\ broken' = IF op # "play" /\ \E s \in Tasks : Working(s) /\ (task[s].item = i \/ "migrate" \in {op, task[s].op})
                  THEN Promises ELSE broken
    /\ owed' = IF op = "delete" THEN owed \ {i} ELSE owed
    /\ UNCHANGED <<store, surroundings>>

Begin(t, p) ==
    \E i \in Items :
        \/ \E op \in {"download", "play"} :
              Begins(t, p, op, i, IF active THEN "clients" ELSE "network")
        \/ Begins(t, p, "delete", i, "remove")
        \/ Begins(t, p, "migrate", i, "keys")

-----------------------------------------------------------------------------
(* The worker answers a fetch.                                             *)

MatchAll(t) ==
    /\ At(t, "clients")
    /\ Becomes(t, [task[t] EXCEPT !.ask = open, !.pc = "ask"])
    /\ UNCHANGED <<store, surroundings, history>>

AskClient(t) ==
    /\ At(t, "ask")
    /\ IF task[t].ask = {} THEN GoesTo(t, "network")
       ELSE \E p \in task[t].ask :
               Becomes(t, [task[t] EXCEPT !.ask = @ \ {p}, !.via = p, !.pc = "exists?"])
    /\ UNCHANGED <<store, surroundings, history>>

\* hasOfflineVideo in the page that was asked.
AnswerExists(t) ==
    /\ At(t, "exists?") /\ task[t].via \in open
    /\ GoesTo(t, IF files[task[t].item] # "none" THEN "read?" ELSE "ask")
    /\ UNCHANGED <<store, surroundings, history>>

\* The answer is a body; a download saves it.
Receives(t, body) ==
    Becomes(t, IF task[t].op = "play" THEN Over
               ELSE [task[t] EXCEPT !.ask = {}, !.via = NoPage, !.body = body, !.pc = "dir"])

\* getOfflineVideoRange there; a file that changes while it is read is an error.
AnswerRead(t) ==
    /\ At(t, "read?") /\ task[t].via \in open
    /\ \/ files[task[t].item] # "none" /\ Receives(t, files[task[t].item])
       \/ GoesTo(t, "network")
    /\ UNCHANGED <<store, surroundings, history>>

\* Mutant: only the reading of bytes has a timer.
ReadTimesOut(t) ==
    /\ At(t, "read?")
    /\ GoesTo(t, "network")
    /\ UNCHANGED <<store, surroundings, history>>

\* A page that is gone, or busy for long, is not waited for.
TimesOut(t) ==
    /\ \/ At(t, "exists?") /\ GoesTo(t, "ask")
       \/ At(t, "read?") /\ GoesTo(t, "network")
    /\ UNCHANGED <<store, surroundings, history>>

\* The network has the video, or fails: 504, or an exception in the player.
Network(t) ==
    /\ At(t, "network")
    /\ Receives(t, "whole") \/ Becomes(t, Over)
    /\ UNCHANGED <<store, surroundings, history>>

-----------------------------------------------------------------------------
(* saveVideoToOpfs.                                                        *)

MakeDir(t) ==
    /\ At(t, "dir")
    /\ dirs' = dirs \cup {VideoOf[task[t].item]}
    /\ GoesTo(t, "file")
    /\ UNCHANGED <<files, manifest, surroundings, history>>

\* The handle of a directory that has been removed is of no use.
MakeFile(t) ==
    LET i == task[t].item
    IN /\ At(t, "file")
       /\ IF VideoOf[i] \in dirs
          THEN /\ files' = [files EXCEPT ![i] = IF @ = "none" THEN "empty" ELSE @]
               /\ GoesTo(t, "open") /\ UNCHANGED broken
          ELSE UNCHANGED files /\ Becomes(t, Throws(t)) /\ broken' = broken \cup Skips(t)
       /\ UNCHANGED <<dirs, manifest, surroundings, owed>>

CreateWritable(t) ==
    /\ At(t, "open")
    /\ IF files[task[t].item] # "none" THEN GoesTo(t, "pipe") /\ UNCHANGED broken
       ELSE Becomes(t, Throws(t)) /\ broken' = broken \cup Skips(t)
    /\ UNCHANGED <<store, surroundings, owed>>

PipeTo(t) ==
    /\ At(t, "pipe")
    /\ files' = [files EXCEPT ![task[t].item] = task[t].body]
    /\ GoesTo(t, "stat")
    /\ UNCHANGED <<dirs, manifest, surroundings, history>>

\* Mutant: what was begun is left behind.
PipeBreaksOff(t) ==
    /\ At(t, "pipe")
    /\ Becomes(t, Throws(t))
    /\ broken' = broken \cup Skips(t)
    /\ UNCHANGED <<store, surroundings, owed>>

\* The connection or the disk fails: the file goes, an older copy with it,
\* unless another task has it open.
PipeFails(t) ==
    LET i == task[t].item
        mine == \A s \in Tasks \ {t} : ~Writing(s, i)
    IN /\ At(t, "pipe")
       /\ files' = IF mine THEN [files EXCEPT ![i] = "none"] ELSE files
       /\ Becomes(t, Throws(t))
       /\ broken' = broken \cup Skips(t) \cup (IF mine /\ files[i] = "whole" THEN Promises ELSE {})
       /\ UNCHANGED <<dirs, manifest, surroundings, owed>>

Stat(t) ==
    /\ At(t, "stat")
    /\ IF files[task[t].item] # "none" THEN GoesTo(t, "manifest") /\ UNCHANGED broken
       ELSE Becomes(t, Throws(t)) /\ broken' = broken \cup Skips(t)
    /\ UNCHANGED <<store, surroundings, owed>>

-----------------------------------------------------------------------------
(* The manifest is read, changed and written back.                         *)

OpenManifest(t) ==
    /\ At(t, "manifest")
    /\ Becomes(t, [task[t] EXCEPT !.saw = manifest, !.stale = FALSE, !.pc = "text"])
    /\ broken' = IF \E s \in Tasks : task[s].pc \in {"text", "write"} THEN Promises ELSE broken
    /\ UNCHANGED <<store, surroundings, owed>>

\* A manifest replaced since it was opened cannot be read: it counts as empty.
ReadManifest(t) ==
    LET saw == IF task[t].stale THEN {} ELSE task[t].saw
    IN /\ At(t, "text")
       /\ Becomes(t, IF task[t].op = "delete" /\ task[t].item \notin saw THEN Over
                     ELSE [task[t] EXCEPT !.saw = saw, !.pc = "write"])
       /\ UNCHANGED <<store, surroundings, history>>

WriteManifest(t) ==
    LET rec == task[t]
    IN /\ At(t, "write")
       /\ manifest' = IF rec.op = "delete" THEN rec.saw \ {rec.item} ELSE rec.saw \cup {rec.item}
       /\ task' = [s \in Tasks |->
                      IF s = t THEN (IF rec.op = "migrate" THEN [rec EXCEPT !.pc = "next"] ELSE Over)
                      ELSE IF At(s, "text") THEN [task[s] EXCEPT !.stale = TRUE] ELSE task[s]]
       /\ UNCHANGED <<files, dirs, surroundings, history>>

-----------------------------------------------------------------------------
(* deleteOfflineVideo.                                                     *)

\* A file that is being written cannot be removed.
RemoveEntry(t) ==
    LET i == task[t].item
        gone == files[i] # "none" /\ \A s \in Tasks : ~Writing(s, i)
    IN /\ At(t, "remove")
       /\ files' = IF gone THEN [files EXCEPT ![i] = "none"] ELSE files
       /\ GoesTo(t, IF gone THEN "prune" ELSE "manifest")
       /\ UNCHANGED <<dirs, manifest, surroundings, history>>

PruneDir(t) ==
    LET v == VideoOf[task[t].item]
    IN /\ At(t, "prune")
       /\ dirs' = IF \A i \in Items : VideoOf[i] = v => files[i] = "none" THEN dirs \ {v} ELSE dirs
       /\ GoesTo(t, "manifest")
       /\ UNCHANGED <<files, manifest, surroundings, history>>

-----------------------------------------------------------------------------
(* migrateCacheStorageToOpfs, at the load of a page.                       *)

Keys(t) ==
    /\ At(t, "keys")
    /\ IF migrated THEN Becomes(t, Over)
       ELSE IF legacy = {} THEN GoesTo(t, "flag")
       ELSE Becomes(t, [task[t] EXCEPT !.todo = legacy, !.pc = "next"])
    /\ UNCHANGED <<store, surroundings, history>>

\* The entries of a cache that somebody else has deleted may still be found.
MatchEntry(t) ==
    /\ At(t, "next")
    /\ \/ task[t].todo = {} /\ GoesTo(t, "drop") /\ UNCHANGED broken
       \/ \E i \in task[t].todo :
             LET rec == [task[t] EXCEPT !.todo = @ \ {i}]
             IN \/ /\ Becomes(t, [rec EXCEPT !.item = i, !.body = "whole", !.pc = "dir"])
                   /\ UNCHANGED broken
                \/ /\ i \notin legacy
                   /\ Becomes(t, rec) /\ UNCHANGED broken
    /\ UNCHANGED <<store, surroundings, owed>>

DropCache(t) ==
    /\ At(t, "drop")
    /\ legacy' = {}
    /\ GoesTo(t, "flag")
    /\ UNCHANGED <<store, migrated, open, active, history>>

\* Mutant: the flag is set before the entries are copied.
FlagFirst(t) ==
    /\ At(t, "keys") \/ At(t, "flag")
    /\ migrated' = TRUE
    /\ Becomes(t, IF At(t, "keys") /\ ~migrated
                  THEN [task[t] EXCEPT !.todo = legacy, !.pc = "next"] ELSE Over)
    /\ UNCHANGED <<store, legacy, open, active, history>>

SetFlag(t) ==
    /\ At(t, "flag")
    /\ migrated' = TRUE
    /\ Becomes(t, Over)
    /\ UNCHANGED <<store, legacy, open, active, history>>

-----------------------------------------------------------------------------
(* Pages and workers come and go.                                          *)

\* What a page was doing ends where it was, and a half-written copy is dropped.
\* It has no answer for the worker any more.
ClosePage(p) ==
    /\ p \in open
    /\ open' = open \ {p}
    /\ task' = [t \in Tasks |->
                   IF task[t].page = p THEN Over
                   ELSE [task[t] EXCEPT !.ask = @ \ {p}, !.via = IF @ = p THEN NoPage ELSE @]]
    /\ broken' = IF \E t \in Tasks : task[t].page = p /\ Working(t) THEN broken \cup {"lockstep"} ELSE broken
    /\ UNCHANGED <<store, legacy, migrated, active, owed>>

OpenPage(p) ==
    /\ p \notin open
    /\ open' = open \cup {p}
    /\ UNCHANGED <<store, legacy, migrated, active, task, history>>

\* It deletes the caches it does not know, the older builds' too.
ActivateWorker ==
    /\ ~active
    /\ active' = TRUE
    /\ legacy' = {}
    /\ broken' = IF legacy # {} THEN broken \cup {"migration"} ELSE broken
    /\ UNCHANGED <<store, migrated, open, task, owed>>

FetchStep(t) ==
    MatchAll(t) \/ AskClient(t) \/ AnswerExists(t) \/ AnswerRead(t) \/ TimesOut(t) \/ Network(t)

SaveStep(t) ==
    \/ MakeDir(t) \/ MakeFile(t) \/ CreateWritable(t) \/ PipeTo(t) \/ PipeFails(t) \/ Stat(t)
    \/ OpenManifest(t) \/ ReadManifest(t) \/ WriteManifest(t)

Next ==
    \/ \E t \in Tasks :
          \/ \E p \in Pages : Begin(t, p)
          \/ FetchStep(t) \/ SaveStep(t)
          \/ RemoveEntry(t) \/ PruneDir(t)
          \/ Keys(t) \/ MatchEntry(t) \/ DropCache(t) \/ SetFlag(t)
    \/ \E p \in Pages : ClosePage(p) \/ OpenPage(p)
    \/ ActivateWorker

Spec == Init /\ [][Next]_vars

\* The worker's code runs on, its timers go off, and the network answers or fails.
Fairness == \A t \in Tasks : WF_vars(FetchStep(t))

LiveSpec == Spec /\ Fairness

-----------------------------------------------------------------------------
Whole == {i \in Items : files[i] = "whole"}

\* "keeps the two stores in lockstep": when nobody is at work, the manifest
\* lists the files there are and each is whole, provided that no two tasks met
\* over one item or between reading and writing the manifest, none was cut
\* off, and no second download of an item failed.
StoresInLockstep ==
    ("lockstep" \notin broken /\ ~\E t \in Tasks : Working(t))
    => manifest = Whole /\ \A i \in Items : files[i] # "empty"

\* "deletes the old cache once all entries land": a download of an older build
\* is in its cache until it has been copied and listed, and all are when the
\* migration is never begun again, wherever it was cut off before; provided
\* that no copy failed, no two tasks met as above and the service worker was
\* not activated before the end.
MigrationLosesNothing ==
    "migration" \notin broken
    => owed \subseteq (Whole \cap manifest) \cup (IF migrated THEN {} ELSE legacy)

\* Whatever becomes of the pages it asks, the worker answers every fetch.
FetchIsAnswered ==
    \A t \in Tasks : task[t].pc \in {"clients", "ask", "exists?", "read?", "network"}
                     ~> task[t].pc \in {"done", "dir"}
=============================================================================
