------------------------- MODULE OfflineStoreProofs -------------------------
(***************************************************************************)
(* What the browser's download store keeps, for any items, pages and tasks *)
(* that begin, overlap and are cut off in any order: files and manifest in *)
(* lockstep, and every download of an older build until it has landed.     *)
(*                                                                         *)
(* Whatever a task does to a file it does to the file of its own item, so  *)
(* as long as no two tasks meet over one item each finds what it left, and *)
(* the items nobody works on are as the last task left them.  The manifest *)
(* is one value for all; what saves it is that nobody else is between      *)
(* reading and writing it.                                                 *)
(***************************************************************************)
EXTENDS OfflineStore, TLAPS

FetchPC == {"clients", "ask", "exists?", "read?", "network"}
Filling == {"dir", "file", "open", "pipe"}
Listing == {"manifest", "text", "write"}
SavePC == Filling \cup {"stat"} \cup Listing
OwnPC == {"new", "done", "remove", "prune", "keys", "next", "drop", "flag"}

Ops == {"none", "play", "download", "delete", "migrate"}
Contents == {"none", "empty", "whole"}

TaskType ==
    [op: Ops, page: Pages \cup {NoPage}, item: Items \cup {NewTask.item},
     pc: OwnPC \cup FetchPC \cup SavePC, ask: SUBSET Pages, via: Pages \cup {NoPage},
     body: Contents, saw: SUBSET Items, stale: BOOLEAN, todo: SUBSET Items]

\* Where a task with these locals may be.
Placed(local) ==
    /\ local.op = "none" => local.pc \in {"new", "done"}
    /\ local.op = "play" => local.pc \in FetchPC
    /\ local.op = "download" => local.pc \in FetchPC \cup SavePC
    /\ local.op = "delete" => local.pc \in {"remove", "prune"} \cup Listing
    /\ local.op = "migrate" => local.pc \in {"keys", "next", "drop", "flag"} \cup SavePC
    /\ local.op # "none" => local.item \in Items

TypeInv ==
    /\ files \in [Items -> Contents] /\ manifest \subseteq Items /\ legacy \subseteq Items
    /\ migrated \in BOOLEAN /\ open \subseteq Pages
    /\ task \in [Tasks -> TaskType]
    /\ \A t \in Tasks : Placed(task[t])
    /\ broken \subseteq Promises /\ owed \subseteq Items

Works(local) == local.op \in {"download", "delete", "migrate"}
InManifest(local) == local.pc \in {"text", "write"}

Disjoint(one, other) ==
    /\ Works(one) /\ Works(other) => one.item # other.item /\ "migrate" \notin {one.op, other.op}
    /\ ~(InManifest(one) /\ InManifest(other))

\* The manifest a task has read is still the manifest.
Current(local) ==
    InManifest(local) => local.saw = manifest /\ (local.pc = "text" => ~local.stale)

\* As long as either promise stands, no two tasks have met.
Apart ==
    /\ \A s, t \in Tasks : s # t => Disjoint(task[s], task[t])
    /\ \A t \in Tasks : Current(task[t])

\* The task may leave file and manifest apart for i.
Touches(local, i) ==
    local.item = i /\ local.pc \in {"open", "pipe", "stat", "prune"} \cup Listing

Settled(i) == (i \in manifest <=> files[i] = "whole") /\ files[i] # "empty"

\* What a task with these locals has made of its item.
Careful(local) ==
    /\ local.pc \in Filling => local.body = "whole"
    /\ local.pc \in {"open", "pipe"} =>
          files[local.item] = IF local.item \in manifest THEN "whole" ELSE "empty"
    /\ local.pc = "stat" => files[local.item] = "whole"
    /\ local.pc \in Listing =>
          files[local.item] = IF local.op = "delete" THEN "none" ELSE "whole"
    /\ local.pc = "prune" => files[local.item] = "none"

InStep ==
    /\ \A t \in Tasks : Careful(task[t])
    /\ \A i \in Items : Settled(i) \/ \E t \in Tasks : Touches(task[t], i)

Landed == Whole \cap manifest

\* What an older build had is in the store or on the list of the migration
\* under way; nobody overwrites a whole file with less.
Faithful(local) ==
    /\ local.op = "delete" => local.item \notin owed
    /\ local.pc \in Filling /\ local.body # "whole" => files[local.item] # "whole"
    /\ local.op = "migrate" =>
          /\ local.pc \in Filling => local.body = "whole"
          /\ local.pc \in {"stat"} \cup Listing => files[local.item] = "whole"
          /\ local.pc = "next" => owed \subseteq Landed \cup local.todo
          /\ local.pc \in SavePC => owed \subseteq Landed \cup local.todo \cup {local.item}
          /\ local.pc \in {"drop", "flag"} => owed \subseteq Landed

NothingLost ==
    /\ \A t \in Tasks : Faithful(task[t])
    /\ owed \subseteq Landed \cup (IF migrated THEN {} ELSE legacy)

StoreInv ==
    /\ TypeInv
    /\ broken # Promises => Apart
    /\ "lockstep" \notin broken => InStep
    /\ "migration" \notin broken => NothingLost


-----------------------------------------------------------------------------
(* One task moves.                                                         *)

LEMMA LocalsType ==
  ASSUME TypeInv, NEW t \in Tasks
  PROVE  task[t] \in TaskType /\ Placed(task[t])
  BY DEF TypeInv

LEMMA BecomesSets ==
  ASSUME TypeInv, NEW t \in Tasks, NEW local, Becomes(t, local)
  PROVE  task'[t] = local /\ \A d \in Tasks \ {t} : task'[d] = task[d]
  BY DEF TypeInv, Becomes

\* NewTask is a record of its type, but for the item it has not got.
LEMMA NewTaskType ==
  /\ NewTask \in TaskType /\ NewTask.op = "none" /\ NewTask.pc = "new"
  /\ Over \in TaskType /\ Over.op = "none" /\ Over.pc = "done"
  /\ Placed(NewTask) /\ Placed(Over)
  <1>1. PICK item : item = NewTask.item
    OBVIOUS
  <1>2. NewTask = [op |-> "none", page |-> NoPage, item |-> item, pc |-> "new",
                   ask |-> {}, via |-> NoPage, body |-> "none", saw |-> {}, stale |-> FALSE,
                   todo |-> {}]
    BY <1>1 DEF NewTask
  <1>3. NewTask \in TaskType /\ NewTask.op = "none" /\ NewTask.pc = "new"
    BY <1>1, <1>2 DEF TaskType, Ops, OwnPC, Contents
  <1>4. PICK new : new = NewTask
    OBVIOUS
  <1>5. Over \in TaskType /\ Over.op = "none" /\ Over.pc = "done"
    <2>1. Over = [new EXCEPT !.pc = "done"]
      BY <1>4, Zenon DEF Over
    <2>2. new \in TaskType /\ new.op = "none"
      BY <1>3, <1>4, Zenon
    <2> QED
      BY <2>1, <2>2 DEF TaskType, OwnPC
  <1> QED
    BY <1>3, <1>5 DEF Placed

\* Nobody else is at the item of a task at work.
LEMMA NobodyElse ==
  ASSUME StoreInv, broken # Promises, NEW t \in Tasks, Works(task[t]), NEW d \in Tasks \ {t}
  PROVE  /\ ~Touches(task[d], task[t].item)
         /\ Works(task[d]) => task[d].item # task[t].item /\ task[d].op # "migrate"
         /\ task[t].op = "migrate" => ~Works(task[d])
  <1>1. Disjoint(task[t], task[d]) /\ Placed(task[d]) /\ task[d] \in TaskType
    BY LocalsType DEF StoreInv, Apart
  <1>2. Touches(task[d], task[t].item) => Works(task[d]) /\ task[d].item = task[t].item
    BY <1>1 DEF Touches, Works, Placed, TaskType, Ops, FetchPC, Listing
  <1> QED
    BY <1>1, <1>2 DEF Disjoint, Works

\* A task that goes on with its item, or ends, meets nobody.
LEMMA StaysApart ==
  ASSUME StoreInv, broken # Promises, NEW t \in Tasks, NEW local,
         local.op \in {task[t].op, "none"},
         local.item = task[t].item \/ local.op \in {"none", "migrate"},
         InManifest(local) => InManifest(task[t]) \/ \A d \in Tasks \ {t} : ~InManifest(task[d])
  PROVE  \A d \in Tasks \ {t} : Disjoint(local, task[d])
  <1> SUFFICES ASSUME NEW d \in Tasks \ {t} PROVE Disjoint(local, task[d])
    OBVIOUS
  <1>1. Disjoint(task[t], task[d])
    BY DEF StoreInv, Apart
  <1> QED
    BY <1>1 DEF Disjoint, Works

\* If a task changes files and manifest for its own item only, and leaves
\* them as it should, nothing else suffers.
LEMMA TaskMoves ==
  ASSUME StoreInv, NEW t \in Tasks, NEW local \in TaskType, Placed(local), Becomes(t, local),
         files' \in [Items -> Contents], manifest' \subseteq Items, legacy' \subseteq Items,
         migrated' \in BOOLEAN, UNCHANGED open,
         broken \subseteq broken', broken' \subseteq Promises, owed' \subseteq owed,
         Works(task[t]) \/ UNCHANGED <<files, manifest>>,
         \A i \in Items : i # task[t].item =>
            files'[i] = files[i] /\ (i \in manifest' <=> i \in manifest),
         manifest' = manifest \/ InManifest(task[t]),
         broken' # Promises => (\A d \in Tasks \ {t} : Disjoint(local, task[d])) /\ Current(local)',
         "lockstep" \notin broken' =>
            /\ Careful(local)'
            /\ \A i \in Items : Works(task[t]) /\ i = task[t].item => Settled(i)' \/ Touches(local, i),
         "migration" \notin broken' =>
            Faithful(local)' /\ owed' \subseteq Landed' \cup (IF migrated' THEN {} ELSE legacy')
  PROVE  StoreInv'
  <1>1. task'[t] = local /\ \A d \in Tasks \ {t} : task'[d] = task[d]
    BY BecomesSets DEF StoreInv
  <1>2. TypeInv'
    <2>1. task' \in [Tasks -> TaskType]
      BY DEF Becomes, StoreInv, TypeInv
    <2>2. \A d \in Tasks : Placed(task'[d])
      BY <1>1, LocalsType DEF StoreInv
    <2> QED
      BY <2>1, <2>2 DEF StoreInv, TypeInv
  <1>3. ASSUME broken' # Promises PROVE Apart'
    <2>1. broken # Promises /\ Apart
      BY <1>3 DEF StoreInv
    <2>2. ASSUME NEW d \in Tasks, NEW e \in Tasks, d # e
          PROVE  Disjoint(task'[d], task'[e])
      <3>1. Disjoint(task[d], task[e])
        BY <2>1, <2>2 DEF Apart
      <3>2. e # t => Disjoint(local, task[e])
        BY <1>3
      <3>3. d # t => Disjoint(local, task[d])
        BY <1>3
      <3> QED
        BY <1>1, <2>2, <3>1, <3>2, <3>3 DEF Disjoint
    <2>3. ASSUME NEW d \in Tasks \ {t} PROVE Current(task[d])'
      <3>1. Current(task[d]) /\ Disjoint(task[t], task[d])
        BY <2>1 DEF Apart
      <3> QED
        BY <1>1, <3>1 DEF Current, Disjoint
    <2>4. Current(task[t])'
      BY <1>1, <1>3 DEF Current
    <2> QED
      BY <2>2, <2>3, <2>4 DEF Apart
  <1>4. ASSUME broken' # Promises, NEW d \in Tasks \ {t}
        PROVE  /\ Works(task[d]) =>
                     /\ files'[task[d].item] = files[task[d].item]
                     /\ task[d].item \in manifest' <=> task[d].item \in manifest
               /\ task[d].op = "migrate" => UNCHANGED <<files, manifest>>
    <2>1. Placed(task[d])
      BY LocalsType DEF StoreInv
    <2>2. CASE Works(task[t])
      <3>1. Works(task[d]) => task[d].item # task[t].item /\ task[d].op # "migrate"
        BY <1>4, <2>2, NobodyElse DEF StoreInv
      <3> QED
        BY <2>1, <3>1 DEF Placed, Works
    <2> QED
      BY <2>2
  <1>5. ASSUME "lockstep" \notin broken' PROVE InStep'
    <2>1. "lockstep" \notin broken /\ broken # Promises /\ broken' # Promises /\ InStep
      BY <1>5 DEF StoreInv, Promises
    <2>2. ASSUME NEW d \in Tasks \ {t} PROVE Careful(task[d])'
      <3>1. Careful(task[d]) /\ Placed(task[d]) /\ task[d] \in TaskType
        BY <2>1, LocalsType DEF InStep, StoreInv
      <3>2. CASE Works(task[d])
        BY <1>1, <1>4, <2>1, <3>1, <3>2 DEF Careful
      <3>3. CASE ~Works(task[d])
        BY <1>1, <3>1, <3>3 DEF Works, Placed, TaskType, Ops, Careful, FetchPC, Filling, Listing
      <3> QED
        BY <3>2, <3>3
    <2>3. Careful(task[t])'
      BY <1>1, <1>5 DEF Careful
    <2>4. ASSUME NEW i \in Items PROVE Settled(i)' \/ \E d \in Tasks : Touches(task'[d], i)
      <3>1. Settled(i) \/ \E d \in Tasks : Touches(task[d], i)
        BY <2>1 DEF InStep
      <3>2. CASE Works(task[t]) /\ i = task[t].item
        BY <1>1, <1>5, <3>2
      <3>3. CASE ~(Works(task[t]) /\ i = task[t].item)
        <4>1. ~Touches(task[t], i)
          <5>1. Placed(task[t]) /\ task[t] \in TaskType
            BY LocalsType DEF StoreInv
          <5> QED
            BY <3>3, <5>1 DEF Touches, Works, Placed, TaskType, Ops, FetchPC, Listing
        <4>2. Settled(i) => Settled(i)'
          BY <3>3 DEF Settled
        <4> QED
          BY <1>1, <3>1, <4>1, <4>2
      <3> QED
        BY <3>2, <3>3
    <2> QED
      BY <2>2, <2>3, <2>4 DEF InStep, Touches
  <1>6. ASSUME "migration" \notin broken' PROVE NothingLost'
    <2>1. "migration" \notin broken /\ broken # Promises /\ broken' # Promises /\ NothingLost
      BY <1>6 DEF StoreInv, Promises
    <2>2. ASSUME NEW d \in Tasks \ {t} PROVE Faithful(task[d])'
      <3>1. Faithful(task[d]) /\ Placed(task[d]) /\ task[d] \in TaskType
        BY <2>1, LocalsType DEF NothingLost, StoreInv
      <3>2. CASE task[d].op = "migrate"
        <4>1. UNCHANGED <<files, manifest>>
          BY <1>4, <2>1, <3>2
        <4> QED
          BY <1>1, <3>1, <4>1 DEF Faithful, Landed, Whole
      <3>3. CASE task[d].op # "migrate" /\ Works(task[d])
        BY <1>1, <1>4, <2>1, <3>1, <3>3 DEF Faithful
      <3>4. CASE ~Works(task[d])
        BY <1>1, <3>1, <3>4 DEF Works, Placed, TaskType, Ops, Faithful, FetchPC, Filling
      <3> QED
        BY <3>2, <3>3, <3>4
    <2>3. Faithful(task[t])'
      BY <1>1, <1>6 DEF Faithful, Landed, Whole
    <2> QED
      BY <1>6, <2>2, <2>3 DEF NothingLost
  <1> QED
    BY <1>2, <1>3, <1>5, <1>6 DEF StoreInv

-----------------------------------------------------------------------------
(* The worker's fetch.                                                     *)

LEMMA InitStore == Init => StoreInv
  <1> SUFFICES ASSUME Init PROVE StoreInv
    OBVIOUS
  <1>1. \A t \in Tasks : task[t] = NewTask
    BY DEF Init
  <1>2. TypeInv
    <2>1. task \in [Tasks -> TaskType] /\ \A t \in Tasks : Placed(task[t])
      BY <1>1, NewTaskType DEF Init
    <2> QED
      BY <2>1, KeptAssumption DEF Init, TypeInv, Contents
  <1>3. Apart
    BY <1>1, NewTaskType DEF Apart, Disjoint, Current, Works, InManifest
  <1>4. InStep
    <2>1. \A t \in Tasks : Careful(task[t])
      BY <1>1, NewTaskType DEF Careful, Filling, Listing
    <2>2. \A i \in Items : Settled(i)
      BY DEF Init, Settled
    <2> QED
      BY <2>1, <2>2 DEF InStep
  <1>5. NothingLost
    <2>1. \A t \in Tasks : Faithful(task[t])
      BY <1>1, NewTaskType DEF Faithful, Filling
    <2> QED
      BY <2>1 DEF Init, NothingLost
  <1> QED
    BY <1>2, <1>3, <1>4, <1>5 DEF StoreInv

\* An item somebody works on, but has not touched, is settled.
LEMMA SettledSoFar ==
  ASSUME StoreInv, "lockstep" \notin broken, NEW t \in Tasks, Works(task[t]),
         ~Touches(task[t], task[t].item)
  PROVE  Settled(task[t].item)
  <1>1. broken # Promises /\ InStep /\ task[t].item \in Items
    BY LocalsType DEF StoreInv, Promises, Placed, Works
  <1>2. \A d \in Tasks : ~Touches(task[d], task[t].item)
    BY <1>1, NobodyElse
  <1> QED
    BY <1>1, <1>2 DEF InStep

\* A step of a fetch changes nothing but its task, which receives what the
\* file holds, or the whole.
LEMMA FetchMoves ==
  ASSUME StoreInv, NEW t \in Tasks, NEW local \in TaskType, Becomes(t, local),
         task[t].pc \in FetchPC, UNCHANGED <<store, surroundings, history>>,
         \/ local = Over
         \/ /\ local.op = task[t].op /\ local.item = task[t].item
            /\ \/ local.pc \in FetchPC
               \/ /\ local.pc = "dir" /\ local.op # "play"
                  /\ \/ local.body = "whole"
                     \/ local.body = files[local.item] /\ files[local.item] # "none"
  PROVE  StoreInv'
  <1>1. task[t] \in TaskType /\ Placed(task[t])
    BY LocalsType DEF StoreInv
  <1>2. Placed(local)
    BY <1>1, NewTaskType DEF Placed, FetchPC, SavePC, Filling, Listing
  <1>3. ~InManifest(local) /\ Current(local)'
    <2>1. ~InManifest(local)
      BY NewTaskType DEF InManifest, FetchPC
    <2> QED
      BY <2>1 DEF Current, InManifest
  <1>4. ASSUME broken # Promises PROVE \A d \in Tasks \ {t} : Disjoint(local, task[d])
    BY <1>3, <1>4, StaysApart, NewTaskType
  <1>5. ~Touches(task[t], task[t].item)
    BY DEF Touches, FetchPC, Listing
  <1>6. ASSUME "lockstep" \notin broken
        PROVE  /\ Careful(local)'
               /\ \A i \in Items : Works(task[t]) /\ i = task[t].item => Settled(i)'
    <2>1. Works(task[t]) => Settled(task[t].item)
      BY <1>5, <1>6, SettledSoFar
    <2>2. local.pc = "dir" => Works(task[t]) /\ local.item = task[t].item
      BY <1>1, <1>2, NewTaskType DEF Works, TaskType, Ops, Placed, FetchPC
    <2>3. local.pc = "dir" => local.body = "whole"
      BY <2>1, <2>2, NewTaskType DEF Settled, FetchPC, TaskType, Contents
    <2>4. local.pc \in FetchPC \cup {"dir", "done"}
      BY NewTaskType
    <2>5. Careful(local)'
      BY <2>3, <2>4 DEF Careful, FetchPC, Filling, Listing
    <2> QED
      BY <2>1, <2>5 DEF Settled, store
  <1>7. ASSUME "migration" \notin broken
        PROVE  Faithful(local)' /\ owed' \subseteq Landed' \cup (IF migrated' THEN {} ELSE legacy')
    <2>1. local.op # "delete" /\ local.op # "migrate"
      BY <1>1, NewTaskType DEF Placed, FetchPC, SavePC, Filling, Listing
    <2>2. Faithful(local)'
      BY <2>1, NewTaskType DEF Faithful, FetchPC, Filling, store
    <2> QED
      BY <1>7, <2>2 DEF StoreInv, NothingLost, Landed, Whole, store, surroundings, history
  <1>8. /\ UNCHANGED <<files, manifest, legacy, migrated, open, broken, owed>>
        /\ files \in [Items -> Contents] /\ manifest \subseteq Items /\ legacy \subseteq Items
        /\ migrated \in BOOLEAN /\ broken \subseteq Promises
    BY DEF StoreInv, TypeInv, store, surroundings, history
  <1> QED
    BY <1>2, <1>3, <1>4, <1>6, <1>7, <1>8, TaskMoves

LEMMA FetchKeeps ==
  ASSUME StoreInv, NEW t \in Tasks, FetchStep(t)
  PROVE  StoreInv'
  <1>1. task[t] \in TaskType /\ Placed(task[t]) /\ open \subseteq Pages
    BY LocalsType DEF StoreInv, TypeInv
  <1>2. ASSUME NEW pc \in FetchPC, task[t].pc \in FetchPC, GoesTo(t, pc),
               UNCHANGED <<store, surroundings, history>>
        PROVE  StoreInv'
    <2>1. PICK local : local = [task[t] EXCEPT !.pc = pc]
      OBVIOUS
    <2>2. local \in TaskType /\ local.pc = pc /\ local.op = task[t].op /\ local.item = task[t].item
      BY <1>1, <2>1 DEF TaskType
    <2>3. Becomes(t, local)
      BY <1>2, <2>1 DEF GoesTo
    <2> QED
      BY <1>2, <2>2, <2>3, FetchMoves DEF surroundings
  <1>3. ASSUME task[t].pc \in FetchPC, Becomes(t, Over), UNCHANGED <<store, surroundings, history>>
        PROVE  StoreInv'
    BY <1>3, NewTaskType, FetchMoves DEF surroundings
  <1>4. ASSUME NEW body \in Contents, task[t].pc \in FetchPC, Receives(t, body),
               body = "whole" \/ (body = files[task[t].item] /\ files[task[t].item] # "none"),
               UNCHANGED <<store, surroundings, history>>
        PROVE  StoreInv'
    <2>1. CASE task[t].op = "play"
      BY <1>3, <1>4, <2>1 DEF Receives
    <2>2. CASE task[t].op # "play"
      <3>1. PICK local : local = [task[t] EXCEPT !.ask = {}, !.via = NoPage, !.body = body,
                                                 !.pc = "dir"]
        OBVIOUS
      <3>2. local \in TaskType
        BY <1>1, <3>1 DEF TaskType, SavePC, Filling
      <3>3. /\ local.pc = "dir" /\ local.op = task[t].op /\ local.item = task[t].item
            /\ local.body = body
        BY <1>1, <3>1 DEF TaskType
      <3>4. Becomes(t, local)
        BY <1>4, <2>2, <3>1 DEF Receives
      <3> QED
        BY <1>4, <2>2, <3>2, <3>3, <3>4, FetchMoves DEF surroundings
    <2> QED
      BY <2>1, <2>2
  <1>5. CASE MatchAll(t)
    <2>1. PICK local : local = [task[t] EXCEPT !.ask = open, !.pc = "ask"]
      OBVIOUS
    <2>2. /\ local \in TaskType /\ local.pc = "ask" /\ local.op = task[t].op
          /\ local.item = task[t].item
      BY <1>1, <2>1 DEF TaskType, FetchPC
    <2>3. Becomes(t, local) /\ task[t].pc \in FetchPC /\ UNCHANGED <<store, surroundings, history>>
      BY <1>5, <2>1 DEF MatchAll, At, FetchPC
    <2> QED
      BY <2>2, <2>3, FetchMoves DEF surroundings, FetchPC
  <1>6. CASE AskClient(t)
    <2>1. task[t].pc \in FetchPC /\ UNCHANGED <<store, surroundings, history>>
      BY <1>6 DEF AskClient, At, FetchPC
    <2>2. CASE task[t].ask = {}
      BY <1>2, <1>6, <2>1, <2>2 DEF AskClient, FetchPC
    <2>3. CASE task[t].ask # {}
      <3>1. PICK p \in task[t].ask :
               Becomes(t, [task[t] EXCEPT !.ask = @ \ {p}, !.via = p, !.pc = "exists?"])
        BY <1>6, <2>3 DEF AskClient
      <3>2. PICK local : local = [task[t] EXCEPT !.ask = @ \ {p}, !.via = p, !.pc = "exists?"]
        OBVIOUS
      <3>3. /\ local \in TaskType /\ local.pc = "exists?" /\ local.op = task[t].op
            /\ local.item = task[t].item
        BY <1>1, <3>1, <3>2 DEF TaskType, FetchPC
      <3> QED
        BY <2>1, <3>1, <3>2, <3>3, FetchMoves DEF surroundings, FetchPC
    <2> QED
      BY <2>2, <2>3
  <1>7. CASE AnswerExists(t)
    BY <1>2, <1>7 DEF AnswerExists, At, FetchPC
  <1>8. CASE AnswerRead(t)
    <2>1. task[t].pc \in FetchPC /\ UNCHANGED <<store, surroundings, history>>
      BY <1>8 DEF AnswerRead, At, FetchPC
    <2>2. CASE files[task[t].item] # "none" /\ Receives(t, files[task[t].item])
      <3>1. task[t].item \in Items
        BY <1>1, <2>1 DEF Placed, TaskType, Ops, FetchPC
      <3>2. files[task[t].item] \in Contents
        BY <3>1 DEF StoreInv, TypeInv
      <3> QED
        BY <1>4, <2>1, <2>2, <3>2
    <2> QED
      BY <1>2, <1>8, <2>1, <2>2 DEF AnswerRead, FetchPC
  <1>9. CASE TimesOut(t)
    BY <1>2, <1>9 DEF TimesOut, At, FetchPC
  <1>10. CASE Network(t)
    BY <1>3, <1>4, <1>10 DEF Network, At, FetchPC, Contents
  <1> QED
    BY <1>5, <1>6, <1>7, <1>8, <1>9, <1>10 DEF FetchStep

-----------------------------------------------------------------------------
(* saveVideoToOpfs.                                                        *)

\* A save or a removal that goes on: what it does to its item.
LEMMA WorkMoves ==
  ASSUME StoreInv, NEW t \in Tasks, Works(task[t]), NEW local \in TaskType, Placed(local),
         Becomes(t, local), local.op = task[t].op \/ local = Over,
         local.item = task[t].item \/ local.op \in {"none", "migrate"},
         ~InManifest(local),
         UNCHANGED <<manifest, legacy, migrated, open, owed>>,
         NEW held \in Contents, files' = [files EXCEPT ![task[t].item] = held],
         broken \subseteq broken', broken' \subseteq Promises,
         "lockstep" \notin broken' =>
            /\ Careful(local)'
            /\ \A i \in Items : i = task[t].item => Settled(i)' \/ Touches(local, i),
         "migration" \notin broken' =>
            Faithful(local)' /\ (files[task[t].item] = "whole" /\ task[t].item \in owed => held = "whole")
  PROVE  StoreInv'
  <1>1. task[t] \in TaskType /\ Placed(task[t]) /\ task[t].item \in Items
    BY LocalsType DEF StoreInv, Placed, Works
  <1>2. /\ files \in [Items -> Contents] /\ manifest \subseteq Items /\ legacy \subseteq Items
        /\ migrated \in BOOLEAN
    BY DEF StoreInv, TypeInv
  <1>3. /\ files' \in [Items -> Contents] /\ files'[task[t].item] = held
        /\ \A i \in Items : i # task[t].item => files'[i] = files[i]
    BY <1>1, <1>2
  <1>4. ASSUME broken' # Promises
        PROVE  \A d \in Tasks \ {t} : Disjoint(local, task[d])
    <2>1. broken # Promises
      BY <1>4
    <2> QED
      BY <2>1, StaysApart, NewTaskType
  <1>5. ASSUME "migration" \notin broken'
        PROVE  owed' \subseteq Landed' \cup (IF migrated' THEN {} ELSE legacy')
    <2>1. owed \subseteq Landed \cup (IF migrated THEN {} ELSE legacy)
      BY <1>5 DEF StoreInv, NothingLost
    <2>2. \A i \in owed : i \in Landed => i \in Landed'
      BY <1>3, <1>5 DEF Landed, Whole
    <2> QED
      BY <2>1, <2>2
  <1>6. Current(local)'
    BY DEF Current, InManifest
  <1> QED
    BY <1>2, <1>3, <1>4, <1>5, <1>6, TaskMoves

\* At work on a file it writes.
LEMMA SavingType ==
  ASSUME StoreInv, NEW t \in Tasks, task[t].pc \in Filling \cup {"stat"}
  PROVE  /\ task[t] \in TaskType /\ Placed(task[t]) /\ Works(task[t])
         /\ task[t].op \in {"download", "migrate"} /\ task[t].item \in Items
         /\ files \in [Items -> Contents] /\ files[task[t].item] \in Contents
  <1>1. task[t] \in TaskType /\ Placed(task[t]) /\ files \in [Items -> Contents]
    BY LocalsType DEF StoreInv, TypeInv
  <1>2. task[t].op \in {"download", "migrate"} /\ task[t].item \in Items
    BY <1>1 DEF TaskType, Ops, Placed, Filling, FetchPC, Listing
  <1> QED
    BY <1>1, <1>2 DEF Works

\* A save that goes on to the next step of its own.
LEMMA SavingMoves ==
  ASSUME StoreInv, NEW t \in Tasks, task[t].pc \in Filling \cup {"stat"},
         NEW pc \in {"file", "open", "pipe", "stat", "manifest"}, GoesTo(t, pc),
         NEW local, local = [task[t] EXCEPT !.pc = pc],
         UNCHANGED <<manifest, surroundings, history>>,
         NEW held \in Contents, files' = [files EXCEPT ![task[t].item] = held],
         pc \in {"file", "open", "pipe"} => task[t].pc \in Filling,
         "lockstep" \notin broken => Careful(local)',
         "lockstep" \notin broken /\ pc = "file" => held = files[task[t].item] /\ task[t].pc = "dir",
         "migration" \notin broken =>
            IF pc \in {"stat", "manifest"}
            THEN task[t].op = "migrate" \/ files[task[t].item] = "whole" => held = "whole"
            ELSE held = files[task[t].item] \/ (files[task[t].item] = "none" /\ held = "empty")
  PROVE  StoreInv'
  <1>1. /\ task[t] \in TaskType /\ Placed(task[t]) /\ Works(task[t])
        /\ task[t].op \in {"download", "migrate"} /\ task[t].item \in Items
        /\ files \in [Items -> Contents] /\ files[task[t].item] \in Contents
    BY SavingType
  <1>2. /\ local.pc = pc /\ local.op = task[t].op /\ local.item = task[t].item
        /\ local.body = task[t].body /\ local.todo = task[t].todo
    BY <1>1 DEF TaskType
  <1>3. local \in TaskType
    BY <1>1 DEF TaskType, SavePC, Filling, Listing
  <1>4. Placed(local) /\ ~InManifest(local) /\ Becomes(t, local)
    <2>1. Placed(local)
      BY <1>1, <1>2 DEF Placed, SavePC, Filling, Listing
    <2> QED
      BY <1>2, <2>1 DEF InManifest, GoesTo
  <1>5. files'[task[t].item] = held /\ \A i \in Items \ {task[t].item} : files'[i] = files[i]
    BY <1>1
  <1>6. ASSUME "lockstep" \notin broken
        PROVE  /\ Careful(local)'
               /\ \A i \in Items : i = task[t].item => Settled(i)' \/ Touches(local, i)
    <2>1. Careful(local)'
      BY <1>6
    <2>2. CASE pc = "file"
      <3>1. ~Touches(task[t], task[t].item)
        BY <1>6, <2>2 DEF Touches, Listing
      <3>2. Settled(task[t].item)
        BY <1>1, <1>6, <3>1, SettledSoFar
      <3> QED
        BY <1>5, <1>6, <2>1, <2>2, <3>2 DEF Settled
    <2>3. CASE pc # "file"
      BY <1>2, <2>1, <2>3 DEF Touches, Listing
    <2> QED
      BY <2>2, <2>3
  <1>7. ASSUME "migration" \notin broken
        PROVE  /\ Faithful(local)'
               /\ files[task[t].item] = "whole" => held = "whole"
    <2>1. Faithful(task[t])
      BY <1>7 DEF StoreInv, NothingLost
    <2>2. files[task[t].item] = "whole" => held = "whole"
      BY <1>7
    <2>3. Landed \subseteq Landed'
      BY <1>1, <1>5, <2>2 DEF Landed, Whole
    <2>4. local.pc \in Filling /\ local.body # "whole" => files'[local.item] # "whole"
      BY <1>2, <1>5, <1>7, <2>1 DEF Faithful, Filling
    <2>5. CASE local.op = "migrate"
      <3>1. owed \subseteq Landed \cup task[t].todo \cup {task[t].item}
        BY <1>2, <2>1, <2>5 DEF Faithful, SavePC
      <3>2. local.pc \in Filling => local.body = "whole"
        BY <1>2, <2>1, <2>5 DEF Faithful, Filling
      <3>3. local.pc \in {"stat"} \cup Listing => files'[local.item] = "whole"
        BY <1>2, <1>5, <1>7, <2>5 DEF Listing
      <3>4. local.pc \notin {"next", "drop", "flag"} /\ local.op # "delete"
        BY <1>2, <2>5
      <3>5. owed' \subseteq Landed' \cup local.todo \cup {local.item}
        BY <1>2, <2>3, <3>1 DEF history
      <3> QED
        BY <2>2, <2>4, <3>2, <3>3, <3>4, <3>5 DEF Faithful
    <2>6. CASE local.op # "migrate"
      BY <1>1, <1>2, <2>2, <2>4, <2>6 DEF Faithful
    <2> QED
      BY <2>2, <2>5, <2>6
  <1>8. /\ UNCHANGED <<legacy, migrated, open, broken, owed>> /\ broken \subseteq Promises
    BY DEF surroundings, history, StoreInv, TypeInv
  <1> QED
    BY <1>1, <1>2, <1>3, <1>4, <1>6, <1>7, <1>8, WorkMoves

\* An exception leaves the file, or removes what was begun.
LEMMA ThrowMoves ==
  ASSUME StoreInv, NEW t \in Tasks, task[t].pc \in Filling \cup {"stat"},
         Becomes(t, Throws(t)), UNCHANGED <<manifest, surroundings, owed>>,
         NEW held \in Contents, files' = [files EXCEPT ![task[t].item] = held],
         broken \cup Skips(t) \subseteq broken', broken' \subseteq Promises,
         "lockstep" \notin broken' => \A i \in Items : i = task[t].item => Settled(i)',
         "migration" \notin broken' => (files[task[t].item] = "whole" => held = "whole")
  PROVE  StoreInv'
  <1>1. /\ task[t] \in TaskType /\ Placed(task[t]) /\ Works(task[t])
        /\ task[t].op \in {"download", "migrate"}
    BY SavingType
  <1>2. CASE task[t].op = "download"
    <2>1. Becomes(t, Over)
      BY <1>2 DEF Throws
    <2>2. ~InManifest(Over) /\ Careful(Over)' /\ Faithful(Over)'
      BY NewTaskType DEF InManifest, Careful, Faithful, Filling, Listing
    <2> QED
      BY <1>1, <2>1, <2>2, NewTaskType, WorkMoves DEF surroundings
  <1>3. CASE task[t].op = "migrate"
    <2>1. PICK local : local = [task[t] EXCEPT !.pc = "next"]
      OBVIOUS
    <2>2. Becomes(t, local)
      BY <1>3, <2>1 DEF Throws
    <2>3. local \in TaskType /\ local.pc = "next" /\ local.op = "migrate" /\ local.item = task[t].item
      BY <1>1, <1>3, <2>1 DEF TaskType, OwnPC
    <2>4. Placed(local) /\ ~InManifest(local) /\ Careful(local)'
      BY <1>1, <1>3, <2>3 DEF Placed, InManifest, Careful, Filling, Listing
    <2>5. "migration" \in broken'
      BY <1>3 DEF Skips
    <2> QED
      BY <1>1, <1>3, <2>2, <2>3, <2>4, <2>5, WorkMoves DEF surroundings
  <1> QED
    BY <1>1, <1>2, <1>3

LEMMA FileKeeps ==
  ASSUME StoreInv, NEW t \in Tasks,
         MakeDir(t) \/ MakeFile(t) \/ CreateWritable(t) \/ PipeTo(t) \/ PipeFails(t) \/ Stat(t)
  PROVE  StoreInv'
  <1>1. task[t].pc \in Filling \cup {"stat"}
    BY DEF MakeDir, MakeFile, CreateWritable, PipeTo, PipeFails, Stat, At, Filling
  <1>2. /\ task[t] \in TaskType /\ Works(task[t]) /\ task[t].op \in {"download", "migrate"}
        /\ task[t].item \in Items
        /\ files \in [Items -> Contents] /\ files[task[t].item] \in Contents
        /\ broken \subseteq Promises /\ Skips(t) \subseteq Promises
    BY <1>1, SavingType DEF StoreInv, TypeInv, Skips, Promises
  <1>3. /\ "lockstep" \notin broken => Careful(task[t])
        /\ "migration" \notin broken => Faithful(task[t])
        /\ "lockstep" \notin broken /\ ~Touches(task[t], task[t].item) => Settled(task[t].item)
    BY <1>2, SettledSoFar DEF StoreInv, InStep, NothingLost
  <1>4. files = [files EXCEPT ![task[t].item] = files[task[t].item]]
    BY <1>2
  <1>5. PICK item : item = task[t].item
    OBVIOUS
  <1>6. CASE MakeDir(t)
    <2>1. PICK local : local = [task[t] EXCEPT !.pc = "file"]
      OBVIOUS
    <2>2. task[t].pc = "dir" /\ GoesTo(t, "file") /\ UNCHANGED <<files, manifest, surroundings, history>>
      BY <1>6 DEF MakeDir, At
    <2>3. "lockstep" \notin broken => Careful(local)'
      BY <1>2, <1>3, <2>1, <2>2 DEF Careful, Filling, Listing, TaskType
    <2> QED
      BY <1>1, <1>2, <1>4, <2>1, <2>2, <2>3, SavingMoves DEF Filling
  <1>7. CASE MakeFile(t)
    <2>1. task[t].pc = "file" /\ UNCHANGED <<manifest, surroundings, owed>>
      BY <1>7 DEF MakeFile, At
    <2>2. CASE VideoOf[item] \in dirs
      <3>1. PICK local : local = [task[t] EXCEPT !.pc = "open"]
        OBVIOUS
      <3>2. PICK held \in Contents : held = IF files[item] = "none" THEN "empty" ELSE files[item]
        BY <1>2, <1>5 DEF Contents
      <3>3. files' = [files EXCEPT ![item] = held] /\ GoesTo(t, "open") /\ UNCHANGED history
        BY <1>5, <1>7, <2>2, <3>2 DEF MakeFile, history
      <3>4. files'[item] = held
        BY <1>2, <1>5, <3>3
      <3>5. ASSUME "lockstep" \notin broken PROVE Careful(local)'
        <4>1. Settled(item)
          BY <1>3, <1>5, <2>1, <3>5 DEF Touches, Listing
        <4>2. held = IF item \in manifest THEN "whole" ELSE "empty"
          BY <1>2, <1>5, <3>2, <4>1 DEF Settled, Contents
        <4>3. local.pc = "open" /\ local.item = item /\ local.body = "whole"
          BY <1>2, <1>3, <1>5, <2>1, <3>1, <3>5 DEF Careful, Filling, TaskType
        <4> QED
          BY <2>1, <3>4, <4>2, <4>3 DEF Careful, Filling, Listing
      <3> QED
        BY <1>1, <1>5, <2>1, <3>1, <3>2, <3>3, <3>5, SavingMoves DEF Filling
    <2>3. CASE VideoOf[item] \notin dirs
      <3>1. UNCHANGED files /\ Becomes(t, Throws(t)) /\ broken' = broken \cup Skips(t)
        BY <1>5, <1>7, <2>3 DEF MakeFile
      <3>2. ASSUME "lockstep" \notin broken' PROVE Settled(item)'
        BY <1>3, <1>5, <2>1, <3>1, <3>2 DEF Touches, Listing, Settled
      <3> QED
        BY <1>1, <1>2, <1>4, <1>5, <2>1, <3>1, <3>2, ThrowMoves
    <2> QED
      BY <2>2, <2>3
  <1>8. ASSUME files[item] = "none", Becomes(t, Throws(t)), broken' = broken \cup Skips(t),
               UNCHANGED <<store, surroundings, owed>>, task[t].pc \in {"open", "stat"}
        PROVE  StoreInv'
    <2>1. "lockstep" \in broken
      BY <1>3, <1>5, <1>8 DEF Careful
    <2> QED
      BY <1>1, <1>2, <1>4, <1>5, <1>8, <2>1, ThrowMoves DEF store
  <1>9. CASE CreateWritable(t)
    <2>1. task[t].pc = "open" /\ UNCHANGED <<store, surroundings, owed>>
      BY <1>9 DEF CreateWritable, At
    <2>2. CASE files[item] # "none"
      <3>1. PICK local : local = [task[t] EXCEPT !.pc = "pipe"]
        OBVIOUS
      <3>2. GoesTo(t, "pipe") /\ UNCHANGED <<files, manifest, surroundings, history>>
        BY <1>5, <1>9, <2>1, <2>2 DEF CreateWritable, store, history
      <3>3. "lockstep" \notin broken => Careful(local)'
        BY <1>2, <1>3, <2>1, <3>1, <3>2 DEF Careful, Filling, Listing, TaskType
      <3> QED
        BY <1>1, <1>2, <1>4, <2>1, <3>1, <3>2, <3>3, SavingMoves DEF Filling
    <2> QED
      BY <1>5, <1>8, <1>9, <2>1, <2>2 DEF CreateWritable
  <1>10. CASE PipeTo(t)
    <2>1. PICK local : local = [task[t] EXCEPT !.pc = "stat"]
      OBVIOUS
    <2>2. PICK held \in Contents : held = task[t].body
      BY <1>2 DEF TaskType
    <2>3. /\ task[t].pc = "pipe" /\ GoesTo(t, "stat") /\ UNCHANGED <<manifest, surroundings, history>>
          /\ files' = [files EXCEPT ![item] = held]
      BY <1>5, <1>10, <2>2 DEF PipeTo, At
    <2>4. files'[item] = held
      BY <1>2, <1>5, <2>3
    <2>5. "lockstep" \notin broken => Careful(local)'
      <3>1. local.pc = "stat" /\ local.item = item
        BY <1>2, <1>5, <2>1 DEF TaskType
      <3> QED
        BY <1>3, <2>2, <2>3, <2>4, <3>1 DEF Careful, Filling, Listing
    <2>6. "migration" \notin broken =>
             (task[t].op = "migrate" \/ files[item] = "whole" => held = "whole")
      BY <1>3, <1>5, <2>2, <2>3 DEF Faithful, Filling
    <2> QED
      BY <1>1, <1>5, <2>1, <2>2, <2>3, <2>5, <2>6, SavingMoves DEF Filling
  <1>11. CASE PipeFails(t)
    <2>1. /\ task[t].pc = "pipe" /\ Becomes(t, Throws(t)) /\ UNCHANGED <<manifest, surroundings, owed>>
          /\ broken \cup Skips(t) \subseteq broken' /\ broken' \subseteq Promises
      BY <1>2, <1>11 DEF PipeFails, At
    <2>2. CASE \A s \in Tasks \ {t} : ~Writing(s, item)
      <3>1. /\ files' = [files EXCEPT ![item] = "none"]
            /\ files[item] = "whole" => Promises \subseteq broken'
        BY <1>5, <1>11, <2>2 DEF PipeFails
      <3>2. ASSUME "lockstep" \notin broken' PROVE Settled(item)'
        <4>1. "lockstep" \notin broken /\ files[item] # "whole"
          BY <2>1, <3>1, <3>2 DEF Promises
        <4>2. item \notin manifest
          BY <1>3, <1>5, <2>1, <4>1 DEF Careful
        <4>3. files'[item] = "none"
          BY <1>2, <1>5, <3>1
        <4> QED
          BY <2>1, <4>2, <4>3 DEF Settled
      <3>3. "migration" \notin broken' => files[item] # "whole"
        BY <3>1 DEF Promises
      <3>4. PICK held \in Contents : held = "none"
        BY DEF Contents
      <3> QED
        BY <1>1, <1>5, <2>1, <3>1, <3>2, <3>3, <3>4, ThrowMoves
    <2>3. CASE \E s \in Tasks \ {t} : Writing(s, item)
      <3>1. UNCHANGED files
        BY <1>5, <1>11, <2>3 DEF PipeFails
      <3>2. PICK s \in Tasks \ {t} : Touches(task[s], item)
        BY <2>3 DEF Writing, Touches, At
      <3>3. broken = Promises
        BY <1>2, <1>5, <3>2, NobodyElse
      <3>4. "lockstep" \in broken' /\ "migration" \in broken'
        BY <2>1, <3>3 DEF Promises
      <3> QED
        BY <1>1, <1>2, <1>4, <2>1, <3>1, <3>4, ThrowMoves
    <2> QED
      BY <2>2, <2>3
  <1>12. CASE Stat(t)
    <2>1. task[t].pc = "stat" /\ UNCHANGED <<store, surroundings, owed>>
      BY <1>12 DEF Stat, At
    <2>2. CASE files[item] # "none"
      <3>1. PICK local : local = [task[t] EXCEPT !.pc = "manifest"]
        OBVIOUS
      <3>2. GoesTo(t, "manifest") /\ UNCHANGED <<files, manifest, surroundings, history>>
        BY <1>5, <1>12, <2>1, <2>2 DEF Stat, store, history
      <3>3. "lockstep" \notin broken => Careful(local)'
        BY <1>2, <1>3, <2>1, <3>1, <3>2 DEF Careful, Filling, Listing, TaskType
      <3>4. "migration" \notin broken => (task[t].op = "migrate" => files[item] = "whole")
        BY <1>3, <1>5, <2>1 DEF Faithful
      <3> QED
        BY <1>1, <1>2, <1>4, <1>5, <2>1, <3>1, <3>2, <3>3, <3>4, SavingMoves
    <2> QED
      BY <1>5, <1>8, <1>12, <2>1, <2>2 DEF Stat
  <1> QED
    BY <1>6, <1>7, <1>9, <1>10, <1>11, <1>12

-----------------------------------------------------------------------------
(* The manifest.                                                           *)

LEMMA ListingType ==
  ASSUME StoreInv, NEW t \in Tasks, task[t].pc \in Listing
  PROVE  /\ task[t] \in TaskType /\ Placed(task[t]) /\ Works(task[t])
         /\ task[t].op \in {"download", "migrate", "delete"} /\ task[t].item \in Items
         /\ files \in [Items -> Contents] /\ manifest \subseteq Items /\ legacy \subseteq Items
         /\ migrated \in BOOLEAN /\ broken \subseteq Promises
         /\ broken # Promises => Current(task[t])
         /\ "lockstep" \notin broken => Careful(task[t])
         /\ "migration" \notin broken =>
               Faithful(task[t]) /\ owed \subseteq Landed \cup (IF migrated THEN {} ELSE legacy)
  <1>1. task[t] \in TaskType /\ Placed(task[t])
    BY LocalsType DEF StoreInv
  <1>2. task[t].op \in {"download", "migrate", "delete"} /\ task[t].item \in Items
    BY <1>1 DEF TaskType, Ops, Placed, FetchPC, Listing
  <1> QED
    BY <1>1, <1>2 DEF Works, StoreInv, TypeInv, Apart, InStep, NothingLost

\* Opening and reading the manifest leaves everything else as it is.
LEMMA ListingMoves ==
  ASSUME StoreInv, NEW t \in Tasks, task[t].pc \in Listing,
         NEW local \in TaskType, Becomes(t, local), local.pc \in {"text", "write"},
         local.op = task[t].op, local.item = task[t].item, local.todo = task[t].todo,
         UNCHANGED <<store, surroundings, owed>>,
         broken \subseteq broken', broken' \subseteq Promises,
         broken' # Promises => Current(local),
         broken' # Promises => InManifest(task[t]) \/ \A d \in Tasks \ {t} : ~InManifest(task[d])
  PROVE  StoreInv'
  <1>1. /\ task[t] \in TaskType /\ Placed(task[t]) /\ Works(task[t])
        /\ task[t].op \in {"download", "migrate", "delete"} /\ task[t].item \in Items
        /\ files \in [Items -> Contents] /\ manifest \subseteq Items /\ legacy \subseteq Items
        /\ migrated \in BOOLEAN
    BY ListingType
  <1>2. Placed(local)
    BY <1>1 DEF Placed, SavePC, Listing
  <1>3. ASSUME broken' # Promises
        PROVE  (\A d \in Tasks \ {t} : Disjoint(local, task[d])) /\ Current(local)'
    <2>1. broken # Promises
      BY <1>3
    <2>2. \A d \in Tasks \ {t} : Disjoint(local, task[d])
      BY <1>3, <2>1, StaysApart
    <2> QED
      BY <1>3, <2>2 DEF Current, store
  <1>4. ASSUME "lockstep" \notin broken'
        PROVE  /\ Careful(local)'
               /\ \A i \in Items : Works(task[t]) /\ i = task[t].item => Touches(local, i)
    <2>1. "lockstep" \notin broken
      BY <1>4
    <2>2. Careful(task[t])
      BY <2>1, ListingType
    <2> QED
      BY <2>2 DEF Careful, Touches, Filling, Listing, store
  <1>5. ASSUME "migration" \notin broken'
        PROVE  Faithful(local)' /\ owed' \subseteq Landed' \cup (IF migrated' THEN {} ELSE legacy')
    <2>1. "migration" \notin broken
      BY <1>5
    <2>2. /\ Faithful(task[t]) /\ owed \subseteq Landed \cup (IF migrated THEN {} ELSE legacy)
      BY <2>1, ListingType
    <2>3. UNCHANGED <<Landed, migrated, legacy, owed, files>>
      BY DEF Landed, Whole, store, surroundings
    <2>4. Faithful(local)'
      BY <2>2, <2>3 DEF Faithful, Filling, Listing, SavePC
    <2> QED
      BY <2>2, <2>3, <2>4
  <1>6. UNCHANGED <<files, manifest, legacy, migrated, open, owed>>
    BY DEF store, surroundings
  <1> QED
    BY <1>1, <1>2, <1>3, <1>4, <1>5, <1>6, TaskMoves

LEMMA OpenManifestKeeps ==
  ASSUME StoreInv, NEW t \in Tasks, OpenManifest(t)
  PROVE  StoreInv'
  <1>1. task[t].pc = "manifest" /\ UNCHANGED <<store, surroundings, owed>>
    BY DEF OpenManifest, At
  <1>2. task[t] \in TaskType /\ manifest \subseteq Items /\ broken \subseteq Promises
    BY <1>1, ListingType DEF Listing
  <1>3. PICK local : local = [task[t] EXCEPT !.saw = manifest, !.stale = FALSE, !.pc = "text"]
    OBVIOUS
  <1>4. local \in TaskType
    BY <1>2, <1>3 DEF TaskType, SavePC, Listing
  <1>5. /\ local.pc = "text" /\ local.op = task[t].op /\ local.item = task[t].item
        /\ local.todo = task[t].todo /\ local.saw = manifest /\ ~local.stale
    BY <1>2, <1>3 DEF TaskType
  <1>6. Becomes(t, local)
    BY <1>3 DEF OpenManifest
  <1>7. /\ broken \subseteq broken' /\ broken' \subseteq Promises
        /\ broken' # Promises => \A d \in Tasks \ {t} : ~InManifest(task[d])
    BY <1>2 DEF OpenManifest, InManifest
  <1>8. Current(local)
    BY <1>5 DEF Current
  <1> QED
    BY <1>1, <1>4, <1>5, <1>6, <1>7, <1>8, ListingMoves DEF Listing

LEMMA ReadManifestKeeps ==
  ASSUME StoreInv, NEW t \in Tasks, ReadManifest(t)
  PROVE  StoreInv'
  <1>1. task[t].pc = "text" /\ UNCHANGED <<store, surroundings, history>>
    BY DEF ReadManifest, At
  <1>2. /\ task[t] \in TaskType /\ Works(task[t]) /\ task[t].item \in Items
        /\ manifest \subseteq Items /\ broken \subseteq Promises
        /\ files \in [Items -> Contents]
        /\ broken # Promises => Current(task[t])
        /\ "lockstep" \notin broken => Careful(task[t])
    BY <1>1, ListingType DEF Listing
  <1>3. PICK saw \in SUBSET Items : saw = IF task[t].stale THEN {} ELSE task[t].saw
    BY <1>2 DEF TaskType
  <1>4. broken # Promises => saw = manifest
    BY <1>1, <1>2, <1>3 DEF Current, InManifest
  <1>5. CASE task[t].op = "delete" /\ task[t].item \notin saw
    <2>1. Becomes(t, Over)
      BY <1>3, <1>5 DEF ReadManifest
    <2>2. ~InManifest(Over) /\ Careful(Over)' /\ Faithful(Over)'
      BY NewTaskType DEF InManifest, Careful, Faithful, Filling, Listing
    <2>3. ASSUME "lockstep" \notin broken PROVE \A i \in Items : i = task[t].item => Settled(i)'
      <3>1. broken # Promises
        BY <2>3 DEF Promises
      <3>2. task[t].item \notin manifest /\ files[task[t].item] = "none"
        BY <1>1, <1>2, <1>4, <1>5, <2>3, <3>1 DEF Careful, Listing
      <3> QED
        BY <1>1, <3>2 DEF Settled, store
    <2>4. files[task[t].item] \in Contents /\ files' = [files EXCEPT ![task[t].item] = files[task[t].item]]
      BY <1>1, <1>2 DEF store
    <2>5. UNCHANGED <<manifest, legacy, migrated, open, owed, broken>>
      BY <1>1 DEF store, surroundings, history
    <2> QED
      BY <1>2, <2>1, <2>2, <2>3, <2>4, <2>5, NewTaskType, WorkMoves
  <1>6. CASE ~(task[t].op = "delete" /\ task[t].item \notin saw)
    <2>1. PICK local : local = [task[t] EXCEPT !.saw = saw, !.pc = "write"]
      OBVIOUS
    <2>2. Becomes(t, local)
      BY <1>3, <1>6, <2>1 DEF ReadManifest
    <2>3. local \in TaskType
      BY <1>2, <1>3, <2>1 DEF TaskType, SavePC, Listing
    <2>4. /\ local.pc = "write" /\ local.op = task[t].op /\ local.item = task[t].item
          /\ local.todo = task[t].todo /\ local.saw = saw
      BY <1>2, <2>1 DEF TaskType
    <2>5. broken # Promises => Current(local)
      BY <1>4, <2>4 DEF Current
    <2> QED
      BY <1>1, <1>2, <2>2, <2>3, <2>4, <2>5, ListingMoves DEF Listing, InManifest, history
  <1> QED
    BY <1>5, <1>6

LEMMA WriteManifestKeeps ==
  ASSUME StoreInv, NEW t \in Tasks, WriteManifest(t)
  PROVE  StoreInv'
  <1>1. task[t].pc = "write" /\ UNCHANGED <<files, dirs, surroundings, history>>
    BY DEF WriteManifest, At
  <1>2. /\ task[t] \in TaskType /\ Works(task[t]) /\ task[t].item \in Items
        /\ task[t].op \in {"download", "migrate", "delete"}
        /\ files \in [Items -> Contents] /\ manifest \subseteq Items /\ legacy \subseteq Items
        /\ migrated \in BOOLEAN /\ broken \subseteq Promises
        /\ broken # Promises => Current(task[t])
        /\ "lockstep" \notin broken => Careful(task[t])
        /\ "migration" \notin broken =>
              Faithful(task[t]) /\ owed \subseteq Landed \cup (IF migrated THEN {} ELSE legacy)
    BY <1>1, ListingType DEF Listing
  <1>3. PICK item : item = task[t].item
    OBVIOUS
  <1>4. PICK local : local = IF task[t].op = "migrate" THEN [task[t] EXCEPT !.pc = "next"] ELSE Over
    OBVIOUS
  <1>5. /\ local \in TaskType /\ Placed(local)
        /\ local.op \in {task[t].op, "none"}
        /\ local.op = "migrate" => local.pc = "next" /\ local.todo = task[t].todo
        /\ local.op = "migrate" \/ local = Over
        /\ local.pc \in {"next", "done"}
    <2>1. CASE task[t].op = "migrate"
      <3>1. /\ local \in TaskType /\ local.op = "migrate" /\ local.pc = "next"
            /\ local.item = task[t].item /\ local.todo = task[t].todo
        BY <1>2, <1>4, <2>1 DEF TaskType, OwnPC
      <3> QED
        BY <1>2, <2>1, <3>1 DEF Placed
    <2>2. CASE task[t].op # "migrate"
      BY <1>4, <2>2, NewTaskType
    <2> QED
      BY <2>1, <2>2
  <1>6. task' = [s \in Tasks |-> IF s = t THEN local
                                 ELSE IF At(s, "text") THEN [task[s] EXCEPT !.stale = TRUE]
                                 ELSE task[s]]
    BY <1>4, Zenon DEF WriteManifest
  <1>7. manifest' = IF task[t].op = "delete" THEN task[t].saw \ {item} ELSE task[t].saw \cup {item}
    BY <1>3, Zenon DEF WriteManifest
  <1>8. UNCHANGED <<files, legacy, migrated, open, broken, owed>>
    BY <1>1 DEF surroundings, history
  <1>9. manifest' \subseteq Items
    BY <1>2, <1>3, <1>7 DEF TaskType
  <1>10. CASE broken = Promises
    <2>1. ASSUME NEW s \in Tasks PROVE task'[s] \in TaskType /\ Placed(task'[s])
      <3>1. task[s] \in TaskType /\ Placed(task[s])
        BY LocalsType DEF StoreInv
      <3>2. PICK rec : rec = [task[s] EXCEPT !.stale = TRUE]
        OBVIOUS
      <3>3. rec \in TaskType /\ rec.op = task[s].op /\ rec.pc = task[s].pc /\ rec.item = task[s].item
        BY <3>1, <3>2 DEF TaskType
      <3>4. Placed(rec)
        BY <3>1, <3>3 DEF Placed
      <3>5. task'[s] \in {local, rec, task[s]}
        BY <1>6, <3>2
      <3> QED
        BY <1>5, <3>1, <3>3, <3>4, <3>5
    <2>2. task' \in [Tasks -> TaskType]
      BY <1>6, <2>1
    <2>3. TypeInv'
      BY <1>8, <1>9, <2>1, <2>2 DEF StoreInv, TypeInv
    <2> QED
      BY <1>8, <1>10, <2>3 DEF StoreInv, Promises
  <1>11. CASE broken # Promises
    <2>1. task[t].saw = manifest
      BY <1>1, <1>2, <1>11 DEF Current, InManifest
    <2>2. ASSUME NEW s \in Tasks \ {t} PROVE ~At(s, "text")
      <3>1. Disjoint(task[t], task[s])
        BY <1>11 DEF StoreInv, Apart
      <3> QED
        BY <1>1, <3>1 DEF Disjoint, InManifest, At
    <2>3. Becomes(t, local)
      <3>1. task \in [Tasks -> TaskType]
        BY DEF StoreInv, TypeInv
      <3>2. \A s \in Tasks : task'[s] = IF s = t THEN local ELSE task[s]
        BY <1>6, <2>2
      <3>3. task' = [s \in Tasks |-> IF s = t THEN local ELSE task[s]]
        BY <1>6, <2>2
      <3> QED
        BY <3>1, <3>3 DEF Becomes
    <2>4. (\A d \in Tasks \ {t} : Disjoint(local, task[d])) /\ Current(local)'
      <3>1. ~InManifest(local)
        BY <1>5 DEF InManifest
      <3>2. local.item = task[t].item \/ local.op \in {"none", "migrate"}
        BY <1>5, NewTaskType
      <3> QED
        BY <1>5, <1>11, <3>1, <3>2, StaysApart DEF Current
    <2>5. \A i \in Items : i # item => (i \in manifest' <=> i \in manifest)
      BY <1>7, <2>1
    <2>6. item \in manifest' <=> task[t].op # "delete"
      BY <1>7, <2>1
    <2>7. ASSUME "lockstep" \notin broken
          PROVE  Careful(local)' /\ \A i \in Items : i = task[t].item => Settled(i)'
      <3>1. files[item] = IF task[t].op = "delete" THEN "none" ELSE "whole"
        BY <1>1, <1>2, <1>3, <2>7 DEF Careful, Listing
      <3>2. Settled(item)'
        BY <1>8, <2>6, <3>1 DEF Settled
      <3>3. Careful(local)'
        BY <1>5 DEF Careful, Filling, Listing
      <3> QED
        BY <1>3, <3>2, <3>3
    <2>8. ASSUME "migration" \notin broken
          PROVE  Faithful(local)' /\ owed \subseteq Landed' \cup (IF migrated THEN {} ELSE legacy)
      <3>1. /\ Faithful(task[t])
            /\ owed \subseteq Landed \cup (IF migrated THEN {} ELSE legacy)
        BY <1>2, <2>8
      <3>2. owed \cap Landed \subseteq Landed'
        <4>1. ASSUME NEW i \in owed, i \in Landed PROVE i \in Landed'
          <5>1. i \in manifest /\ files[i] = "whole" /\ i \in Items
            BY <4>1 DEF Landed, Whole
          <5>2. i = item => task[t].op # "delete"
            BY <1>3, <3>1 DEF Faithful
          <5> QED
            BY <1>8, <2>5, <2>6, <5>1, <5>2 DEF Landed, Whole
        <4> QED
          BY <4>1
      <3>3. ASSUME local.op = "migrate" PROVE owed \subseteq Landed' \cup local.todo
        <4>1. task[t].op = "migrate"
          BY <1>5, <3>3, <1>4, NewTaskType
        <4>2. owed \subseteq Landed \cup task[t].todo \cup {item} /\ files[item] = "whole"
          BY <1>1, <1>3, <3>1, <4>1 DEF Faithful, Listing, SavePC
        <4>3. item \in Landed'
          BY <1>2, <1>3, <1>8, <2>6, <4>1, <4>2 DEF Landed, Whole
        <4>4. local.todo = task[t].todo
          BY <1>5, <3>3
        <4> QED
          BY <3>2, <4>2, <4>3, <4>4
      <3>4. Faithful(local)'
        <4>1. local.op # "delete" /\ local.pc \notin Filling
          BY <1>5, NewTaskType DEF Filling
        <4>2. local.op = "migrate" => local.pc = "next" /\ owed' \subseteq Landed' \cup local.todo
          BY <1>5, <1>8, <3>3
        <4> QED
          BY <4>1, <4>2 DEF Faithful, SavePC, Filling, Listing
      <3> QED
        BY <3>1, <3>2, <3>4
    <2>9. /\ files' \in [Items -> Contents] /\ UNCHANGED <<files, legacy, migrated, open, broken, owed>>
          /\ InManifest(task[t])
      BY <1>1, <1>2, <1>8 DEF InManifest
    <2>10. \A i \in Items : i # task[t].item =>
              files'[i] = files[i] /\ (i \in manifest' <=> i \in manifest)
      BY <1>3, <2>5, <2>9
    <2> QED
      BY <1>2, <1>5, <1>9, <2>3, <2>4, <2>7, <2>8, <2>9, <2>10, TaskMoves
  <1> QED
    BY <1>10, <1>11

LEMMA RemovalKeeps ==
  ASSUME StoreInv, NEW t \in Tasks, RemoveEntry(t) \/ PruneDir(t)
  PROVE  StoreInv'
  <1>1. task[t] \in TaskType /\ Placed(task[t]) /\ files \in [Items -> Contents] /\ broken \subseteq Promises
    BY LocalsType DEF StoreInv, TypeInv
  <1>2. /\ task[t].pc \in {"remove", "prune"} /\ UNCHANGED <<manifest, surroundings, history>>
    BY DEF RemoveEntry, PruneDir, At
  <1>3. task[t].op = "delete" /\ Works(task[t]) /\ task[t].item \in Items
    BY <1>1, <1>2 DEF TaskType, Ops, Placed, Works, SavePC, FetchPC, Filling, Listing
  <1>4. PICK item : item = task[t].item
    OBVIOUS
  <1>5. "migration" \notin broken => item \notin owed
    BY <1>3, <1>4 DEF StoreInv, NothingLost, Faithful
  <1>6. ASSUME NEW pc \in {"prune", "manifest"}, GoesTo(t, pc),
               NEW held \in Contents, files' = [files EXCEPT ![item] = held],
               "lockstep" \notin broken => held = "none"
        PROVE  StoreInv'
    <2>1. PICK local : local = [task[t] EXCEPT !.pc = pc]
      OBVIOUS
    <2>2. /\ local \in TaskType /\ local.pc = pc /\ local.op = "delete" /\ local.item = item
      BY <1>1, <1>3, <1>4, <2>1 DEF TaskType, OwnPC, SavePC, Listing
    <2>3. Becomes(t, local) /\ Placed(local) /\ ~InManifest(local)
      BY <1>3, <1>4, <1>6, <2>1, <2>2 DEF GoesTo, Placed, Listing, InManifest
    <2>4. files'[item] = held
      BY <1>1, <1>3, <1>4, <1>6
    <2>5. "lockstep" \notin broken => Careful(local)' /\ Touches(local, item)
      BY <1>6, <2>2, <2>4 DEF Careful, Touches, Filling, Listing
    <2>6. "migration" \notin broken => Faithful(local)'
      BY <1>2, <1>5, <2>2 DEF Faithful, Filling, history
    <2>7. UNCHANGED <<manifest, legacy, migrated, open, owed, broken>>
      BY <1>2 DEF surroundings, history
    <2> QED
      BY <1>1, <1>3, <1>4, <1>5, <1>6, <2>2, <2>3, <2>5, <2>6, <2>7, WorkMoves
  <1>7. files = [files EXCEPT ![item] = files[item]] /\ files[item] \in Contents
    BY <1>1, <1>3, <1>4
  <1>8. CASE RemoveEntry(t)
    <2>1. CASE files[item] # "none" /\ \A s \in Tasks : ~Writing(s, item)
      <3>1. files' = [files EXCEPT ![item] = "none"] /\ GoesTo(t, "prune")
        BY <1>4, <1>8, <2>1 DEF RemoveEntry
      <3>2. PICK held \in Contents : held = "none"
        BY DEF Contents
      <3> QED
        BY <1>6, <3>1, <3>2
    <2>2. CASE ~(files[item] # "none" /\ \A s \in Tasks : ~Writing(s, item))
      <3>1. UNCHANGED files /\ GoesTo(t, "manifest")
        BY <1>4, <1>8, <2>2 DEF RemoveEntry
      <3>2. ASSUME "lockstep" \notin broken, NEW s \in Tasks PROVE ~Writing(s, item)
        <4>1. broken # Promises
          BY <3>2 DEF Promises
        <4>2. s # t => ~Touches(task[s], item)
          BY <1>3, <1>4, <4>1, NobodyElse
        <4> QED
          BY <1>2, <4>2 DEF Writing, Touches, At
      <3> QED
        BY <1>6, <1>7, <2>2, <3>1, <3>2
    <2> QED
      BY <2>1, <2>2
  <1>9. CASE PruneDir(t)
    <2>1. UNCHANGED files /\ GoesTo(t, "manifest") /\ task[t].pc = "prune"
      BY <1>9 DEF PruneDir, At
    <2>2. "lockstep" \notin broken => files[item] = "none"
      BY <1>4, <2>1 DEF StoreInv, InStep, Careful
    <2> QED
      BY <1>6, <1>7, <2>1, <2>2
  <1> QED
    BY <1>8, <1>9

-----------------------------------------------------------------------------
(* migrateCacheStorageToOpfs.                                              *)

LEMMA MigrationMoves ==
  ASSUME StoreInv, NEW t \in Tasks, task[t].op = "migrate",
         task[t].pc \in {"keys", "next", "drop", "flag"},
         NEW local \in TaskType, Becomes(t, local),
         \/ local = Over
         \/ /\ local.op = "migrate" /\ local.item \in Items
            /\ local.pc \in {"next", "drop", "flag"} \/ (local.pc = "dir" /\ local.body = "whole"),
         UNCHANGED <<store, open, history>>, legacy' \subseteq Items, migrated' \in BOOLEAN,
         "migration" \notin broken =>
            /\ owed \subseteq Landed \cup (IF migrated' THEN {} ELSE legacy')
            /\ local.pc = "next" => owed \subseteq Landed \cup local.todo
            /\ local.pc = "dir" => owed \subseteq Landed \cup local.todo \cup {local.item}
            /\ local.pc \in {"drop", "flag"} => owed \subseteq Landed
  PROVE  StoreInv'
  <1>1. /\ Works(task[t]) /\ files \in [Items -> Contents] /\ manifest \subseteq Items
        /\ broken \subseteq Promises
    BY DEF StoreInv, TypeInv, Works
  <1>2. Placed(local) /\ ~InManifest(local)
    BY NewTaskType DEF Placed, InManifest, SavePC, Filling
  <1>3. ASSUME broken # Promises
        PROVE  (\A d \in Tasks \ {t} : Disjoint(local, task[d])) /\ Current(local)'
    <2>1. \A d \in Tasks \ {t} : Disjoint(local, task[d])
      BY <1>2, <1>3, StaysApart, NewTaskType
    <2> QED
      BY <1>2, <2>1 DEF Current, InManifest
  <1>4. ASSUME "lockstep" \notin broken
        PROVE  Careful(local)' /\ \A i \in Items : i = task[t].item => Settled(i)'
    <2>1. Settled(task[t].item)
      BY <1>1, <1>4, SettledSoFar DEF Touches, Listing
    <2>2. Careful(local)'
      BY NewTaskType DEF Careful, Filling, Listing
    <2> QED
      BY <2>1, <2>2 DEF Settled, store
  <1>5. UNCHANGED <<files, manifest, broken, owed, Landed>>
    BY DEF store, history, Landed, Whole
  <1>6. "migration" \notin broken => Faithful(local)'
    BY <1>5, NewTaskType DEF Faithful, SavePC, Filling, Listing
  <1> QED
    BY <1>1, <1>2, <1>3, <1>4, <1>5, <1>6, TaskMoves

LEMMA MigrationKeeps ==
  ASSUME StoreInv, NEW t \in Tasks,
         Keys(t) \/ MatchEntry(t) \/ DropCache(t) \/ SetFlag(t)
  PROVE  StoreInv'
  <1>1. task[t].pc \in {"keys", "next", "drop", "flag"} /\ UNCHANGED <<store, open, history>>
    BY DEF Keys, MatchEntry, DropCache, SetFlag, At, surroundings, history
  <1>2. /\ task[t] \in TaskType /\ Placed(task[t])
        /\ legacy \subseteq Items /\ migrated \in BOOLEAN
    BY LocalsType DEF StoreInv, TypeInv
  <1>3. task[t].op = "migrate" /\ task[t].item \in Items
    BY <1>1, <1>2 DEF TaskType, Ops, Placed, SavePC, FetchPC, Filling, Listing
  <1>4. "migration" \notin broken =>
           /\ owed \subseteq Landed \cup (IF migrated THEN {} ELSE legacy)
           /\ task[t].pc = "next" => owed \subseteq Landed \cup task[t].todo
           /\ task[t].pc \in {"drop", "flag"} => owed \subseteq Landed
    BY <1>3 DEF StoreInv, NothingLost, Faithful
  <1>5. ASSUME NEW pc \in {"drop", "flag"}, GoesTo(t, pc),
               "migration" \notin broken => owed \subseteq Landed,
               legacy' \subseteq Items, UNCHANGED migrated
        PROVE  StoreInv'
    <2>1. PICK local : local = [task[t] EXCEPT !.pc = pc]
      OBVIOUS
    <2>2. local \in TaskType /\ local.pc = pc /\ local.op = "migrate" /\ local.item \in Items
      BY <1>2, <1>3, <2>1 DEF TaskType, OwnPC
    <2>3. Becomes(t, local)
      BY <1>5, <2>1 DEF GoesTo
    <2> QED
      BY <1>1, <1>2, <1>3, <1>5, <2>2, <2>3, MigrationMoves
  <1>6. CASE Keys(t)
    <2>1. task[t].pc = "keys" /\ UNCHANGED <<legacy, migrated>>
      BY <1>6 DEF Keys, At, surroundings
    <2>2. CASE migrated
      <3>1. Becomes(t, Over)
        BY <1>6, <2>2 DEF Keys
      <3> QED
        BY <1>1, <1>2, <1>3, <1>4, <2>1, <3>1, NewTaskType, MigrationMoves
    <2>3. CASE ~migrated /\ legacy = {}
      <3>1. GoesTo(t, "flag")
        BY <1>6, <2>3 DEF Keys
      <3> QED
        BY <1>2, <1>4, <1>5, <2>1, <2>3, <3>1
    <2>4. CASE ~migrated /\ legacy # {}
      <3>1. PICK local : local = [task[t] EXCEPT !.todo = legacy, !.pc = "next"]
        OBVIOUS
      <3>2. Becomes(t, local)
        BY <1>6, <2>4, <3>1 DEF Keys
      <3>3. /\ local \in TaskType /\ local.pc = "next" /\ local.op = "migrate"
            /\ local.item \in Items /\ local.todo = legacy
        BY <1>2, <1>3, <3>1 DEF TaskType, OwnPC
      <3> QED
        BY <1>1, <1>2, <1>3, <1>4, <2>1, <2>4, <3>2, <3>3, MigrationMoves
    <2> QED
      BY <2>2, <2>3, <2>4
  <1>7. CASE MatchEntry(t)
    <2>1. task[t].pc = "next" /\ UNCHANGED <<legacy, migrated>>
      BY <1>7 DEF MatchEntry, At, surroundings
    <2>2. CASE task[t].todo = {} /\ GoesTo(t, "drop")
      BY <1>2, <1>4, <1>5, <2>1, <2>2
    <2>3. ASSUME NEW i \in task[t].todo, NEW rec, rec = [task[t] EXCEPT !.todo = @ \ {i}],
                 Becomes(t, [rec EXCEPT !.item = i, !.body = "whole", !.pc = "dir"])
          PROVE  StoreInv'
      <3>1. rec \in TaskType /\ rec.todo = task[t].todo \ {i} /\ rec.op = "migrate" /\ i \in Items
        BY <1>2, <1>3, <2>3 DEF TaskType
      <3>2. PICK local : local = [rec EXCEPT !.item = i, !.body = "whole", !.pc = "dir"]
        OBVIOUS
      <3>3. /\ local \in TaskType /\ local.pc = "dir" /\ local.op = "migrate" /\ local.body = "whole"
            /\ local.item = i /\ local.todo = task[t].todo \ {i}
        BY <3>1, <3>2 DEF TaskType, SavePC, Filling, Contents
      <3>4. task[t].todo \subseteq local.todo \cup {local.item}
        BY <3>3
      <3> QED
        BY <1>1, <1>2, <1>3, <1>4, <2>1, <2>3, <3>1, <3>2, <3>3, <3>4, MigrationMoves
    <2>4. ASSUME NEW i \in task[t].todo, i \notin legacy,
                 Becomes(t, [task[t] EXCEPT !.todo = @ \ {i}])
          PROVE  StoreInv'
      <3>1. PICK local : local = [task[t] EXCEPT !.todo = @ \ {i}]
        OBVIOUS
      <3>2. /\ local \in TaskType /\ local.pc = "next" /\ local.op = "migrate"
            /\ local.item \in Items /\ local.todo = task[t].todo \ {i}
        BY <1>2, <1>3, <2>1, <3>1 DEF TaskType
      <3>3. "migration" \notin broken => owed \subseteq Landed \cup local.todo
        BY <1>4, <2>1, <2>4, <3>2
      <3>4. Becomes(t, local)
        BY <2>4, <3>1
      <3> QED
        BY <1>1, <1>2, <1>3, <1>4, <2>1, <3>2, <3>3, <3>4, MigrationMoves
    <2> QED
      BY <1>7, <2>2, <2>3, <2>4 DEF MatchEntry
  <1>8. CASE DropCache(t)
    BY <1>4, <1>5, <1>8 DEF DropCache, At
  <1>9. CASE SetFlag(t)
    <2>1. task[t].pc = "flag" /\ migrated' = TRUE /\ Becomes(t, Over) /\ UNCHANGED legacy
      BY <1>9 DEF SetFlag, At
    <2> QED
      BY <1>1, <1>2, <1>3, <1>4, <2>1, NewTaskType, MigrationMoves
  <1> QED
    BY <1>6, <1>7, <1>8, <1>9

-----------------------------------------------------------------------------
(* Tasks begin, pages come and go.                                         *)

LEMMA BeginKeeps ==
  ASSUME StoreInv, NEW t \in Tasks, NEW p \in Pages, Begin(t, p)
  PROVE  StoreInv'
  <1>1. PICK i \in Items, op \in {"download", "play", "delete", "migrate"},
             pc \in {"clients", "network", "remove", "keys"} :
           /\ Begins(t, p, op, i, pc)
           /\ pc \in {"clients", "network"} <=> op \in {"download", "play"}
           /\ pc = "remove" <=> op = "delete"
    BY DEF Begin
  <1>2. PICK local : local = [NewTask EXCEPT !.op = op, !.page = p, !.item = i, !.pc = pc]
    OBVIOUS
  <1>3. PICK new : new = NewTask
    OBVIOUS
  <1>4. local \in TaskType /\ local.op = op /\ local.item = i /\ local.pc = pc
    <2>1. new \in TaskType /\ local = [new EXCEPT !.op = op, !.page = p, !.item = i, !.pc = pc]
      BY <1>2, <1>3, NewTaskType, Zenon
    <2> QED
      BY <2>1 DEF TaskType, Ops, OwnPC, FetchPC
  <1>5. /\ task[t].pc = "new" /\ Becomes(t, local) /\ UNCHANGED <<store, surroundings>>
        /\ owed' = IF op = "delete" THEN owed \ {i} ELSE owed
    BY <1>1, <1>2 DEF Begins, At
  <1>6. /\ broken' \in {broken, Promises}
        /\ \A s \in Tasks : op # "play" /\ Working(s) /\ (task[s].item = i \/ "migrate" \in {op, task[s].op})
              => broken' = Promises
    BY <1>1 DEF Begins
  <1>7. /\ task[t] \in TaskType /\ Placed(task[t])
        /\ files \in [Items -> Contents] /\ manifest \subseteq Items /\ legacy \subseteq Items
        /\ migrated \in BOOLEAN /\ broken \subseteq Promises
    BY LocalsType DEF StoreInv, TypeInv
  <1>8. UNCHANGED <<files, manifest, legacy, migrated, open>>
    BY <1>5 DEF store, surroundings
  <1>9. Placed(local) /\ ~InManifest(local) /\ ~Works(task[t])
    <2>1. ~Works(task[t])
      BY <1>5, <1>7 DEF Works, Placed, SavePC, FetchPC, Filling, Listing
    <2>2. Placed(local)
      BY <1>1, <1>4 DEF Placed, FetchPC
    <2> QED
      BY <1>4, <2>1, <2>2 DEF InManifest
  <1>10. ASSUME broken' # Promises
         PROVE  (\A d \in Tasks \ {t} : Disjoint(local, task[d])) /\ Current(local)'
    <2>1. ASSUME NEW d \in Tasks \ {t} PROVE Disjoint(local, task[d])
      <3>1. task[d] \in TaskType /\ Placed(task[d])
        BY LocalsType DEF StoreInv
      <3>2. Works(task[d]) => Working(d)
        BY <3>1 DEF Works, Working, Placed, SavePC, FetchPC, Filling, Listing
      <3> QED
        BY <1>4, <1>6, <1>9, <1>10, <3>2 DEF Disjoint, Works
    <2> QED
      BY <1>9, <2>1 DEF Current, InManifest
  <1>11. Careful(local)'
    BY <1>1, <1>4 DEF Careful, Filling, Listing
  <1>12. ASSUME "migration" \notin broken'
         PROVE  Faithful(local)' /\ owed' \subseteq Landed' \cup (IF migrated' THEN {} ELSE legacy')
    <2>1. owed \subseteq Landed \cup (IF migrated THEN {} ELSE legacy)
      BY <1>6, <1>12 DEF StoreInv, NothingLost, Promises
    <2>2. Faithful(local)'
      BY <1>1, <1>4, <1>5 DEF Faithful, Filling, Listing, SavePC
    <2> QED
      BY <1>5, <1>8, <2>1, <2>2 DEF Landed, Whole
  <1>13. broken \subseteq broken' /\ broken' \subseteq Promises /\ owed' \subseteq owed
    BY <1>5, <1>6, <1>7
  <1> QED
    BY <1>4, <1>5, <1>7, <1>8, <1>9, <1>10, <1>11, <1>12, <1>13, TaskMoves

\* A page that closes ends its tasks and is no answer for the others.
LEMMA ClosePageKeeps ==
  ASSUME StoreInv, NEW p \in Pages, ClosePage(p)
  PROVE  StoreInv'
  <1>1. /\ UNCHANGED <<store, legacy, migrated, owed>> /\ open' = open \ {p}
        /\ broken' = IF \E t \in Tasks : task[t].page = p /\ Working(t)
                     THEN broken \cup {"lockstep"} ELSE broken
    BY DEF ClosePage
  <1>2. UNCHANGED <<files, manifest, legacy, migrated, owed, Landed>>
    BY <1>1 DEF store, Landed, Whole
  <1>3. ASSUME NEW t \in Tasks
        PROVE  /\ task'[t] \in TaskType /\ Placed(task'[t])
               /\ \/ task'[t] = Over /\ ("lockstep" \notin broken' => ~Works(task[t]))
                  \/ /\ task'[t].op = task[t].op /\ task'[t].item = task[t].item
                     /\ task'[t].pc = task[t].pc /\ task'[t].body = task[t].body
                     /\ task'[t].saw = task[t].saw /\ task'[t].stale = task[t].stale
                     /\ task'[t].todo = task[t].todo
    <2>1. task[t] \in TaskType /\ Placed(task[t])
      BY LocalsType DEF StoreInv
    <2>2. PICK rec : rec = [task[t] EXCEPT !.ask = @ \ {p}, !.via = IF @ = p THEN NoPage ELSE @]
      OBVIOUS
    <2>3. /\ rec \in TaskType /\ rec.op = task[t].op /\ rec.item = task[t].item
          /\ rec.pc = task[t].pc /\ rec.body = task[t].body
          /\ rec.saw = task[t].saw /\ rec.stale = task[t].stale /\ rec.todo = task[t].todo
      BY <2>1, <2>2 DEF TaskType
    <2>4. Placed(rec)
      BY <2>1, <2>3 DEF Placed
    <2>5. task'[t] = IF task[t].page = p THEN Over ELSE rec
      BY <2>2 DEF ClosePage
    <2>6. Works(task[t]) => Working(t)
      BY <2>1 DEF Works, Working, Placed, SavePC, FetchPC, Filling, Listing
    <2>7. CASE task[t].page = p
      BY <1>1, <2>5, <2>6, <2>7, NewTaskType
    <2>8. CASE task[t].page # p
      BY <2>3, <2>4, <2>5, <2>8
    <2> QED
      BY <2>7, <2>8
  <1>4. TypeInv'
    <2>1. task' = [t \in Tasks |-> task'[t]]
      BY DEF ClosePage
    <2>2. task' \in [Tasks -> TaskType]
      BY <1>3, <2>1
    <2> QED
      BY <1>1, <1>2, <1>3, <2>2 DEF StoreInv, TypeInv, Promises
  <1>5. ASSUME broken' # Promises PROVE Apart'
    <2>1. broken # Promises /\ Apart
      BY <1>1, <1>5 DEF StoreInv, TypeInv, Promises
    <2>2. ASSUME NEW s \in Tasks, NEW t \in Tasks, s # t PROVE Disjoint(task'[s], task'[t])
      <3>1. Disjoint(task[s], task[t])
        BY <2>1, <2>2 DEF Apart
      <3> QED
        BY <1>3, <3>1, NewTaskType DEF Disjoint, Works, InManifest
    <2>3. ASSUME NEW t \in Tasks PROVE Current(task[t])'
      <3>1. Current(task[t])
        BY <2>1 DEF Apart
      <3> QED
        BY <1>2, <1>3, <3>1, NewTaskType DEF Current, InManifest
    <2> QED
      BY <2>2, <2>3 DEF Apart
  <1>6. ASSUME "lockstep" \notin broken' PROVE InStep'
    <2>1. InStep
      BY <1>1, <1>6 DEF StoreInv
    <2>2. ASSUME NEW t \in Tasks PROVE Careful(task[t])'
      <3>1. Careful(task[t])
        BY <2>1 DEF InStep
      <3> QED
        BY <1>2, <1>3, <3>1, NewTaskType DEF Careful, Filling, Listing
    <2>3. ASSUME NEW t \in Tasks, NEW i \in Items, Touches(task[t], i) PROVE Touches(task'[t], i)
      <3>1. Works(task[t])
        BY <2>3, LocalsType DEF StoreInv, Touches, Works, Placed, TaskType, Ops, FetchPC, Listing
      <3> QED
        BY <1>3, <1>6, <2>3, <3>1 DEF Touches
    <2>4. ASSUME NEW i \in Items PROVE Settled(i)' \/ \E t \in Tasks : Touches(task'[t], i)
      <3>1. Settled(i) \/ \E t \in Tasks : Touches(task[t], i)
        BY <2>1 DEF InStep
      <3> QED
        BY <1>2, <2>3, <3>1 DEF Settled
    <2> QED
      BY <2>2, <2>4 DEF InStep, Touches
  <1>7. ASSUME "migration" \notin broken' PROVE NothingLost'
    <2>1. NothingLost
      BY <1>1, <1>7 DEF StoreInv
    <2>2. ASSUME NEW t \in Tasks PROVE Faithful(task[t])'
      <3>1. Faithful(task[t])
        BY <2>1 DEF NothingLost
      <3> QED
        BY <1>2, <1>3, <3>1, NewTaskType DEF Faithful, Filling, Listing, SavePC
    <2> QED
      BY <1>2, <2>1, <2>2 DEF NothingLost
  <1> QED
    BY <1>4, <1>5, <1>6, <1>7 DEF StoreInv

\* With all tasks and the store as they were.
LEMMA SurroundingsMove ==
  ASSUME StoreInv, UNCHANGED <<store, task, owed, migrated>>,
         open' \subseteq Pages, legacy' \subseteq Items, broken' \in {broken, broken \cup {"migration"}},
         legacy' # legacy => "migration" \in broken'
  PROVE  StoreInv'
  <1>1. UNCHANGED <<files, manifest, task, owed, migrated, Landed>>
    BY DEF store, Landed, Whole
  <1>2. TypeInv'
    BY <1>1 DEF StoreInv, TypeInv, Promises
  <1>3. broken' # Promises => broken # Promises
    BY DEF StoreInv, TypeInv, Promises
  <1>4. Apart => Apart'
    BY <1>1 DEF Apart, Current
  <1>5. InStep => InStep'
    BY <1>1 DEF InStep, Careful, Settled
  <1>6. NothingLost /\ legacy' = legacy => NothingLost'
    <2>1. ASSUME NEW t \in Tasks, Faithful(task[t]) PROVE Faithful(task[t])'
      BY <1>1, <2>1 DEF Faithful
    <2> QED
      BY <1>1, <2>1 DEF NothingLost
  <1> QED
    BY <1>2, <1>3, <1>4, <1>5, <1>6 DEF StoreInv

LEMMA NextStore == StoreInv /\ [Next]_vars => StoreInv'
  <1> SUFFICES ASSUME StoreInv, [Next]_vars PROVE StoreInv'
    OBVIOUS
  <1>1. ASSUME NEW t \in Tasks, NEW p \in Pages, Begin(t, p) PROVE StoreInv'
    BY <1>1, BeginKeeps
  <1>2. ASSUME NEW t \in Tasks, FetchStep(t) PROVE StoreInv'
    BY <1>2, FetchKeeps
  <1>3. ASSUME NEW t \in Tasks, SaveStep(t) PROVE StoreInv'
    BY <1>3, FileKeeps, OpenManifestKeeps, ReadManifestKeeps, WriteManifestKeeps DEF SaveStep
  <1>4. ASSUME NEW t \in Tasks, RemoveEntry(t) \/ PruneDir(t) PROVE StoreInv'
    BY <1>4, RemovalKeeps
  <1>5. ASSUME NEW t \in Tasks, Keys(t) \/ MatchEntry(t) \/ DropCache(t) \/ SetFlag(t)
        PROVE  StoreInv'
    BY <1>5, MigrationKeeps
  <1>6. ASSUME NEW p \in Pages, ClosePage(p) PROVE StoreInv'
    BY <1>6, ClosePageKeeps
  <1>7. open \subseteq Pages /\ legacy \subseteq Items
    BY DEF StoreInv, TypeInv
  <1>8. ASSUME NEW p \in Pages, OpenPage(p) PROVE StoreInv'
    BY <1>7, <1>8, SurroundingsMove DEF OpenPage, history
  <1>9. CASE ActivateWorker
    <2>1. /\ UNCHANGED <<store, migrated, open, task, owed>> /\ legacy' = {}
          /\ broken' = IF legacy # {} THEN broken \cup {"migration"} ELSE broken
      BY <1>9 DEF ActivateWorker
    <2> QED
      BY <1>7, <2>1, SurroundingsMove
  <1>10. CASE UNCHANGED vars
    BY <1>7, <1>10, SurroundingsMove DEF vars, surroundings, history
  <1> QED
    BY <1>1, <1>2, <1>3, <1>4, <1>5, <1>6, <1>8, <1>9, <1>10 DEF Next

LEMMA StoreInvariance == Spec => []StoreInv
  BY InitStore, NextStore, PTL DEF Spec

\* When nobody is at work the manifest lists exactly the files there are,
\* each whole, whichever tasks have begun, overlapped over different items or
\* failed before.
THEOREM StoreKeepsStep == Spec => []StoresInLockstep
  <1>1. StoreInv => StoresInLockstep
    <2> SUFFICES ASSUME StoreInv, "lockstep" \notin broken, ~\E t \in Tasks : Working(t)
                 PROVE  manifest = Whole /\ \A i \in Items : files[i] # "empty"
      BY DEF StoresInLockstep
    <2>1. InStep /\ manifest \subseteq Items
      BY DEF StoreInv, TypeInv
    <2>2. ASSUME NEW t \in Tasks, NEW i \in Items PROVE ~Touches(task[t], i)
      <3>1. Placed(task[t]) /\ task[t] \in TaskType /\ ~Working(t)
        BY LocalsType DEF StoreInv
      <3> QED
        BY <3>1 DEF Touches, Working, Placed, TaskType, Ops, FetchPC, Listing
    <2>3. \A i \in Items : Settled(i)
      BY <2>1, <2>2 DEF InStep
    <2> QED
      BY <2>1, <2>3 DEF Settled, Whole
  <1> QED
    BY <1>1, StoreInvariance, PTL

\* A download of an older build stays in its cache until the file system has
\* it whole and listed, wherever a migration is cut off.
THEOREM MigrationKeepsAll == Spec => []MigrationLosesNothing
  <1>1. StoreInv => MigrationLosesNothing
    BY DEF StoreInv, NothingLost, MigrationLosesNothing, Landed
  <1> QED
    BY <1>1, StoreInvariance, PTL
=============================================================================
