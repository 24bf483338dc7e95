--------------------------- MODULE PlaybackProofs ---------------------------
(***************************************************************************)
(* Four promises of a playback, for any number of requests and tasks, any  *)
(* extractions and any bounds: RangePersistMemo suppresses only writes     *)
(* that are done or under way, a cast URL outlives neither of the          *)
(* permissions it was minted with, a manifest offers every height and      *)
(* language that can be played, and it gives none the ranges of another    *)
(* file.                                                                   *)
(*                                                                         *)
(* The entry of the memo and the task it speaks of part when the memo      *)
(* overflows or a newer set takes the entry.  What holds them together is  *)
(* that as long as no two tasks overlap the one at work has the entry, or  *)
(* nobody has.                                                             *)
(*                                                                         *)
(* For the manifest it takes lemmas on filter, dedupe and trim, by         *)
(* induction on the formats taken so far: a set of numbers that has 0 and  *)
(* with a number the next has all of them.                                 *)
(***************************************************************************)
EXTENDS Playback, TLAPS, WellFoundedInduction

\* What a request has resolved, for some of the formats.
Resolved == UNION {[ids -> Ranges] : ids \in SUBSET FormatIds}

RequestType ==
    [pc: {"idle", "extract", "cast", "access", "resolve", "answer"}, kind: Kinds,
     x: Extractions \cup {Nothing}, ranges: Resolved \cup {Nothing},
     mayView: BOOLEAN, mayCast: BOOLEAN]

TypeInv ==
    /\ cached \in Extractions
    /\ rows \in [FormatIds -> Ranges \cup {Nothing}]
    /\ memo = Nothing \/ memo \in Entries
    /\ task \in [Requests -> Tasks]
    /\ overlap \in BOOLEAN
    /\ stored \subseteq RangeSets
    /\ allowed \in BOOLEAN /\ castable \in BOOLEAN
    /\ token \in {"none", "minted", "expired"}
    /\ refills \in 0 .. Refills /\ changes \in 0 .. Changes
    /\ request \in [Requests -> RequestType]
    /\ \A r \in Requests : request[r].pc \in {"idle", "extract"} <=> request[r].x = Nothing

Works(r) == task[r].pc \in {"writing", "stored"}

\* A request that has not handed its ranges to a task has none.
SlotInv ==
    \A r \in Requests : request[r].pc \notin {"idle", "answer"} => task[r] = NoTask

\* A task that has written has committed its set; the entry of the memo is
\* that of a task at work, or of a set that was committed.  As long as no
\* other task overlapped, nobody but the one at work has the entry, and the
\* table holds what was committed last.
MemoInv ==
    /\ \A r \in Requests : task[r].pc = "stored" => task[r].set \in stored
    /\ memo # Nothing =>
          /\ memo.state = "inflight" => \E r \in Requests : Works(r) /\ task[r].set = memo.set
          /\ memo.state = "persisted" => memo.set \in stored
    /\ ~overlap =>
          /\ \A r, q \in Requests : Works(r) /\ Works(q) => r = q
          /\ \A r \in Requests :
                /\ task[r].pc = "writing" => memo \in {Nothing, InFlight(task[r].set)}
                /\ task[r].pc = "stored" => \A i \in DOMAIN task[r].set : rows[i] = task[r].set[i]
          /\ memo # Nothing /\ memo.state = "persisted" =>
                \A i \in DOMAIN memo.set : rows[i] = memo.set[i]

\* A request remembers what is allowed while it lasts, and has passed its
\* checks by the place it is at.
RuleInv ==
    \A r \in Requests :
        /\ request[r].pc # "idle" => (allowed => request[r].mayView) /\ (castable => request[r].mayCast)
        /\ request[r].pc \in {"access", "resolve", "answer"} /\ request[r].kind = "cast" =>
              request[r].mayCast
        /\ request[r].pc \in {"resolve", "answer"} => request[r].mayView

-----------------------------------------------------------------------------
(* Ranges.                                                                 *)

\* The ranges of an extraction are for formats it has.
LEMMA OwnRangesType ==
  ASSUME NEW x \in Extractions
  PROVE  /\ OwnRanges(x) \in RangeSets
         /\ DOMAIN OwnRanges(x) \subseteq FormatIds
         /\ \A i \in DOMAIN OwnRanges(x) : OwnRanges(x)[i] \in Ranges
  <1>1. OwnRanges(x) \in RangeSets
    BY DEF RangeSets
  <1>2. DOMAIN OwnRanges(x) \subseteq {f.id : f \in ToSet(x.formats)}
    BY DEF OwnRanges, ResolveRanges
  <1>3. {f.id : f \in ToSet(x.formats)} \subseteq FormatIds
    BY DEF FormatIds
  <1>4. \A i \in DOMAIN OwnRanges(x) : OwnRanges(x)[i] \in Ranges
    BY <1>1 DEF Ranges
  <1> QED
    BY <1>1, <1>2, <1>3, <1>4

LEMMA RangeSetsType ==
  ASSUME NEW set \in RangeSets
  PROVE  DOMAIN set \subseteq FormatIds /\ \A i \in DOMAIN set : set[i] \in Ranges
  BY OwnRangesType DEF RangeSets

\* What the table adds is for formats of the extraction, too.
LEMMA ResolvedType ==
  ASSUME NEW x \in Extractions, rows \in [FormatIds -> Ranges \cup {Nothing}]
  PROVE  ResolvedRanges(x, rows) \in Resolved
  <1> DEFINE own == OwnRanges(x)
             found == {f.id : f \in {g \in ToSet(x.formats) :
                          g.direct /\ g.id \notin DOMAIN own /\ rows[g.id] # Nothing}}
  <1>1. found \subseteq FormatIds
    BY DEF FormatIds
  <1>2. \A i \in found : rows[i] \in Ranges
    BY <1>1
  <1>3. DOMAIN own \cup found \in SUBSET FormatIds
    BY <1>1, OwnRangesType
  <1>4. ResolvedRanges(x, rows) = [i \in DOMAIN own \cup found |->
                                      IF i \in DOMAIN own THEN own[i] ELSE rows[i]]
    BY DEF ResolvedRanges
  <1>5. \A i \in DOMAIN own \cup found :
            (IF i \in DOMAIN own THEN own[i] ELSE rows[i]) \in Ranges
    BY <1>2, OwnRangesType
  <1> HIDE DEF own, found
  <1>6. ResolvedRanges(x, rows) \in [DOMAIN own \cup found -> Ranges]
    BY <1>4, <1>5
  <1> QED
    BY <1>3, <1>6 DEF Resolved

-----------------------------------------------------------------------------
(* Types.                                                                  *)

LEMMA InitTypes == Init => TypeInv
  <1> SUFFICES ASSUME Init PROVE TypeInv
    OBVIOUS
  <1>1. Idle \in RequestType
    BY DEF Idle, RequestType, Kinds
  <1>2. request \in [Requests -> RequestType]
    BY <1>1 DEF Init
  <1>3. NoTask \in Tasks
    BY DEF Tasks
  <1>4. /\ \A r \in Requests : request[r].pc \in {"idle", "extract"} <=> request[r].x = Nothing
        /\ task \in [Requests -> Tasks]
        /\ rows \in [FormatIds -> Ranges \cup {Nothing}]
        /\ refills \in 0 .. Refills /\ changes \in 0 .. Changes
    BY <1>3, BoundsAssumption DEF Init, Idle
  <1>5. overlap \in BOOLEAN /\ allowed \in BOOLEAN /\ castable \in BOOLEAN
    BY Zenon DEF Init
  <1>6. /\ cached \in Extractions /\ memo = Nothing /\ stored \subseteq RangeSets
        /\ token \in {"none", "minted", "expired"}
    BY DEF Init
  <1> QED
    BY <1>2, <1>4, <1>5, <1>6, Zenon DEF TypeInv

\* What a request needs of its next locals.
Fits(next) == next \in RequestType /\ (next.pc \in {"idle", "extract"} <=> next.x = Nothing)

LEMMA RequestMoves ==
  ASSUME TypeInv, NEW r \in Requests, NEW next, Fits(next),
         request' = [request EXCEPT ![r] = next]
  PROVE  /\ request' \in [Requests -> RequestType]
         /\ \A q \in Requests : request'[q].pc \in {"idle", "extract"} <=> request'[q].x = Nothing
         /\ request'[r] = next /\ \A q \in Requests \ {r} : request'[q] = request[q]
  BY DEF TypeInv, Fits

LEMMA RequestFits ==
  ASSUME TypeInv, NEW r \in Requests
  PROVE  Fits(request[r]) /\ request[r] \in RequestType
  BY DEF TypeInv, Fits

LEMMA IdleFits == Fits(Idle)
  BY DEF Fits, Idle, RequestType, Kinds

LEMMA ClaimTypes ==
  ASSUME TypeInv, NEW r \in Requests, NEW set \in RangeSets, BeginPersist(r, set)
  PROVE  /\ memo' = Nothing \/ memo' \in Entries
         /\ task' \in [Requests -> Tasks]
         /\ overlap' \in BOOLEAN
  <1>1. CASE DOMAIN set # {} /\ Claims(set)
    <2>1. memo' \in Entries
      BY <1>1 DEF BeginPersist, Entries
    <2>2. [pc |-> "writing", set |-> set] \in Tasks
      BY DEF Tasks
    <2>3. overlap' \in BOOLEAN
      BY <1>1, Zenon DEF BeginPersist
    <2> QED
      BY <1>1, <2>1, <2>2, <2>3 DEF BeginPersist, TypeInv
  <1>2. CASE ~(DOMAIN set # {} /\ Claims(set))
    BY <1>2 DEF BeginPersist, TypeInv
  <1> QED
    BY <1>1, <1>2

LEMMA StepTypes ==
  ASSUME TypeInv, NEW r \in Requests, Step(r)
  PROVE  TypeInv'
  <1>1. ASSUME NEW kind \in Kinds, Start(r, kind)
        PROVE  TypeInv'
    <2> DEFINE next == [Idle EXCEPT !.pc = "extract", !.kind = kind,
                                    !.mayView = allowed, !.mayCast = castable]
    <2>1. Fits(next)
      BY DEF Fits, Idle, RequestType, Kinds, TypeInv
    <2> QED
      BY <1>1, <2>1, RequestMoves DEF Start, TypeInv, rangeVars, ruleVars
  <1>2. CASE GetOrExtract(r)
    <2> DEFINE next == [request[r] EXCEPT !.x = cached,
                           !.pc = IF request[r].kind = "cast" THEN "cast" ELSE "access"]
    <2>1. Fits(next)
      BY <1>2, RequestFits, NothingAssumption DEF Fits, RequestType, TypeInv, GetOrExtract
    <2>2. request' = [request EXCEPT ![r] = next]
      BY <1>2, RequestFits DEF GetOrExtract, RequestType
    <2> QED
      BY <1>2, <2>1, <2>2, RequestMoves DEF GetOrExtract, TypeInv, rangeVars, ruleVars
  <1>3. CASE CheckCast(r)
    <2> DEFINE next == IF castable THEN [request[r] EXCEPT !.pc = "access"] ELSE Idle
    <2>1. Fits(next)
      BY <1>3, RequestFits, IdleFits DEF Fits, RequestType, CheckCast
    <2>2. request' = [request EXCEPT ![r] = next]
      BY <1>3 DEF CheckCast
    <2> QED
      BY <1>3, <2>1, <2>2, RequestMoves DEF CheckCast, TypeInv, rangeVars, ruleVars
  <1>4. CASE EnforceAccess(r)
    <2> DEFINE next == IF allowed THEN [request[r] EXCEPT !.pc = "resolve"] ELSE Idle
    <2>1. Fits(next)
      BY <1>4, RequestFits, IdleFits DEF Fits, RequestType, EnforceAccess
    <2>2. request' = [request EXCEPT ![r] = next]
      BY <1>4 DEF EnforceAccess
    <2> QED
      BY <1>4, <2>1, <2>2, RequestMoves DEF EnforceAccess, TypeInv, rangeVars, ruleVars
  <1>5. CASE ResolveSegmentRanges(r)
    <2> DEFINE resolved == ResolvedRanges(request[r].x, rows)
               next == [request[r] EXCEPT !.ranges = resolved, !.pc = "answer"]
    <2>1. request[r].x \in Extractions
      BY <1>5, RequestFits DEF Fits, RequestType, ResolveSegmentRanges
    <2>2. resolved \in Resolved
      BY <2>1, ResolvedType DEF TypeInv
    <2>3. OwnRanges(request[r].x) \in RangeSets
      BY <2>1, OwnRangesType
    <2>4. Fits(next)
      BY <1>5, <2>2, RequestFits DEF Fits, RequestType, ResolveSegmentRanges
    <2>5. request' = [request EXCEPT ![r] = next]
      BY <1>5, RequestFits DEF ResolveSegmentRanges, RequestType
    <2> QED
      BY <1>5, <2>3, <2>4, <2>5, RequestMoves, ClaimTypes
         DEF ResolveSegmentRanges, TypeInv, ruleVars
  <1>6. CASE Answer(r)
    BY <1>6, IdleFits, RequestMoves DEF Answer, BuildCastManifestUrl, TypeInv, rangeVars
  <1>7. CASE StoreAll(r)
    <2>1. task[r].set \in RangeSets /\ [task[r] EXCEPT !.pc = "stored"] \in Tasks
      BY <1>7 DEF StoreAll, TypeInv, Tasks, NoTask
    <2>2. task' \in [Requests -> Tasks]
      BY <1>7, <2>1 DEF StoreAll, TypeInv
    <2>3. rows' \in [FormatIds -> Ranges \cup {Nothing}]
      BY <1>7, <2>1, RangeSetsType DEF StoreAll, TypeInv
    <2> QED
      BY <1>7, <2>1, <2>2, <2>3 DEF StoreAll, TypeInv, ruleVars
  <1>8. CASE CommitMemo(r) \/ AbortMemo(r)
    <2>1. task[r].set \in RangeSets
      BY <1>8 DEF CommitMemo, AbortMemo, TypeInv, Tasks, NoTask
    <2>2. task' \in [Requests -> Tasks]
      BY <1>8 DEF CommitMemo, AbortMemo, TypeInv, Tasks
    <2>3. memo' = Nothing \/ memo' \in Entries
      BY <1>8, <2>1 DEF CommitMemo, AbortMemo, TypeInv, Entries
    <2> QED
      BY <1>8, <2>2, <2>3 DEF CommitMemo, AbortMemo, TypeInv, ruleVars
  <1> QED
    BY <1>1, <1>2, <1>3, <1>4, <1>5, <1>6, <1>7, <1>8 DEF Step

LEMMA NextTypes == TypeInv /\ [Next]_vars => TypeInv'
  <1> SUFFICES ASSUME TypeInv, [Next]_vars PROVE TypeInv'
    OBVIOUS
  <1>1. CASE MemoOverflows
    BY <1>1, BoundsAssumption DEF MemoOverflows, TypeInv, ruleVars
  <1>2. CASE Reextract
    BY <1>2, LaterAssumption, BoundsAssumption DEF Reextract, TypeInv, rangeVars, ruleVars
  <1>3. CASE TokenExpires
    BY <1>3 DEF TokenExpires, TypeInv, rangeVars
  <1>4. CASE ParentChanges
    <2>1. allowed' \in BOOLEAN /\ castable' \in BOOLEAN
      BY <1>4 DEF ParentChanges, TypeInv
    <2>2. changes' \in 0 .. Changes
      <3>1. changes \in 0 .. Changes /\ changes < Changes /\ changes' = changes + 1
        BY <1>4, Zenon DEF ParentChanges, TypeInv
      <3> QED
        BY <3>1, BoundsAssumption
    <2>3. ASSUME NEW r \in Requests
          PROVE  Fits(request'[r])
      BY <1>4, <2>1, IdleFits, RequestFits DEF ParentChanges, Fits, RequestType
    <2>4. request' \in [Requests -> RequestType]
      BY <1>4, <2>3 DEF ParentChanges, Fits
    <2> QED
      BY <1>4, <2>1, <2>2, <2>3, <2>4 DEF ParentChanges, TypeInv, rangeVars, Fits
  <1>5. CASE UNCHANGED vars
    BY <1>5 DEF vars, TypeInv, rangeVars, ruleVars
  <1> QED
    BY <1>1, <1>2, <1>3, <1>4, <1>5, StepTypes DEF Next

LEMMA TypesHold == Spec => []TypeInv
  BY InitTypes, NextTypes, PTL DEF Spec

\* The variables have their types; a request holds an extraction exactly
\* while it works on it.
THEOREM PlaybackTypeCorrect == Spec => []TypeOK
  <1>1. TypeInv => TypeOK
    BY DEF TypeInv, TypeOK, RequestType
  <1> QED
    BY <1>1, TypesHold, PTL

-----------------------------------------------------------------------------
(* The memo.                                                               *)

\* An entry, in flight or persisted, is no missing one.
LEMMA EntryFields ==
  ASSUME NEW set \in RangeSets
  PROVE  /\ InFlight(set) # Nothing /\ [state |-> "persisted", set |-> set] # Nothing
         /\ InFlight(set).state = "inflight" /\ InFlight(set).set = set
  BY NothingAssumption DEF InFlight, Entries

LEMMA WorkerHasSet ==
  ASSUME TypeInv, NEW r \in Requests
  PROVE  /\ task[r] \in Tasks
         /\ Works(r) <=> task[r] # NoTask
         /\ Works(r) => task[r].set \in RangeSets
  <1>1. task[r] \in Tasks
    BY DEF TypeInv
  <1> QED
    BY <1>1 DEF Works, Tasks, NoTask

LEMMA InitMemo == Init => MemoInv
  BY DEF Init, MemoInv, NoTask, Works

\* BeginPersist: the task that begins has the entry, and notes if it is not
\* alone.
LEMMA ClaimKeepsMemo ==
  ASSUME TypeInv, MemoInv, NEW r \in Requests, NEW set \in RangeSets, task[r] = NoTask,
         BeginPersist(r, set), UNCHANGED <<rows, stored>>
  PROVE  MemoInv'
  <1>1. CASE DOMAIN set # {} /\ Claims(set)
    <2>1. /\ memo' = InFlight(set)
          /\ task' = [task EXCEPT ![r] = [pc |-> "writing", set |-> set]]
          /\ overlap' = \E q \in Requests : task[q] # NoTask
      BY <1>1 DEF BeginPersist, InFlight
    <2>2. /\ memo' # Nothing /\ memo'.state = "inflight" /\ memo'.set = set
      BY <2>1, EntryFields
    <2>3. /\ task'[r].pc = "writing" /\ task'[r].set = set
          /\ \A q \in Requests \ {r} : task'[q] = task[q]
      BY <2>1 DEF TypeInv
    <2>4. \A q \in Requests : task'[q].pc = "stored" => task'[q].set \in stored'
      BY <2>3 DEF MemoInv
    <2>5. ASSUME ~overlap'
          PROVE  \A q \in Requests : Works(q)' => q = r
      <3>1. \A q \in Requests : task[q] = NoTask
        BY <2>1, <2>5
      <3> QED
        BY <2>3, <3>1 DEF Works, NoTask
    <2>6. Works(r)'
      BY <2>3 DEF Works
    <2>7. ~overlap' =>
            /\ \A p, q \in Requests : (Works(p) /\ Works(q))' => p = q
            /\ \A q \in Requests :
                  /\ task'[q].pc = "writing" => memo' \in {Nothing, InFlight(task'[q].set)}
                  /\ task'[q].pc = "stored" =>
                        \A i \in DOMAIN task'[q].set : rows'[i] = task'[q].set[i]
      BY <2>1, <2>3, <2>5 DEF Works
    <2> QED
      BY <2>2, <2>3, <2>4, <2>6, <2>7 DEF MemoInv, InFlight
  <1>2. CASE ~(DOMAIN set # {} /\ Claims(set))
    <2>1. UNCHANGED <<memo, task, overlap>>
      BY <1>2 DEF BeginPersist
    <2> QED
      BY <2>1 DEF MemoInv, Works
  <1> QED
    BY <1>1, <1>2

LEMMA StoreKeepsMemo ==
  ASSUME TypeInv, MemoInv, NEW r \in Requests, StoreAll(r)
  PROVE  MemoInv'
  <1>1. /\ Works(r) /\ task[r].pc = "writing" /\ task[r].set \in RangeSets
        /\ DOMAIN task[r].set \subseteq FormatIds
    BY WorkerHasSet, RangeSetsType DEF StoreAll, Works
  <1>2. /\ task'[r].pc = "stored" /\ task'[r].set = task[r].set
        /\ \A q \in Requests \ {r} : task'[q] = task[q]
    BY WorkerHasSet, <1>1 DEF StoreAll, TypeInv, Tasks, NoTask
  <1>3. \A q \in Requests : Works(q)' <=> Works(q)
    BY <1>1, <1>2 DEF Works
  <1>4. /\ memo' = memo /\ overlap' = overlap /\ stored' = stored \cup {task[r].set}
        /\ \A i \in DOMAIN task[r].set : rows'[i] = task[r].set[i]
    BY <1>1 DEF StoreAll
  <1>5. \A q \in Requests : task'[q].pc = "stored" => task'[q].set \in stored'
    BY <1>2, <1>4 DEF MemoInv
  <1>6. memo' # Nothing =>
          /\ memo'.state = "inflight" => \E q \in Requests : Works(q)' /\ task'[q].set = memo'.set
          /\ memo'.state = "persisted" => memo'.set \in stored'
    BY <1>2, <1>3, <1>4 DEF MemoInv
  <1>7. ASSUME ~overlap'
        PROVE  /\ \A p, q \in Requests : (Works(p) /\ Works(q))' => p = q
               /\ \A q \in Requests :
                     /\ task'[q].pc = "writing" => memo' \in {Nothing, InFlight(task'[q].set)}
                     /\ task'[q].pc = "stored" =>
                           \A i \in DOMAIN task'[q].set : rows'[i] = task'[q].set[i]
               /\ memo' # Nothing => memo'.state # "persisted"
    <2>1. \A p, q \in Requests : (Works(p) /\ Works(q))' => p = q
      BY <1>3, <1>4, <1>7 DEF MemoInv
    <2>2. \A q \in Requests : Works(q)' => q = r
      BY <1>1, <1>3, <2>1
    <2>3. memo \in {Nothing, InFlight(task[r].set)}
      BY <1>1, <1>4, <1>7 DEF MemoInv
    <2> QED
      BY <1>1, <1>2, <1>4, <2>1, <2>2, <2>3, EntryFields DEF Works
  <1> QED
    BY <1>5, <1>6, <1>7 DEF MemoInv

\* Committing and aborting alike end the task, and give up the entry if it is
\* in flight with the set of the task.
LEMMA EndKeepsMemo ==
  ASSUME TypeInv, MemoInv, NEW r \in Requests, CommitMemo(r) \/ AbortMemo(r)
  PROVE  MemoInv'
  <1>1. /\ Works(r) /\ task[r].set \in RangeSets
        /\ CommitMemo(r) => task[r].pc = "stored"
    BY WorkerHasSet DEF CommitMemo, AbortMemo, Works
  <1>2. /\ task'[r] = NoTask /\ \A q \in Requests \ {r} : task'[q] = task[q]
        /\ UNCHANGED <<rows, overlap, stored>>
    BY DEF CommitMemo, AbortMemo, TypeInv
  <1>3. /\ ~Works(r)' /\ \A q \in Requests \ {r} : Works(q)' <=> Works(q)
    BY <1>2 DEF Works, NoTask
  <1>4. \/ memo' = memo /\ memo # InFlight(task[r].set)
        \/ memo' = Nothing
        \/ CommitMemo(r) /\ memo' = [state |-> "persisted", set |-> task[r].set]
    BY DEF CommitMemo, AbortMemo
  <1>5. \A q \in Requests : task'[q].pc = "stored" => task'[q].set \in stored'
    BY <1>2 DEF MemoInv, NoTask
  <1>6. ~overlap' => \A p, q \in Requests : (Works(p) /\ Works(q))' => p = q
    BY <1>2, <1>3 DEF MemoInv
  <1>7. ~overlap' => \A q \in Requests : ~Works(q)'
    BY <1>1, <1>2, <1>3 DEF MemoInv
  <1>8. ~overlap' => \A q \in Requests : task'[q].pc \notin {"writing", "stored"}
    BY <1>7 DEF Works
  <1>9. memo' # Nothing =>
          /\ memo'.state = "inflight" => \E q \in Requests : Works(q)' /\ task'[q].set = memo'.set
          /\ memo'.state = "persisted" => memo'.set \in stored'
          /\ ~overlap' /\ memo'.state = "persisted" =>
                \A i \in DOMAIN memo'.set : rows'[i] = memo'.set[i]
    <2>1. CASE memo' = memo /\ memo # InFlight(task[r].set) /\ memo # Nothing
      <3>1. memo \in Entries
        BY <2>1 DEF TypeInv
      <3>2. memo.state = "inflight" => memo = InFlight(memo.set)
        BY <3>1 DEF Entries, InFlight
      <3>3. ASSUME memo.state = "inflight"
            PROVE  \E q \in Requests : Works(q)' /\ task'[q].set = memo.set
        <4>1. PICK q \in Requests : Works(q) /\ task[q].set = memo.set
          BY <2>1, <3>3 DEF MemoInv
        <4>2. q # r
          BY <2>1, <3>2, <3>3, <4>1
        <4> QED
          BY <1>2, <1>3, <4>1, <4>2
      <3> QED
        BY <1>2, <2>1, <3>3 DEF MemoInv
    <2>2. CASE CommitMemo(r) /\ memo' = [state |-> "persisted", set |-> task[r].set]
      <3>1. task[r].pc = "stored" /\ task[r].set \in stored
        BY <1>1, <2>2 DEF MemoInv
      <3>2. memo'.state = "persisted" /\ memo'.set = task[r].set
        BY <2>2
      <3>3. ~overlap' => \A i \in DOMAIN task[r].set : rows'[i] = task[r].set[i]
        BY <1>2, <3>1 DEF MemoInv
      <3> QED
        BY <1>2, <3>1, <3>2, <3>3
    <2> QED
      BY <1>4, <2>1, <2>2
  <1> QED
    BY <1>5, <1>6, <1>8, <1>9 DEF MemoInv

LEMMA NextSlots == TypeInv /\ SlotInv /\ [Next]_vars => SlotInv'
  <1> SUFFICES ASSUME TypeInv, SlotInv, [Next]_vars, NEW r \in Requests,
                      request'[r].pc \notin {"idle", "answer"}
               PROVE  task'[r] = NoTask
    BY DEF SlotInv
  <1>1. request' = request => task[r] = NoTask
    BY DEF SlotInv
  <1>2. ASSUME NEW q \in Requests, Step(q)
        PROVE  task'[r] = NoTask
    <2>1. ASSUME NEW kind \in Kinds, Start(q, kind)
          PROVE  task'[r] = NoTask
      BY <2>1 DEF Start, SlotInv, TypeInv, rangeVars
    <2>2. CASE GetOrExtract(q)
      BY <2>2 DEF GetOrExtract, SlotInv, TypeInv, rangeVars
    <2>3. CASE CheckCast(q)
      BY <2>3 DEF CheckCast, SlotInv, TypeInv, rangeVars
    <2>4. CASE EnforceAccess(q)
      BY <2>4 DEF EnforceAccess, SlotInv, TypeInv, rangeVars
    <2>5. CASE ResolveSegmentRanges(q)
      <3>1. q # r
        BY <2>5, RequestFits DEF ResolveSegmentRanges, TypeInv, RequestType
      <3>2. request'[r] = request[r] /\ task'[r] = task[r]
        BY <2>5, <3>1 DEF ResolveSegmentRanges, BeginPersist, TypeInv
      <3> QED
        BY <3>2 DEF SlotInv
    <2>6. CASE Answer(q)
      <3>1. request'[r] = IF q = r THEN Idle ELSE request[r]
        BY <2>6 DEF Answer, TypeInv
      <3>2. q # r
        BY <3>1 DEF Idle
      <3> QED
        BY <2>6, <3>1, <3>2 DEF Answer, SlotInv, rangeVars
    <2>7. CASE StoreAll(q) \/ CommitMemo(q) \/ AbortMemo(q)
      <3>1. task[q] # NoTask /\ UNCHANGED request
        BY <2>7 DEF StoreAll, CommitMemo, AbortMemo, NoTask
      <3>2. q # r /\ task[r] = NoTask
        BY <1>1, <3>1
      <3> QED
        BY <2>7, <3>2 DEF StoreAll, CommitMemo, AbortMemo, TypeInv
    <2> QED
      BY <1>2, <2>1, <2>2, <2>3, <2>4, <2>5, <2>6, <2>7 DEF Step
  <1>3. CASE ParentChanges
    <2>1. request[r].pc = "idle" => request'[r].pc = "idle"
      BY <1>3 DEF ParentChanges, Idle
    <2>2. request[r].pc # "idle" => request'[r].pc = request[r].pc
      BY <1>3, RequestFits DEF ParentChanges, RequestType
    <2> QED
      BY <1>3, <2>1, <2>2 DEF ParentChanges, SlotInv, rangeVars
  <1>4. CASE MemoOverflows \/ Reextract \/ TokenExpires \/ UNCHANGED vars
    BY <1>1, <1>4 DEF MemoOverflows, Reextract, TokenExpires, vars, rangeVars
  <1> QED
    BY <1>2, <1>3, <1>4 DEF Next

LEMMA NextMemo == TypeInv /\ SlotInv /\ MemoInv /\ [Next]_vars => MemoInv'
  <1> SUFFICES ASSUME TypeInv, SlotInv, MemoInv, [Next]_vars PROVE MemoInv'
    OBVIOUS
  <1>1. CASE UNCHANGED rangeVars
    BY <1>1 DEF MemoInv, rangeVars, Works
  <1>2. CASE MemoOverflows
    BY <1>2 DEF MemoOverflows, MemoInv, Works
  <1>3. ASSUME NEW r \in Requests, ResolveSegmentRanges(r)
        PROVE  MemoInv'
    <2>1. OwnRanges(request[r].x) \in RangeSets
      BY <1>3, RequestFits, OwnRangesType DEF Fits, RequestType, ResolveSegmentRanges
    <2> QED
      BY <1>3, <2>1, ClaimKeepsMemo DEF ResolveSegmentRanges, SlotInv
  <1>4. ASSUME NEW r \in Requests, StoreAll(r) \/ CommitMemo(r) \/ AbortMemo(r)
        PROVE  MemoInv'
    BY <1>4, StoreKeepsMemo, EndKeepsMemo
  <1>5. ASSUME NEW r \in Requests, Step(r)
        PROVE  \/ UNCHANGED rangeVars
               \/ ResolveSegmentRanges(r) \/ StoreAll(r) \/ CommitMemo(r) \/ AbortMemo(r)
    BY <1>5 DEF Step, Start, GetOrExtract, CheckCast, EnforceAccess, Answer
  <1>6. Reextract \/ TokenExpires \/ ParentChanges \/ UNCHANGED vars => UNCHANGED rangeVars
    BY DEF Reextract, TokenExpires, ParentChanges, vars
  <1> QED
    BY <1>1, <1>2, <1>3, <1>4, <1>5, <1>6 DEF Next

LEMMA MemoHolds == Spec => [](TypeInv /\ MemoInv)
  <1>1. Init => SlotInv
    BY DEF Init, SlotInv, Idle
  <1> QED
    BY <1>1, InitTypes, NextTypes, InitMemo, NextSlots, NextMemo, PTL DEF Spec

\* What the memo suppresses is in the database, or being written, whichever
\* tasks fail or end in whatever order and whenever the memo overflows
\* (services/segment_ranges.rs: RangePersistMemo).
THEOREM MemoKeepsItsWord == Spec => []MemoIsHonest
  <1>1. MemoInv => MemoIsHonest
    BY DEF MemoInv, MemoIsHonest
  <1> QED
    BY <1>1, MemoHolds, PTL

-----------------------------------------------------------------------------
(* Permissions.                                                            *)

\* What RuleInv says of one request.
Permitted(rec) ==
    /\ rec.pc # "idle" => (allowed => rec.mayView) /\ (castable => rec.mayCast)
    /\ rec.pc \in {"access", "resolve", "answer"} /\ rec.kind = "cast" => rec.mayCast
    /\ rec.pc \in {"resolve", "answer"} => rec.mayView

LEMMA MovePermitted ==
  ASSUME TypeInv, RuleInv, NEW r \in Requests, NEW next, Permitted(next),
         request' = [request EXCEPT ![r] = next], UNCHANGED <<allowed, castable>>
  PROVE  RuleInv'
  <1>1. \A q \in Requests : request'[q] = IF q = r THEN next ELSE request[q]
    BY DEF TypeInv
  <1> QED
    BY <1>1 DEF RuleInv, Permitted

LEMMA NextRules == TypeInv /\ RuleInv /\ [Next]_vars => RuleInv'
  <1> SUFFICES ASSUME TypeInv, RuleInv, [Next]_vars PROVE RuleInv'
    OBVIOUS
  <1>1. CASE UNCHANGED <<allowed, castable, request>>
    BY <1>1 DEF RuleInv
  <1>2. ASSUME NEW r \in Requests, Step(r)
        PROVE  RuleInv'
    <2>1. request[r] \in RequestType /\ Permitted(request[r])
      BY RequestFits DEF RuleInv, Permitted
    <2>2. Permitted(Idle)
      BY DEF Permitted, Idle
    <2>3. ASSUME NEW kind \in Kinds, Start(r, kind)
          PROVE  RuleInv'
      <3> DEFINE next == [Idle EXCEPT !.pc = "extract", !.kind = kind,
                                      !.mayView = allowed, !.mayCast = castable]
      <3>1. Permitted(next)
        BY DEF Permitted, Idle
      <3> QED
        BY <2>3, <3>1, MovePermitted DEF Start, ruleVars
    <2>4. CASE GetOrExtract(r)
      <3> DEFINE next == [request[r] EXCEPT !.x = cached,
                             !.pc = IF request[r].kind = "cast" THEN "cast" ELSE "access"]
      <3>1. Permitted(next)
        BY <2>1, <2>4 DEF GetOrExtract, Permitted, RequestType
      <3>2. request' = [request EXCEPT ![r] = next]
        BY <2>1, <2>4 DEF GetOrExtract, RequestType
      <3> QED
        BY <2>4, <3>1, <3>2, MovePermitted DEF GetOrExtract, ruleVars
    <2>5. CASE CheckCast(r)
      <3> DEFINE next == IF castable THEN [request[r] EXCEPT !.pc = "access"] ELSE Idle
      <3>1. Permitted(next)
        BY <2>1, <2>2, <2>5 DEF CheckCast, Permitted, RequestType
      <3>2. request' = [request EXCEPT ![r] = next]
        BY <2>5 DEF CheckCast
      <3> QED
        BY <2>5, <3>1, <3>2, MovePermitted DEF CheckCast, ruleVars
    <2>6. CASE EnforceAccess(r)
      <3> DEFINE next == IF allowed THEN [request[r] EXCEPT !.pc = "resolve"] ELSE Idle
      <3>1. Permitted(next)
        BY <2>1, <2>2, <2>6 DEF EnforceAccess, Permitted, RequestType
      <3>2. request' = [request EXCEPT ![r] = next]
        BY <2>6 DEF EnforceAccess
      <3> QED
        BY <2>6, <3>1, <3>2, MovePermitted DEF EnforceAccess, ruleVars
    <2>7. CASE ResolveSegmentRanges(r)
      <3> DEFINE resolved == ResolvedRanges(request[r].x, rows)
                 next == [request[r] EXCEPT !.ranges = resolved, !.pc = "answer"]
      <3>1. Permitted(next)
        BY <2>1, <2>7 DEF ResolveSegmentRanges, Permitted, RequestType
      <3>2. request' = [request EXCEPT ![r] = next]
        BY <2>1, <2>7 DEF ResolveSegmentRanges, RequestType
      <3> QED
        BY <2>7, <3>1, <3>2, MovePermitted DEF ResolveSegmentRanges, ruleVars
    <2>8. CASE Answer(r)
      BY <2>2, <2>8, MovePermitted DEF Answer
    <2>9. CASE StoreAll(r) \/ CommitMemo(r) \/ AbortMemo(r)
      BY <1>1, <2>9 DEF StoreAll, CommitMemo, AbortMemo, ruleVars
    <2> QED
      BY <1>2, <2>3, <2>4, <2>5, <2>6, <2>7, <2>8, <2>9 DEF Step
  <1>3. CASE ParentChanges
    <2>1. ASSUME NEW r \in Requests
          PROVE  Permitted(request[r])'
      <3>1. CASE request[r].pc = "idle"
        BY <1>3, <3>1 DEF ParentChanges, Permitted, Idle
      <3>2. CASE request[r].pc # "idle"
        <4>1. /\ request'[r].pc = request[r].pc /\ request'[r].kind = request[r].kind
              /\ request'[r].mayView = (request[r].mayView \/ allowed')
              /\ request'[r].mayCast = (request[r].mayCast \/ castable')
          BY <1>3, <3>2, RequestFits DEF ParentChanges, RequestType
        <4>2. Permitted(request[r])
          BY DEF RuleInv, Permitted
        <4> QED
          BY <4>1, <4>2 DEF Permitted
      <3> QED
        BY <3>1, <3>2
    <2> QED
      BY <2>1 DEF RuleInv, Permitted
  <1>4. CASE MemoOverflows \/ Reextract \/ TokenExpires \/ UNCHANGED vars
    BY <1>1, <1>4 DEF MemoOverflows, Reextract, TokenExpires, vars, ruleVars
  <1> QED
    BY <1>2, <1>3, <1>4 DEF Next

\* No manifest for a request that began after the permission to watch or to
\* cast was withdrawn, and saw no new grant, however long ago its token was
\* minted (routes/videos.rs: get_stream_manifest).
THEOREM WithdrawalEndsTheCast == Spec => []RevokedStaysRevoked
  <1>1. Init => RuleInv
    BY DEF Init, RuleInv, Idle
  <1>2. RuleInv => RevokedStaysRevoked
    BY DEF RuleInv, RevokedStaysRevoked
  <1> QED
    BY <1>1, <1>2, InitTypes, NextTypes, NextRules, PTL DEF Spec

-----------------------------------------------------------------------------
(* Induction over a set of numbers, and functions built number by number.  *)

\* A set of numbers has a least.
LEMMA Least ==
  ASSUME NEW T \in SUBSET Nat, T # {}
  PROVE  \E x \in T : \A y \in T : x <= y
  <1> DEFINE R == OpToRel(<, Nat)
  <1>1. \E x \in T : \A y \in T : ~(<<y, x>> \in R)
    <2>1. IsWellFoundedOn(R, Nat)
      BY NatLessThanWellFounded
    <2> HIDE DEF R
    <2> QED
      BY <2>1, WFMin
  <1>2. \A x, y \in Nat : y < x => <<y, x>> \in R
    BY DEF OpToRel
  <1> HIDE DEF R
  <1>3. \A x, y \in Nat : ~(<<y, x>> \in R) => x <= y
    BY <1>2
  <1> QED
    BY <1>1, <1>3

\* A set that has 0, and with a number the next, has all of them.
LEMMA NatSetInduction ==
  ASSUME NEW S, 0 \in S, \A n \in Nat : n \in S => n + 1 \in S
  PROVE  Nat \subseteq S
  <1> SUFFICES ASSUME Nat \ S # {} PROVE FALSE
    OBVIOUS
  <1>1. PICK x \in Nat \ S : \A y \in Nat \ S : x <= y
    BY Least
  <1>2. x # 0 /\ x - 1 \in Nat /\ x - 1 \notin Nat \ S
    BY <1>1
  <1> QED
    BY <1>1, <1>2

\* f applies one step after another to base.
Runs(f, base, step, m) ==
    f = [n \in 0 .. m |-> IF n = 0 THEN base ELSE step[n][f[n - 1]]]

\* There is such a function: it is built number by number.
LEMMA RunsExist ==
  ASSUME NEW D, NEW base \in D, NEW k \in Nat, NEW step \in [1 .. k -> [D -> D]]
  PROVE  \E f : f \in [0 .. k -> D] /\ Runs(f, base, step, k)
  <1> DEFINE S == {m \in Nat : m <= k => \E f : f \in [0 .. m -> D] /\ Runs(f, base, step, m)}
  <1>1. 0 \in S
    <2> DEFINE f == [n \in 0 .. 0 |-> base]
    <2>1. f \in [0 .. 0 -> D] /\ f = [n \in 0 .. 0 |-> IF n = 0 THEN base ELSE step[n][f[n - 1]]]
      OBVIOUS
    <2> QED
      BY <2>1 DEF Runs
  <1>2. ASSUME NEW m \in Nat, m \in S PROVE m + 1 \in S
    <2> SUFFICES ASSUME m + 1 <= k
                 PROVE  \E g : g \in [0 .. m + 1 -> D] /\ Runs(g, base, step, m + 1)
      OBVIOUS
    <2>1. PICK f : f \in [0 .. m -> D] /\ Runs(f, base, step, m)
      BY <1>2
    <2>2. step[m + 1][f[m]] \in D
      <3>1. f[m] \in D /\ step[m + 1] \in [D -> D]
        BY <2>1
      <3> QED
        BY <3>1
    <2> DEFINE new == step[m + 1][f[m]]
               g == [n \in 0 .. m + 1 |-> IF n = m + 1 THEN new ELSE f[n]]
    <2>3. g \in [0 .. m + 1 -> D]
      <3> HIDE DEF new
      <3>1. new \in D
        BY <2>2 DEF new
      <3> QED
        BY <2>1, <3>1
    <2>4. \A n \in 0 .. m : f[n] = IF n = 0 THEN base ELSE step[n][f[n - 1]]
      BY <2>1 DEF Runs
    <2>5. ASSUME NEW n \in 0 .. m + 1 PROVE g[n] = IF n = 0 THEN base ELSE step[n][g[n - 1]]
      <3>1. CASE n = m + 1
        <4>1. g[n] = step[m + 1][f[m]] /\ n # 0
          BY <3>1
        <4>2. g[n - 1] = f[m]
          BY <3>1
        <4> QED
          BY <3>1, <4>1, <4>2
      <3>2. CASE n \in 0 .. m
        <4>1. g[n] = f[n] /\ (n # 0 => g[n - 1] = f[n - 1])
          BY <3>2
        <4> QED
          BY <3>2, <4>1, <2>4
      <3> QED
        BY <3>1, <3>2
    <2>6. g = [n \in 0 .. m + 1 |-> IF n = 0 THEN base ELSE step[n][g[n - 1]]]
      <3>1. g = [n \in 0 .. m + 1 |-> g[n]]
        OBVIOUS
      <3> HIDE DEF g
      <3> QED
        BY <2>5, <3>1
    <2> HIDE DEF g
    <2> QED
      BY <2>3, <2>6 DEF Runs
  <1>3. Nat \subseteq S
    <2> HIDE DEF S
    <2> QED
      BY <1>1, <1>2, NatSetInduction
  <1> QED
    BY <1>3

LEMMA RunsUnfold ==
  ASSUME NEW k \in Nat, NEW base, NEW step, NEW f, Runs(f, base, step, k)
  PROVE  f[0] = base /\ \A n \in 1 .. k : f[n] = step[n][f[n - 1]]
  BY DEF Runs

-----------------------------------------------------------------------------
(* The manifest: filter, dedupe and trim lose no height and no language.   *)

LEMMA ToSetAppend ==
  ASSUME NEW T, NEW s \in Seq(T), NEW t \in T
  PROVE  ToSet(Append(s, t)) = ToSet(s) \cup {t}
  <1> DEFINE u == Append(s, t)
             k == Len(s)
  <1>1. k \in Nat /\ DOMAIN s = 1 .. k /\ DOMAIN u = 1 .. k + 1
    OBVIOUS
  <1>2. u[k + 1] = t /\ \A i \in 1 .. k : u[i] = s[i]
    OBVIOUS
  <1>3. 1 .. k + 1 = (1 .. k) \cup {k + 1}
    BY <1>1
  <1> HIDE DEF u, k
  <1>4. ToSet(u) = {u[i] : i \in 1 .. k} \cup {t}
    BY <1>1, <1>2, <1>3 DEF ToSet
  <1>5. {u[i] : i \in 1 .. k} = {s[i] : i \in 1 .. k}
    BY <1>2
  <1> QED
    BY <1>1, <1>4, <1>5 DEF ToSet, u

\* f collects the elements of s that are in S.
Collects(f, s, S) ==
    f = [n \in 0 .. Len(s) |->
           IF n = 0 THEN <<>>
           ELSE IF s[n] \in S THEN Append(f[n - 1], s[n]) ELSE f[n - 1]]

LEMMA CollectsUnfold ==
  ASSUME NEW s, NEW S, NEW f, Len(s) \in Nat, Collects(f, s, S)
  PROVE  /\ f[0] = <<>>
         /\ \A n \in 1 .. Len(s) : f[n] = IF s[n] \in S THEN Append(f[n - 1], s[n]) ELSE f[n - 1]
  <1> DEFINE k == Len(s)
             New(n) == IF s[n] \in S THEN Append(f[n - 1], s[n]) ELSE f[n - 1]
  <1>1. f = [n \in 0 .. k |-> IF n = 0 THEN <<>> ELSE New(n)]
    BY DEF Collects
  <1> HIDE DEF k, New
  <1>2. f[0] = <<>> /\ \A n \in 1 .. k : f[n] = New(n)
    BY <1>1 DEF k
  <1> QED
    BY <1>2 DEF k, New

\* Keeping loses none of S and takes nothing else.
LEMMA KeepingKeeps ==
  ASSUME NEW T, NEW s \in Seq(T), NEW S
  PROVE  /\ Keeping(s, S) \in Seq(T)
         /\ ToSet(Keeping(s, S)) = ToSet(s) \cap S
  <1> DEFINE k == Len(s)
             step == [n \in 1 .. k |-> [kept \in Seq(T) |->
                         IF s[n] \in S THEN Append(kept, s[n]) ELSE kept]]
             upTo == CHOOSE f : Collects(f, s, S)
  <1>1. k \in Nat /\ \A n \in 1 .. k : s[n] \in T
    OBVIOUS
  <1>2. step \in [1 .. k -> [Seq(T) -> Seq(T)]]
    BY <1>1
  <1>3. PICK f : f \in [0 .. k -> Seq(T)] /\ Runs(f, <<>>, step, k)
    <2>1. <<>> \in Seq(T)
      OBVIOUS
    <2> HIDE DEF step, k
    <2> QED
      BY <1>1, <1>2, <2>1, RunsExist
  <1>4. f[0] = <<>> /\ \A n \in 1 .. k : f[n] = step[n][f[n - 1]]
    <2>1. Runs(f, <<>>, step, k)
      BY <1>3
    <2> HIDE DEF step, k
    <2> QED
      BY <1>1, <2>1, RunsUnfold
  <1>5. \A n \in 1 .. k : f[n] = IF s[n] \in S THEN Append(f[n - 1], s[n]) ELSE f[n - 1]
    <2> TAKE n \in 1 .. k
    <2>1. f[n - 1] \in Seq(T)
      BY <1>1, <1>3
    <2>2. f[n] = step[n][f[n - 1]]
      BY <1>4
    <2> QED
      BY <2>1, <2>2
  <1>6. Collects(f, s, S)
    <2>1. f = [n \in 0 .. k |-> f[n]]
      BY <1>3
    <2>2. \A n \in 0 .. k : f[n] = IF n = 0 THEN <<>>
                                   ELSE IF s[n] \in S THEN Append(f[n - 1], s[n]) ELSE f[n - 1]
      BY <1>1, <1>4, <1>5
    <2> HIDE DEF step
    <2> QED
      BY <2>1, <2>2 DEF Collects
  <1>7. Keeping(s, S) = upTo[k]
    BY DEF Keeping, Collects
  <1>8. Collects(upTo, s, S)
    BY <1>6
  <1>9. /\ upTo[0] = <<>>
        /\ \A n \in 1 .. k : upTo[n] = IF s[n] \in S THEN Append(upTo[n - 1], s[n]) ELSE upTo[n - 1]
    <2> HIDE DEF upTo
    <2> QED
      BY <1>1, <1>8, CollectsUnfold
  <1> HIDE DEF upTo, step
  <1> DEFINE I == {n \in Nat : n <= k => /\ upTo[n] \in Seq(T)
                                         /\ ToSet(upTo[n]) = {s[i] : i \in 1 .. n} \cap S}
  <1>10. 0 \in I
    <2>1. ToSet(<<>>) = {} /\ <<>> \in Seq(T)
      BY DEF ToSet
    <2>2. 1 .. 0 = {}
      OBVIOUS
    <2>3. {s[i] : i \in 1 .. 0} = {}
      BY <2>2
    <2> QED
      BY <1>1, <1>9, <2>1, <2>3
  <1>11. ASSUME NEW n \in Nat, n \in I PROVE n + 1 \in I
    <2> SUFFICES ASSUME n + 1 <= k
                 PROVE  /\ upTo[n + 1] \in Seq(T)
                        /\ ToSet(upTo[n + 1]) = {s[i] : i \in 1 .. n + 1} \cap S
      OBVIOUS
    <2>1. upTo[n] \in Seq(T) /\ ToSet(upTo[n]) = {s[i] : i \in 1 .. n} \cap S
      BY <1>1, <1>11
    <2>2. upTo[n + 1] = IF s[n + 1] \in S THEN Append(upTo[n], s[n + 1]) ELSE upTo[n]
      BY <1>1, <1>9
    <2>3. {s[i] : i \in 1 .. n + 1} = {s[i] : i \in 1 .. n} \cup {s[n + 1]}
      OBVIOUS
    <2>4. s[n + 1] \in T
      BY <1>1
    <2>5. CASE s[n + 1] \in S
      <3>1. upTo[n + 1] \in Seq(T)
        BY <2>1, <2>2, <2>4, <2>5
      <3>2. ToSet(upTo[n + 1]) = ToSet(upTo[n]) \cup {s[n + 1]}
        BY <2>1, <2>2, <2>4, <2>5, ToSetAppend
      <3> QED
        BY <2>1, <2>3, <2>5, <3>1, <3>2
    <2>6. CASE s[n + 1] \notin S
      BY <2>1, <2>2, <2>3, <2>6
    <2> QED
      BY <2>5, <2>6
  <1>12. k \in I
    <2> HIDE DEF I, k
    <2> QED
      BY <1>1, <1>10, <1>11, NatSetInduction
  <1>13. ToSet(s) = {s[i] : i \in 1 .. k}
    BY DEF ToSet
  <1> QED
    BY <1>1, <1>7, <1>12, <1>13

\* h is offered for g: the same media, and with ranges if g has.
Serves(h, g, ranged) == MediaKey(h) = MediaKey(g) /\ (g.id \in ranged => h.id \in ranged)

LEMMA TakeServes ==
  ASSUME NEW T, NEW kept \in Seq(T), NEW f \in T, NEW ranged
  PROVE  /\ Take(kept, f, ranged) \in Seq(T)
         /\ \A g \in ToSet(kept) \cup {f} : \E h \in ToSet(Take(kept, f, ranged)) :
               Serves(h, g, ranged)
  <1> DEFINE same == {i \in DOMAIN kept : MediaKey(kept[i]) = MediaKey(f)}
             Pick(i) == IF i \in same /\ f.id \in ranged /\ kept[i].id \notin ranged
                        THEN f ELSE kept[i]
  <1>1. CASE same = {}
    <2>1. Take(kept, f, ranged) = Append(kept, f)
      BY <1>1 DEF Take
    <2>2. ToSet(Append(kept, f)) = ToSet(kept) \cup {f}
      BY ToSetAppend
    <2>3. Append(kept, f) \in Seq(T)
      OBVIOUS
    <2> QED
      BY <2>1, <2>2, <2>3 DEF Serves
  <1>2. CASE same # {}
    <2>1. Take(kept, f, ranged) = [i \in DOMAIN kept |-> Pick(i)]
      BY <1>2 DEF Take
    <2>2. DOMAIN kept = 1 .. Len(kept) /\ Len(kept) \in Nat /\ \A i \in DOMAIN kept : kept[i] \in T
      OBVIOUS
    <2>3. \A i \in DOMAIN kept : Pick(i) \in T
      BY <2>2
    <2>4. \A i \in DOMAIN kept : Serves(Pick(i), kept[i], ranged)
      BY DEF Serves
    <2>5. \E i \in DOMAIN kept : Serves(Pick(i), f, ranged)
      BY <1>2 DEF Serves
    <2> HIDE DEF Pick, same
    <2>6. Take(kept, f, ranged) \in Seq(T)
      BY <2>1, <2>2, <2>3
    <2>7. ToSet(Take(kept, f, ranged)) = {Pick(i) : i \in DOMAIN kept}
      BY <2>1, <2>2 DEF ToSet
    <2>8. ToSet(kept) = {kept[i] : i \in DOMAIN kept}
      BY DEF ToSet
    <2> QED
      BY <2>4, <2>5, <2>6, <2>7, <2>8
  <1> QED
    BY <1>1, <1>2

\* f takes one usable format after another.
Dedupes(f, usable, ranged) ==
    f = [n \in 0 .. Len(usable) |-> IF n = 0 THEN <<>> ELSE Take(f[n - 1], usable[n], ranged)]

LEMMA DedupesUnfold ==
  ASSUME NEW s, NEW ranged, NEW f, Len(s) \in Nat, Dedupes(f, s, ranged)
  PROVE  f[0] = <<>> /\ \A n \in 1 .. Len(s) : f[n] = Take(f[n - 1], s[n], ranged)
  BY DEF Dedupes

\* dedupe_prefer_with_ranges: each format is served by one that stays.
LEMMA DedupeServes ==
  ASSUME NEW T, NEW s \in Seq(T), NEW ranged
  PROVE  /\ DedupePreferWithRanges(s, ranged) \in Seq(T)
         /\ \A g \in ToSet(s) : \E h \in ToSet(DedupePreferWithRanges(s, ranged)) :
               Serves(h, g, ranged)
  <1> DEFINE k == Len(s)
             step == [n \in 1 .. k |-> [kept \in Seq(T) |-> Take(kept, s[n], ranged)]]
             upTo == CHOOSE f : Dedupes(f, s, ranged)
  <1>1. k \in Nat /\ \A n \in 1 .. k : s[n] \in T
    OBVIOUS
  <1>2. step \in [1 .. k -> [Seq(T) -> Seq(T)]]
    BY <1>1, TakeServes
  <1>3. PICK f : f \in [0 .. k -> Seq(T)] /\ Runs(f, <<>>, step, k)
    <2>1. <<>> \in Seq(T)
      OBVIOUS
    <2> HIDE DEF step, k
    <2> QED
      BY <1>1, <1>2, <2>1, RunsExist
  <1>4. f[0] = <<>> /\ \A n \in 1 .. k : f[n] = step[n][f[n - 1]]
    <2>1. Runs(f, <<>>, step, k)
      BY <1>3
    <2> HIDE DEF step, k
    <2> QED
      BY <1>1, <2>1, RunsUnfold
  <1>5. \A n \in 1 .. k : f[n] = Take(f[n - 1], s[n], ranged)
    <2> TAKE n \in 1 .. k
    <2>1. f[n - 1] \in Seq(T)
      BY <1>1, <1>3
    <2>2. f[n] = step[n][f[n - 1]]
      BY <1>4
    <2> QED
      BY <2>1, <2>2
  <1>6. Dedupes(f, s, ranged)
    <2>1. f = [n \in 0 .. k |-> f[n]]
      BY <1>3
    <2>2. \A n \in 0 .. k : f[n] = IF n = 0 THEN <<>> ELSE Take(f[n - 1], s[n], ranged)
      BY <1>1, <1>4, <1>5
    <2> HIDE DEF step
    <2> QED
      BY <2>1, <2>2 DEF Dedupes
  <1>7. DedupePreferWithRanges(s, ranged) = upTo[k]
    BY DEF DedupePreferWithRanges, Dedupes
  <1>8. Dedupes(upTo, s, ranged)
    BY <1>6
  <1>9. upTo[0] = <<>> /\ \A n \in 1 .. k : upTo[n] = Take(upTo[n - 1], s[n], ranged)
    <2> HIDE DEF upTo
    <2> QED
      BY <1>1, <1>8, DedupesUnfold
  <1> HIDE DEF upTo, step
  <1> DEFINE I == {n \in Nat : n <= k =>
                      /\ upTo[n] \in Seq(T)
                      /\ \A i \in 1 .. n : \E h \in ToSet(upTo[n]) : Serves(h, s[i], ranged)}
  <1>10. 0 \in I
    <2>1. <<>> \in Seq(T) /\ 1 .. 0 = {}
      OBVIOUS
    <2> QED
      BY <1>9, <2>1
  <1>11. ASSUME NEW n \in Nat, n \in I PROVE n + 1 \in I
    <2> SUFFICES ASSUME n + 1 <= k
                 PROVE  /\ upTo[n + 1] \in Seq(T)
                        /\ \A i \in 1 .. n + 1 : \E h \in ToSet(upTo[n + 1]) :
                              Serves(h, s[i], ranged)
      OBVIOUS
    <2>1. /\ upTo[n] \in Seq(T)
          /\ \A i \in 1 .. n : \E h \in ToSet(upTo[n]) : Serves(h, s[i], ranged)
      BY <1>1, <1>11
    <2>2. upTo[n + 1] = Take(upTo[n], s[n + 1], ranged) /\ s[n + 1] \in T
      BY <1>1, <1>9
    <2>3. /\ upTo[n + 1] \in Seq(T)
          /\ \A g \in ToSet(upTo[n]) \cup {s[n + 1]} : \E h \in ToSet(upTo[n + 1]) :
                Serves(h, g, ranged)
      BY <2>1, <2>2, TakeServes
    <2>4. ASSUME NEW i \in 1 .. n + 1 PROVE \E h \in ToSet(upTo[n + 1]) : Serves(h, s[i], ranged)
      <3>1. CASE i = n + 1
        BY <2>3, <3>1
      <3>2. CASE i \in 1 .. n
        <4>1. PICK g \in ToSet(upTo[n]) : Serves(g, s[i], ranged)
          BY <2>1, <3>2
        <4>2. PICK h \in ToSet(upTo[n + 1]) : Serves(h, g, ranged)
          BY <2>3
        <4>3. Serves(h, s[i], ranged)
          BY <4>1, <4>2 DEF Serves
        <4> QED
          BY <4>3
      <3> QED
        BY <3>1, <3>2
    <2> QED
      BY <2>3, <2>4
  <1>12. k \in I
    <2> HIDE DEF I, k
    <2> QED
      BY <1>1, <1>10, <1>11, NatSetInduction
  <1>13. ToSet(s) = {s[i] : i \in 1 .. k}
    BY DEF ToSet
  <1> QED
    BY <1>1, <1>7, <1>12, <1>13

\* trim_video_representations: one of each height, and no height is lost.
LEMMA TrimmedByHeight ==
  ASSUME NEW T, NEW s \in Seq(T)
  PROVE  /\ TrimVideoRepresentations(s) \subseteq ToSet(s)
         /\ \A f, g \in TrimVideoRepresentations(s) : f.height = g.height => f = g
         /\ \A f \in ToSet(s) : \E g \in TrimVideoRepresentations(s) : g.height = f.height
  <1> DEFINE First(k) == \A j \in 1 .. k - 1 : s[j].height # s[k].height
  <1>1. DOMAIN s = 1 .. Len(s) /\ Len(s) \in Nat
    OBVIOUS
  <1>2. TrimVideoRepresentations(s) = {s[i] : i \in {k \in DOMAIN s : First(k)}}
    BY DEF TrimVideoRepresentations
  <1>3. \A i, k \in DOMAIN s : First(i) /\ First(k) /\ s[i].height = s[k].height => i = k
    BY <1>1
  <1>4. ASSUME NEW i \in DOMAIN s PROVE \E k \in DOMAIN s : First(k) /\ s[k].height = s[i].height
    <2> DEFINE S == {j \in DOMAIN s : s[j].height = s[i].height}
    <2>1. S \in SUBSET Nat /\ S # {}
      BY <1>1
    <2>2. PICK k \in S : \A j \in S : k <= j
      <3> HIDE DEF S
      <3> QED
        BY <2>1, Least
    <2>3. First(k)
      BY <1>1, <2>2
    <2> QED
      BY <2>2, <2>3
  <1> HIDE DEF First
  <1>5. ToSet(s) = {s[i] : i \in DOMAIN s}
    BY DEF ToSet
  <1> QED
    BY <1>2, <1>3, <1>4, <1>5

\* trim_audio_representations: one of each language, the best of it, and no
\* language is lost.
LEMMA TrimmedByLanguage ==
  ASSUME NEW T, NEW s \in Seq(T), \A f \in T : f.rate \in Nat
  PROVE  /\ TrimAudioRepresentations(s) \subseteq ToSet(s)
         /\ \A f, g \in TrimAudioRepresentations(s) : f.lang = g.lang => f = g
         /\ \A f \in ToSet(s) : \E g \in TrimAudioRepresentations(s) : g.lang = f.lang
         /\ \A f \in TrimAudioRepresentations(s), g \in ToSet(s) :
               g.lang = f.lang => g.rate <= f.rate
  <1> DEFINE Beats(k, j) == s[j].rate < s[k].rate \/ (s[j].rate = s[k].rate /\ j >= k)
             Best(k, n) == \A j \in 1 .. n : s[j].lang = s[k].lang => Beats(k, j)
  <1>1. /\ DOMAIN s = 1 .. Len(s) /\ Len(s) \in Nat
        /\ \A i \in DOMAIN s : s[i].rate \in Nat
    OBVIOUS
  <1>2. TrimAudioRepresentations(s) = {s[i] : i \in {k \in DOMAIN s : Best(k, Len(s))}}
    BY <1>1 DEF TrimAudioRepresentations
  <1>3. \A i, k \in DOMAIN s : Best(i, Len(s)) /\ Best(k, Len(s)) /\ s[i].lang = s[k].lang => i = k
    BY <1>1
  <1>4. \A k, i \in DOMAIN s : Best(k, Len(s)) /\ s[i].lang = s[k].lang => s[i].rate <= s[k].rate
    BY <1>1
  <1>5. ASSUME NEW i \in DOMAIN s
        PROVE  \E k \in DOMAIN s : Best(k, Len(s)) /\ s[k].lang = s[i].lang
    <2> DEFINE Has(n) == \E k \in 1 .. n : Best(k, n) /\ s[k].lang = s[i].lang
               I == {n \in Nat : n <= Len(s) => Has(n) \/ \A j \in 1 .. n : s[j].lang # s[i].lang}
    <2>1. 0 \in I
      OBVIOUS
    <2>2. ASSUME NEW n \in Nat, n \in I PROVE n + 1 \in I
      <3> SUFFICES ASSUME n + 1 <= Len(s), ~(\A j \in 1 .. n + 1 : s[j].lang # s[i].lang)
                   PROVE  Has(n + 1)
        <4> HIDE DEF Has
        <4> QED
          OBVIOUS
      <3>1. n + 1 \in DOMAIN s /\ n + 1 \in 1 .. n + 1 /\ \A j \in 1 .. n : j \in 1 .. n + 1
        BY <1>1
      <3>2. CASE \A j \in 1 .. n : s[j].lang # s[i].lang
        <4>1. s[n + 1].lang = s[i].lang
          BY <3>2
        <4>2. Best(n + 1, n + 1)
          BY <1>1, <3>1, <3>2, <4>1
        <4> HIDE DEF Best
        <4> QED
          BY <3>1, <4>1, <4>2
      <3>3. CASE Has(n)
        <4>1. PICK k \in 1 .. n : Best(k, n) /\ s[k].lang = s[i].lang
          BY <3>3
        <4>2. k \in DOMAIN s /\ s[k].rate \in Nat /\ s[n + 1].rate \in Nat
          BY <1>1, <3>1, <4>1
        <4>3. CASE s[n + 1].lang = s[i].lang /\ s[n + 1].rate > s[k].rate
          <5>1. Best(n + 1, n + 1)
            <6>1. \A j \in 1 .. n : s[j].rate \in Nat
              BY <1>1
            <6>2. \A j \in 1 .. n : s[j].lang = s[n + 1].lang => s[j].rate < s[n + 1].rate
              <7> TAKE j \in 1 .. n
              <7>1. s[j].lang = s[n + 1].lang => Beats(k, j)
                BY <4>1, <4>3
              <7>2. Beats(k, j) => s[j].rate <= s[k].rate
                BY <4>2, <6>1
              <7>3. s[j].rate \in Nat /\ s[k].rate \in Nat /\ s[k].rate < s[n + 1].rate
                BY <4>2, <4>3, <6>1
              <7> HIDE DEF Beats
              <7> QED
                BY <4>2, <7>1, <7>2, <7>3
            <6>3. Beats(n + 1, n + 1)
              BY <4>2
            <6>4. \A j \in 1 .. n + 1 : j \in 1 .. n \/ j = n + 1
              OBVIOUS
            <6> QED
              BY <6>2, <6>3, <6>4
          <5> HIDE DEF Best
          <5> QED
            BY <3>1, <4>3, <5>1
        <4>4. CASE ~(s[n + 1].lang = s[i].lang /\ s[n + 1].rate > s[k].rate)
          <5>1. Best(k, n + 1)
            BY <4>1, <4>2, <4>4
          <5> HIDE DEF Best
          <5> QED
            BY <3>1, <4>1, <5>1
        <4> QED
          BY <4>3, <4>4
      <3>4. Has(n) \/ \A j \in 1 .. n : s[j].lang # s[i].lang
        <4> HIDE DEF Has
        <4> QED
          BY <1>1, <2>2
      <3> QED
        BY <3>2, <3>3, <3>4
    <2>3. Len(s) \in I
      <3> HIDE DEF I
      <3> QED
        BY <1>1, <2>1, <2>2, NatSetInduction
    <2> QED
      BY <1>1, <2>3
  <1> HIDE DEF Best
  <1>6. ToSet(s) = {s[i] : i \in DOMAIN s}
    BY DEF ToSet
  <1> QED
    BY <1>2, <1>3, <1>4, <1>5, <1>6

LEMMA OwnSequence ==
  ASSUME NEW T, NEW s \in Seq(T)
  PROVE  s \in Seq(ToSet(s)) /\ ToSet(s) \subseteq T
  BY DEF ToSet

\* MediaKey tells codec, height, language and the rate in whole kbit/s.
LEMMA SameMedia ==
  ASSUME NEW f, NEW g, NEW ranged, Serves(g, f, ranged)
  PROVE  /\ g.video = f.video /\ g.audio = f.audio /\ g.height = f.height /\ g.lang = f.lang
         /\ g.rate \div 10 = f.rate \div 10
         /\ f.id \in ranged => g.id \in ranged
  BY DEF Serves, MediaKey

\* Every format that can be played is served by one of those that stay.
LEMMA PlayableServes ==
  ASSUME NEW formats, formats \in Seq(ToSet(formats)), NEW ranged
  PROVE  LET usable == {f \in ToSet(formats) : IsDashUsable(f)} IN
         /\ Playable(formats, ranged) \in Seq(usable)
         /\ \A g \in usable : \E h \in ToSet(Playable(formats, ranged)) : Serves(h, g, ranged)
  <1> DEFINE usable == {f \in ToSet(formats) : IsDashUsable(f)}
             kept == Keeping(formats, usable)
  <1>1. kept \in Seq(ToSet(formats)) /\ ToSet(kept) = ToSet(formats) \cap usable
    <2> HIDE DEF usable
    <2> QED
      BY KeepingKeeps
  <1>2. ToSet(kept) = usable
    BY <1>1
  <1>3. kept \in Seq(usable)
    BY <1>1, <1>2, OwnSequence
  <1>4. Playable(formats, ranged) = DedupePreferWithRanges(kept, ranged)
    BY DEF Playable
  <1> HIDE DEF usable, kept
  <1> QED
    BY <1>2, <1>3, <1>4, DedupeServes DEF usable

\* The formats of usable that a family's ladder is trimmed from.
LEMMA FamilyKept ==
  ASSUME NEW T, NEW usable \in Seq(T), NEW S \in SUBSET ToSet(usable)
  PROVE  Keeping(usable, S) \in Seq(T) /\ ToSet(Keeping(usable, S)) = S
  <1>1. ToSet(usable) \cap S = S
    OBVIOUS
  <1>2. Keeping(usable, S) \in Seq(T) /\ ToSet(Keeping(usable, S)) = ToSet(usable) \cap S
    BY KeepingKeeps
  <1> QED
    BY <1>1, <1>2

LEMMA VideoLadder ==
  ASSUME NEW formats, formats \in Seq(ToSet(formats)), NEW ranged, NEW c
  PROVE  LET ladder == TrimVideo(Playable(formats, ranged), ranged, c)
             usable == UsableFormats(formats, ranged)
         IN /\ \A f \in ladder : f \in usable /\ f.video = c
            /\ \A f, g \in ladder : f.height = g.height => f = g
            /\ \A f \in usable : f.video = c => \E g \in ladder : g.height = f.height
  <1> DEFINE T == {f \in ToSet(formats) : IsDashUsable(f)}
             u == Playable(formats, ranged)
             S == {f \in ToSet(u) : f.video = c /\ f.id \in ranged}
             s == Keeping(u, S)
  <1>1. u \in Seq(T) /\ \A g \in T : \E h \in ToSet(u) : Serves(h, g, ranged)
    BY PlayableServes
  <1>2. ToSet(u) \subseteq T
    <2> HIDE DEF T, u
    <2> QED
      BY <1>1, OwnSequence
  <1>3. s \in Seq(T) /\ ToSet(s) = S
    <2>1. S \in SUBSET ToSet(u)
      OBVIOUS
    <2> HIDE DEF T, u, S
    <2> QED
      BY <1>1, <2>1, FamilyKept
  <1>4. TrimVideo(u, ranged, c) = TrimVideoRepresentations(s)
    BY DEF TrimVideo
  <1>5. /\ TrimVideoRepresentations(s) \subseteq S
        /\ \A f, g \in TrimVideoRepresentations(s) : f.height = g.height => f = g
        /\ \A f \in S : \E g \in TrimVideoRepresentations(s) : g.height = f.height
    <2> HIDE DEF T, s, S
    <2> QED
      BY <1>3, TrimmedByHeight
  <1>6. \A f \in S : f \in UsableFormats(formats, ranged) /\ f.video = c
    BY <1>2 DEF UsableFormats
  <1>7. ASSUME NEW f \in UsableFormats(formats, ranged), f.video = c
        PROVE  \E g \in S : g.height = f.height
    <2>1. f \in T /\ f.id \in ranged
      BY DEF UsableFormats
    <2>2. PICK h \in ToSet(u) : Serves(h, f, ranged)
      BY <1>1, <2>1
    <2>3. h.video = c /\ h.height = f.height /\ h.id \in ranged
      BY <1>7, <2>1, <2>2, SameMedia
    <2> QED
      BY <2>3
  <1> HIDE DEF s, S
  <1>8. \A f \in UsableFormats(formats, ranged) : f.video = c =>
            \E g \in TrimVideoRepresentations(s) : g.height = f.height
    <2> TAKE f \in UsableFormats(formats, ranged)
    <2> HAVE f.video = c
    <2>1. PICK h \in S : h.height = f.height
      BY <1>7
    <2> QED
      BY <1>5, <2>1
  <1> QED
    BY <1>4, <1>5, <1>6, <1>8

LEMMA AudioLadder ==
  ASSUME NEW formats, formats \in Seq(ToSet(formats)), \A f \in ToSet(formats) : f.rate \in Nat,
         NEW ranged, NEW c
  PROVE  LET ladder == TrimAudio(Playable(formats, ranged), ranged, c)
             usable == UsableFormats(formats, ranged)
         IN /\ \A f \in ladder : f \in usable /\ f.audio = c
            /\ \A f, g \in ladder : f.lang = g.lang => f = g
            /\ \A f \in usable : f.audio = c => \E g \in ladder : g.lang = f.lang
            /\ \A f \in ladder, g \in usable :
                  g.audio = c /\ g.lang = f.lang => g.rate \div 10 <= f.rate \div 10
  <1> DEFINE T == {f \in ToSet(formats) : IsDashUsable(f)}
             u == Playable(formats, ranged)
             S == {f \in ToSet(u) : f.audio = c /\ f.id \in ranged}
             s == Keeping(u, S)
  <1>1. u \in Seq(T) /\ \A g \in T : \E h \in ToSet(u) : Serves(h, g, ranged)
    BY PlayableServes
  <1>2. ToSet(u) \subseteq T
    <2> HIDE DEF T, u
    <2> QED
      BY <1>1, OwnSequence
  <1>3. s \in Seq(T) /\ ToSet(s) = S
    <2>1. S \in SUBSET ToSet(u)
      OBVIOUS
    <2> HIDE DEF T, u, S
    <2> QED
      BY <1>1, <2>1, FamilyKept
  <1>4. TrimAudio(u, ranged, c) = TrimAudioRepresentations(s)
    BY DEF TrimAudio
  <1>5. /\ TrimAudioRepresentations(s) \subseteq S
        /\ \A f, g \in TrimAudioRepresentations(s) : f.lang = g.lang => f = g
        /\ \A f \in S : \E g \in TrimAudioRepresentations(s) : g.lang = f.lang
        /\ \A f \in TrimAudioRepresentations(s), g \in S : g.lang = f.lang => g.rate <= f.rate
    <2>1. \A f \in T : f.rate \in Nat
      OBVIOUS
    <2> HIDE DEF T, s, S
    <2> QED
      BY <1>3, <2>1, TrimmedByLanguage
  <1>6. \A f \in S : f \in UsableFormats(formats, ranged) /\ f.audio = c /\ f.rate \in Nat
    BY <1>2 DEF UsableFormats
  <1>7. ASSUME NEW f \in UsableFormats(formats, ranged), f.audio = c
        PROVE  \E g \in S : g.lang = f.lang /\ g.rate \div 10 = f.rate \div 10
    <2>1. f \in T /\ f.id \in ranged
      BY DEF UsableFormats
    <2>2. PICK h \in ToSet(u) : Serves(h, f, ranged)
      BY <1>1, <2>1
    <2>3. h.audio = c /\ h.lang = f.lang /\ h.id \in ranged /\ h.rate \div 10 = f.rate \div 10
      BY <1>7, <2>1, <2>2, SameMedia
    <2> QED
      BY <2>3
  <1> HIDE DEF s, S
  <1>8. \A f \in UsableFormats(formats, ranged) : f.audio = c =>
            \E g \in TrimAudioRepresentations(s) : g.lang = f.lang
    <2> TAKE f \in UsableFormats(formats, ranged)
    <2> HAVE f.audio = c
    <2>1. PICK h \in S : h.lang = f.lang
      BY <1>7
    <2> QED
      BY <1>5, <2>1
  <1>9. \A f \in TrimAudioRepresentations(s), g \in UsableFormats(formats, ranged) :
            g.audio = c /\ g.lang = f.lang => g.rate \div 10 <= f.rate \div 10
    <2> TAKE f \in TrimAudioRepresentations(s), g \in UsableFormats(formats, ranged)
    <2> HAVE g.audio = c /\ g.lang = f.lang
    <2>1. PICK h \in S : h.lang = g.lang /\ h.rate \div 10 = g.rate \div 10
      BY <1>7
    <2>2. h.rate <= f.rate
      BY <1>5, <2>1
    <2>3. f.rate \in Nat /\ h.rate \in Nat
      BY <1>5, <1>6
    <2>4. \A a, b \in Nat : a <= b => a \div 10 <= b \div 10
      OBVIOUS
    <2> QED
      BY <2>1, <2>2, <2>3, <2>4
  <1> QED
    BY <1>4, <1>5, <1>6, <1>8, <1>9

\* Sets by language, together all tracks.
LEMMA SetsTogether ==
  ASSUME NEW tracks, NEW main, NEW langs
  PROVE  UNION {set.tracks : set \in AudioAdaptationSets(tracks, main, langs)} = tracks
  <1> DEFINE sets == AudioAdaptationSets(tracks, main, langs)
             all == UNION {set.tracks : set \in sets}
  <1>1. ASSUME NEW f \in tracks PROVE f \in all
    <2> DEFINE set == [lang |-> f.lang, tracks |-> {g \in tracks : g.lang = f.lang},
                       main |-> f.lang # 0 /\ main = f.lang /\ langs # {f.lang}]
    <2>1. set \in sets
      BY DEF AudioAdaptationSets
    <2>2. f \in set.tracks
      OBVIOUS
    <2> HIDE DEF set, sets
    <2> QED
      BY <2>1, <2>2
  <1>2. \A set \in sets : set.tracks \subseteq tracks
    BY DEF AudioAdaptationSets
  <1>3. all \subseteq tracks
    <2> HIDE DEF sets
    <2> QED
      BY <1>2
  <1>4. all = tracks
    <2> HIDE DEF all
    <2> QED
      BY <1>1, <1>3
  <1> QED
    BY <1>4

\* The manifest, family by family.
LEMMA ManifestIs ==
  ASSUME NEW formats, NEW ranged
  PROVE  LET u == Playable(formats, ranged)
             mpd == SynthesizeManifest(formats, ranged)
         IN /\ \A c \in VideoFamilies : mpd.video[c] = TrimVideo(u, ranged, c)
            /\ \A c \in AudioFamilies : AudioTracks(mpd, c) = TrimAudio(u, ranged, c)
            /\ \A c, d \in AudioFamilies : \A s \in mpd.audio[c], t \in mpd.audio[d] :
                  /\ s.lang = t.lang => s.main = t.main
                  /\ s.main /\ t.main => s.lang = t.lang
  <1> DEFINE u == Playable(formats, ranged)
             mpd == SynthesizeManifest(formats, ranged)
             audio == [c \in AudioFamilies |-> TrimAudio(u, ranged, c)]
             langs == {f.lang : f \in audio["opus"] \cup audio["mp4a"]}
             main == PickMainAudioLang(audio["opus"], audio["mp4a"])
  <1>1. /\ mpd.video = [c \in VideoFamilies |-> TrimVideo(u, ranged, c)]
        /\ mpd.audio = [c \in AudioFamilies |-> AudioAdaptationSets(audio[c], main, langs)]
    BY DEF SynthesizeManifest
  <1> HIDE DEF mpd, main, langs
  <1>2. ASSUME NEW c \in AudioFamilies
        PROVE  AudioTracks(mpd, c) = TrimAudio(u, ranged, c)
    <2>1. mpd.audio[c] = AudioAdaptationSets(TrimAudio(u, ranged, c), main, langs)
      BY <1>1
    <2> HIDE DEF u
    <2> QED
      BY <2>1, SetsTogether DEF AudioTracks
  <1>3. ASSUME NEW c \in AudioFamilies, NEW s \in mpd.audio[c]
        PROVE  s.main = (s.lang # 0 /\ main = s.lang /\ langs # {s.lang})
    <2>1. s \in AudioAdaptationSets(TrimAudio(u, ranged, c), main, langs)
      BY <1>1
    <2> QED
      BY <2>1 DEF AudioAdaptationSets
  <1>4. ASSUME NEW c \in AudioFamilies, NEW d \in AudioFamilies,
               NEW s \in mpd.audio[c], NEW t \in mpd.audio[d]
        PROVE  /\ s.lang = t.lang => s.main = t.main
               /\ s.main /\ t.main => s.lang = t.lang
    BY <1>3
  <1> QED
    BY <1>1, <1>2, <1>4 DEF mpd

\* Whatever an extraction lists and in whatever order, every height and every
\* language that can be played is offered once per codec family, the audio of
\* a language is the best of it, and the families agree on the main language
\* (services/dash.rs: synthesize_manifest).
THEOREM EveryRungIsOffered == Spec => []LadderIsComplete
  <1>1. TypeInv => LadderIsComplete
    <2> SUFFICES ASSUME TypeInv, NEW r \in Requests, request[r].pc = "answer"
                 PROVE  LET mpd == Answered(r)
                            heights(S) == {f.height : f \in S}
                            langs(S) == {f.lang : f \in S}
                        IN /\ \A c \in VideoFamilies :
                                 /\ heights(mpd.video[c]) = heights({f \in Candidates(r) : f.video = c})
                                 /\ \A f, g \in mpd.video[c] : f.height = g.height => f = g
                           /\ \A c \in AudioFamilies :
                                 /\ langs(AudioTracks(mpd, c)) = langs({f \in Candidates(r) : f.audio = c})
                                 /\ \A f, g \in AudioTracks(mpd, c) : f.lang = g.lang => f = g
                                 /\ \A f \in AudioTracks(mpd, c), g \in Candidates(r) :
                                       g.audio = c /\ g.lang = f.lang => g.rate \div 10 <= f.rate \div 10
                                 /\ \A d \in AudioFamilies : \A s \in mpd.audio[c], t \in mpd.audio[d] :
                                       /\ s.lang = t.lang => s.main = t.main
                                       /\ s.main /\ t.main => s.lang = t.lang
      BY DEF LadderIsComplete
    <2> DEFINE formats == request[r].x.formats
               ranged == DOMAIN request[r].ranges
               u == Playable(formats, ranged)
               mpd == Answered(r)
    <2>1. request[r].x \in Extractions
      BY RequestFits DEF Fits, RequestType
    <2>2. formats \in Seq(ToSet(formats)) /\ \A f \in ToSet(formats) : f.rate \in Nat
      BY <2>1, ExtractionsAssumption
    <2>3. mpd = SynthesizeManifest(formats, ranged) /\ Candidates(r) = UsableFormats(formats, ranged)
      BY DEF Answered, Candidates
    <2> HIDE DEF formats, ranged, mpd
    <2>4. /\ \A c \in VideoFamilies : mpd.video[c] = TrimVideo(u, ranged, c)
          /\ \A c \in AudioFamilies : AudioTracks(mpd, c) = TrimAudio(u, ranged, c)
          /\ \A c, d \in AudioFamilies : \A s \in mpd.audio[c], t \in mpd.audio[d] :
                /\ s.lang = t.lang => s.main = t.main
                /\ s.main /\ t.main => s.lang = t.lang
      BY <2>3, ManifestIs
    <2>5. ASSUME NEW c \in VideoFamilies
          PROVE  /\ {f.height : f \in mpd.video[c]}
                       = {f.height : f \in {g \in Candidates(r) : g.video = c}}
                 /\ \A f, g \in mpd.video[c] : f.height = g.height => f = g
      <3>1. /\ \A f \in mpd.video[c] : f \in Candidates(r) /\ f.video = c
            /\ \A f, g \in mpd.video[c] : f.height = g.height => f = g
            /\ \A f \in Candidates(r) : f.video = c => \E g \in mpd.video[c] : g.height = f.height
        BY <2>2, <2>3, <2>4, VideoLadder
      <3> QED
        BY <3>1
    <2>6. ASSUME NEW c \in AudioFamilies
          PROVE  /\ {f.lang : f \in AudioTracks(mpd, c)}
                       = {f.lang : f \in {g \in Candidates(r) : g.audio = c}}
                 /\ \A f, g \in AudioTracks(mpd, c) : f.lang = g.lang => f = g
                 /\ \A f \in AudioTracks(mpd, c), g \in Candidates(r) :
                       g.audio = c /\ g.lang = f.lang => g.rate \div 10 <= f.rate \div 10
      <3>1. /\ \A f \in AudioTracks(mpd, c) : f \in Candidates(r) /\ f.audio = c
            /\ \A f, g \in AudioTracks(mpd, c) : f.lang = g.lang => f = g
            /\ \A f \in Candidates(r) : f.audio = c => \E g \in AudioTracks(mpd, c) : g.lang = f.lang
            /\ \A f \in AudioTracks(mpd, c), g \in Candidates(r) :
                  g.audio = c /\ g.lang = f.lang => g.rate \div 10 <= f.rate \div 10
        BY <2>2, <2>3, <2>4, AudioLadder
      <3> QED
        BY <3>1
    <2> QED
      BY <2>4, <2>5, <2>6 DEF mpd
  <1> QED
    BY <1>1, TypesHold, PTL

-----------------------------------------------------------------------------
(* The ranges of a representation.                                         *)

\* run_extraction: an entry of the itag and the size of a format is the one
\* its ranges are taken from.
LEMMA OwnRangesFit ==
  ASSUME NEW x \in Extractions, NEW f \in ToSet(x.formats), NEW e \in PlayerEntries(x.dump),
         e.itag = f.itag, e.size = f.size
  PROVE  /\ f.id \in DOMAIN OwnRanges(x)
         /\ OwnRanges(x)[f.id] = [encode |-> x.encode, file |-> e]
  <1> DEFINE entries == PlayerEntries(x.dump)
             exact == {d \in entries : d.itag = f.itag /\ f.size # 0 /\ d.size = f.size}
             resolved == {g \in ToSet(x.formats) : ResolveRange(g, entries) # {}}
             own == ResolveRanges(x.formats, entries)
  <1>1. \A d \in entries : d = [itag |-> d.itag, size |-> d.size] /\ d.size # 0
    BY DEF PlayerEntries
  <1>2. exact = {e}
    <2>1. e \in exact
      BY <1>1
    <2>2. \A d \in exact : d = e
      BY <1>1
    <2> QED
      BY <2>1, <2>2
  <1>3. ResolveRange(f, entries) = {e}
    BY <1>2 DEF ResolveRange
  <1>4. f \in resolved
    BY <1>3
  <1>5. \A g \in resolved : g.id = f.id => g = f
    BY ExtractionsAssumption
  <1>6. (CHOOSE g \in resolved : g.id = f.id) = f
    <2> HIDE DEF resolved
    <2> QED
      BY <1>4, <1>5
  <1>7. (CHOOSE d \in ResolveRange(f, entries) : TRUE) = e
    BY <1>3
  <1>8. own = [i \in {g.id : g \in resolved} |->
                  CHOOSE d \in ResolveRange(CHOOSE g \in resolved : g.id = i, entries) : TRUE]
    BY DEF ResolveRanges
  <1> HIDE DEF resolved, own, entries
  <1>9. f.id \in DOMAIN own /\ own[f.id] = e
    BY <1>4, <1>6, <1>7, <1>8
  <1>10. OwnRanges(x) = [i \in DOMAIN own |-> [encode |-> x.encode, file |-> own[i]]]
    BY DEF OwnRanges, own, entries
  <1> QED
    BY <1>9, <1>10

\* resolve_segment_ranges: what the extraction knows is not looked up.
LEMMA OwnRangesWin ==
  ASSUME NEW x, NEW table
  PROVE  \A i \in DOMAIN OwnRanges(x) :
            /\ i \in DOMAIN ResolvedRanges(x, table)
            /\ ResolvedRanges(x, table)[i] = OwnRanges(x)[i]
  <1> DEFINE own == OwnRanges(x)
             found == {f.id : f \in {g \in ToSet(x.formats) :
                          g.direct /\ g.id \notin DOMAIN own /\ table[g.id] # Nothing}}
  <1>1. ResolvedRanges(x, table) = [i \in DOMAIN own \cup found |->
                                       IF i \in DOMAIN own THEN own[i] ELSE table[i]]
    BY DEF ResolvedRanges
  <1> HIDE DEF own, found
  <1>2. \A i \in DOMAIN own : /\ i \in DOMAIN ResolvedRanges(x, table)
                              /\ ResolvedRanges(x, table)[i] = own[i]
    BY <1>1
  <1> QED
    BY <1>2 DEF own

\* A request that answers has all that its extraction knows.
Knows(rec) ==
    rec.pc = "answer" =>
        \A i \in DOMAIN OwnRanges(rec.x) :
            i \in DOMAIN rec.ranges /\ rec.ranges[i] = OwnRanges(rec.x)[i]

RangesInv == \A r \in Requests : Knows(request[r])

LEMMA MoveKnows ==
  ASSUME TypeInv, RangesInv, NEW r \in Requests, NEW next, Knows(next),
         request' = [request EXCEPT ![r] = next]
  PROVE  RangesInv'
  <1>1. \A q \in Requests : request'[q] = IF q = r THEN next ELSE request[q]
    BY DEF TypeInv
  <1>2. \A q \in Requests : Knows(request'[q])
    BY <1>1 DEF RangesInv
  <1> QED
    BY <1>2 DEF RangesInv, Knows

LEMMA NextKnows == TypeInv /\ RangesInv /\ [Next]_vars => RangesInv'
  <1> SUFFICES ASSUME TypeInv, RangesInv, [Next]_vars PROVE RangesInv'
    OBVIOUS
  <1>1. CASE UNCHANGED request
    BY <1>1 DEF RangesInv, Knows
  <1>2. ASSUME NEW r \in Requests, NEW next, next.pc # "answer",
               request' = [request EXCEPT ![r] = next]
        PROVE  RangesInv'
    BY <1>2, MoveKnows DEF Knows
  <1>3. ASSUME NEW r \in Requests, Step(r)
        PROVE  RangesInv'
    <2>1. request[r] \in RequestType
      BY RequestFits
    <2>2. ASSUME NEW kind \in Kinds, Start(r, kind)
          PROVE  RangesInv'
      <3> DEFINE next == [Idle EXCEPT !.pc = "extract", !.kind = kind,
                                      !.mayView = allowed, !.mayCast = castable]
      <3>1. next.pc # "answer"
        BY DEF Idle
      <3> QED
        BY <1>2, <2>2, <3>1 DEF Start
    <2>3. CASE GetOrExtract(r)
      <3> DEFINE next == [request[r] EXCEPT !.x = cached,
                             !.pc = IF request[r].kind = "cast" THEN "cast" ELSE "access"]
      <3>1. next.pc # "answer" /\ request' = [request EXCEPT ![r] = next]
        BY <2>1, <2>3 DEF GetOrExtract, RequestType
      <3> HIDE DEF next
      <3> QED
        BY <1>2, <3>1
    <2>4. CASE CheckCast(r) \/ EnforceAccess(r)
      <3>1. Idle.pc # "answer" /\ [request[r] EXCEPT !.pc = "access"].pc # "answer"
            /\ [request[r] EXCEPT !.pc = "resolve"].pc # "answer"
        BY <2>1 DEF Idle, RequestType
      <3>2. \/ request' = [request EXCEPT ![r] = Idle]
            \/ request' = [request EXCEPT ![r] = [request[r] EXCEPT !.pc = "access"]]
            \/ request' = [request EXCEPT ![r] = [request[r] EXCEPT !.pc = "resolve"]]
        BY <2>4 DEF CheckCast, EnforceAccess
      <3> QED
        BY <1>2, <3>1, <3>2
    <2>5. CASE ResolveSegmentRanges(r)
      <3> DEFINE resolved == ResolvedRanges(request[r].x, rows)
                 next == [request[r] EXCEPT !.ranges = resolved, !.pc = "answer"]
      <3>1. request' = [request EXCEPT ![r] = next]
        BY <2>1, <2>5 DEF ResolveSegmentRanges, RequestType
      <3>2. next.x = request[r].x /\ next.ranges = resolved
        BY <2>1 DEF RequestType
      <3> HIDE DEF next
      <3>3. Knows(next)
        BY <3>2, OwnRangesWin DEF Knows
      <3> QED
        BY <3>1, <3>3, MoveKnows
    <2>6. CASE Answer(r)
      BY <1>2, <2>6 DEF Answer, Idle
    <2>7. CASE StoreAll(r) \/ CommitMemo(r) \/ AbortMemo(r)
      BY <1>1, <2>7 DEF StoreAll, CommitMemo, AbortMemo
    <2> QED
      BY <1>3, <2>2, <2>3, <2>4, <2>5, <2>6, <2>7 DEF Step
  <1>4. CASE ParentChanges
    <2>1. ASSUME NEW r \in Requests
          PROVE  Knows(request'[r])
      <3>1. CASE request[r].pc = "idle"
        BY <1>4, <3>1 DEF ParentChanges, Knows, Idle
      <3>2. CASE request[r].pc # "idle"
        <4>1. /\ request'[r].pc = request[r].pc /\ request'[r].x = request[r].x
              /\ request'[r].ranges = request[r].ranges
          BY <1>4, <3>2, RequestFits DEF ParentChanges, RequestType
        <4>2. Knows(request[r])
          BY DEF RangesInv
        <4> QED
          BY <4>1, <4>2 DEF Knows
      <3> QED
        BY <3>1, <3>2
    <2> QED
      BY <2>1 DEF RangesInv, Knows
  <1>5. CASE MemoOverflows \/ Reextract \/ TokenExpires \/ UNCHANGED vars
    BY <1>1, <1>5 DEF MemoOverflows, Reextract, TokenExpires, vars
  <1> QED
    BY <1>3, <1>4, <1>5 DEF Next

LEMMA RepresentedBy ==
  ASSUME NEW mpd, NEW f \in Representations(mpd)
  PROVE  \/ \E c \in VideoFamilies : f \in mpd.video[c]
         \/ \E c \in AudioFamilies : f \in AudioTracks(mpd, c)
  BY DEF Representations

\* A representation is never given ranges of another file than its own when
\* the extraction knows them, whatever an older encode left in the table
\* (routes/videos.rs: resolve_segment_ranges).
THEOREM RangesAreOfTheFile == Spec => []RangesFitFile
  <1>1. Init => RangesInv
    BY DEF Init, RangesInv, Knows, Idle
  <1>2. TypeInv /\ RangesInv => RangesFitFile
    <2> SUFFICES ASSUME TypeInv, RangesInv, NEW r \in Requests, request[r].pc = "answer",
                        NEW f \in Representations(Answered(r)),
                        NEW e \in PlayerEntries(request[r].x.dump),
                        e.itag = f.itag, e.size = f.size
                 PROVE  request[r].ranges[f.id] = [encode |-> request[r].x.encode, file |-> e]
      BY DEF RangesFitFile
    <2> DEFINE x == request[r].x
               ranged == DOMAIN request[r].ranges
    <2>1. x \in Extractions
      BY RequestFits DEF Fits, RequestType
    <2>2. x.formats \in Seq(ToSet(x.formats)) /\ \A g \in ToSet(x.formats) : g.rate \in Nat
      BY <2>1, ExtractionsAssumption
    <2>3. f \in ToSet(x.formats)
      <3>1. \/ \E c \in VideoFamilies : f \in Answered(r).video[c]
            \/ \E c \in AudioFamilies : f \in AudioTracks(Answered(r), c)
        BY RepresentedBy
      <3>2. Answered(r) = SynthesizeManifest(x.formats, ranged)
        BY DEF Answered
      <3> HIDE DEF x, ranged
      <3>3. f \in UsableFormats(x.formats, ranged)
        <4>1. CASE \E c \in VideoFamilies : f \in Answered(r).video[c]
          <5>1. PICK c \in VideoFamilies : f \in TrimVideo(Playable(x.formats, ranged), ranged, c)
            BY <3>2, <4>1, ManifestIs
          <5> QED
            BY <2>2, <5>1, VideoLadder
        <4>2. CASE \E c \in AudioFamilies : f \in AudioTracks(Answered(r), c)
          <5>1. PICK c \in AudioFamilies : f \in TrimAudio(Playable(x.formats, ranged), ranged, c)
            BY <3>2, <4>2, ManifestIs
          <5> QED
            BY <2>2, <5>1, AudioLadder
        <4> QED
          BY <3>1, <4>1, <4>2
      <3> QED
        BY <3>3 DEF UsableFormats
    <2>4. Knows(request[r])
      BY DEF RangesInv
    <2>5. f.id \in DOMAIN OwnRanges(x) /\ OwnRanges(x)[f.id] = [encode |-> x.encode, file |-> e]
      <3>1. e \in PlayerEntries(x.dump)
        OBVIOUS
      <3> HIDE DEF x
      <3> QED
        BY <2>1, <2>3, <3>1, OwnRangesFit
    <2> QED
      BY <2>4, <2>5 DEF Knows
  <1> QED
    BY <1>1, <1>2, InitTypes, NextTypes, NextKnows, PTL DEF Spec
=============================================================================
