--------------------------- MODULE HouseholdProofs ---------------------------
(***************************************************************************)
(* What the household's tables and pages keep to, for any sets of accounts,*)
(* browsers, requests, videos and channels, and for any of the households  *)
(* to start from.                                                          *)
(*                                                                         *)
(* Every step moves one request.  What a request holds of what it has read *)
(* depends on where it is in its handler (Sound), and the rows it carries  *)
(* to the gate name channels the videos belong to (PageRows); the rest is  *)
(* what the history remembers of the time in between.                      *)
(***************************************************************************)
EXTENDS Household, FiniteSetTheorems, WellFoundedInduction, TLAPS

Fields == {"op", "pc", "browser", "key", "me", "role", "on", "as", "pin", "saw", "rows", "row",
           "shown", "stale"}
IsRequest(rec) == DOMAIN rec = Fields /\ rec = [f \in Fields |-> rec[f]]

\* Rows that may meet the gate.
PageRows == {row \in Videos \X (Channels \cup {Nobody}) :
                row[2] \in Channels => Belongs(row[1], row[2])}

\* Which operations come by a place of the family's handlers, with what.
FamilySound(rec) ==
    /\ rec.pc = "insertFirst" => rec.op = "register"
    /\ rec.pc = "insert" => rec.op = "addMember"
    /\ rec.op = "addMember" => rec.as \in Roles
    /\ rec.pc = "setPin" => rec.op \in {"register", "addMember", "setPin"}
    /\ rec.op \in {"register", "addMember", "setPin"} => rec.pin \in Pins \cup {NoPin}
    /\ rec.pc \in {"findTarget", "listHashes"} => rec.op = "switch"
    /\ rec.pc = "dropSession" => rec.op \in {"switch", "logout"}
    /\ rec.pc = "createSession" => rec.op \in {"register", "switch"}
    /\ rec.pc = "answer" => rec.op \in {"register", "switch", "logout"}
    /\ rec.pc = "hasParent" => rec.op = "complete"
    /\ rec.pc = "findSelf" => rec.op = "setPin"
    /\ rec.pc \in {"findMember", "count"} => rec.op \in RoleOps
    /\ rec.pc = "update" => rec.op = "updateMember"
    /\ rec.pc = "purge" => rec.op = "deleteMember"
    /\ rec.pc = "delete" => rec.op \in {"deleteMember", "deleteAccount"}
    /\ rec.op = "updateMember" => rec.as \in Roles
    /\ rec.op \in {"deleteMember", "deleteAccount"} => rec.as = "none"

NoticeSound(rec) ==
    /\ rec.pc \in {"recent?", "tell"} => rec.op \in {"switch", "setPin"}
    /\ rec.pc = "parents" => rec.op \in {"switch", "setPin", "search"}
    /\ rec.pc \in {"told?", "insert notice"} => rec.op = "search"
    /\ rec.pc = "dismiss" => rec.op = "dismiss"

RuleSound(rec) ==
    /\ rec.pc = "requireChild" => rec.op \in ParentOps
    /\ rec.pc \in {"switchDownloads", "update settings"} => rec.op = "switchDownloads"
    /\ rec.op = "switchDownloads" => rec.as \in {"on", "off"}
    /\ rec.pc = "hide" => rec.on \in Videos

PageSound(rec) ==
    /\ rec.pc \in ListOps \cup {"stream"} => rec.op = rec.pc
    /\ rec.pc = "downloads?" => rec.op \in {"createDownload", "streamDownload"}
    /\ rec.pc = "insert download" => rec.op = "createDownload"
    /\ rec.pc \in {"subscribed?", "uploads"} => rec.op = "channelPage"
    /\ rec.pc \in {"lookup", "write back"} => rec.op \in {"continueWatching", "watchAgain"}
    /\ rec.pc = "unwatched" => rec.op \in {"upNext", "upNextOf"}
    /\ rec.pc = "bucket" => rec.op = "upNext"
    /\ rec.pc \in {"prior?", "log search"} => rec.op = "search"
    /\ rec.pc \in Stages \cup {"answered"} => rec.op \in PageOps
    /\ rec.pc \in Stages => rec.row \in PageRows
    /\ rec.op \in PageOps =>
          /\ rec.pc \notin {"told?", "insert notice"} => rec.rows \subseteq PageRows
          /\ rec.shown \subseteq Videos
          /\ rec.op \in GateOps => rec.on \in Videos
          /\ rec.op \in {"channelPage", "upNextOf"} => rec.on \in Channels

WatchSound(rec) ==
    /\ rec.pc = "watch history" => rec.saw \in {"started", "finished"}
    /\ rec.pc \in {"watch history", "usage", "usageWrite"} =>
          rec.op \in {"heartbeat", "progress"} /\ rec.on \in Videos /\ rec.pin \in Elapsed

Sound(rec) ==
    /\ IsRequest(rec)
    /\ rec.pc = "new" => rec = New
    /\ rec.pc = "done" => rec = Done
    /\ FamilySound(rec) /\ NoticeSound(rec) /\ RuleSound(rec) /\ PageSound(rec) /\ WatchSound(rec)

RequestsSound == DOMAIN request = Requests /\ \A r \in Requests : Sound(request[r])

ChannelsKnown ==
    \A v \in Videos :
        /\ channelOf[v] \in Channels => Belongs(v, channelOf[v])
        /\ channelOf[v] = Unborn =>
              direct[v] = Nobody /\ watched[v] = "none" /\ \A c \in Channels : <<c, v>> \notin archive

-----------------------------------------------------------------------------
(* A step moves one request.                                               *)

LEMMA FreshRequests == Sound(New) /\ Sound(Done)
  BY DEF Sound, IsRequest, New, Done, Fields, FamilySound, NoticeSound, RuleSound, PageSound,
         WatchSound, RoleOps, ParentOps, ListOps, GateOps, PageOps, Stages

\* r becomes rec; the snapshots of others may have been overtaken.
Turns(r, rec) ==
    /\ DOMAIN request' = Requests
    /\ request'[r] = rec
    /\ \A q \in Requests \ {r} :
          \/ request'[q] = request[q]
          \/ At(q, "usageWrite") /\ request'[q] = [request[q] EXCEPT !.stale = TRUE]

LEMMA StepsTurn ==
  ASSUME DOMAIN request = Requests, NEW r \in Requests, NEW rec,
         Reads(r, rec) \/ Commits(r, rec)
  PROVE  Turns(r, rec)
  <1>1. CASE Reads(r, rec)
    BY <1>1 DEF Reads, Turns
  <1>2. CASE Commits(r, rec)
    BY <1>2 DEF Commits, Turns
  <1> QED
    BY <1>1, <1>2

LEMMA OvertakenIsSound ==
  ASSUME NEW rec, Sound(rec), rec.pc = "usageWrite"
  PROVE  LET late == [rec EXCEPT !.stale = TRUE]
         IN Sound(late) /\ late.op = rec.op /\ late.pc = rec.pc /\ late.on = rec.on /\ late.as = rec.as
            /\ late.op \notin PageOps \cup {"switch", "register"}
  <1> DEFINE late == [rec EXCEPT !.stale = TRUE]
  <1>1. /\ IsRequest(late) /\ late.pc = rec.pc /\ late.op = rec.op /\ late.as = rec.as
        /\ late.on = rec.on /\ late.pin = rec.pin
    BY DEF Sound, IsRequest, Fields
  <1>2. late.op \in {"heartbeat", "progress"}
    BY <1>1 DEF Sound, WatchSound
  <1> QED
    BY <1>1, <1>2 DEF Sound, FamilySound, NoticeSound, RuleSound, PageSound, WatchSound, RoleOps,
        ParentOps, ListOps, GateOps, PageOps, Stages

LEMMA TurnsAreSound ==
  ASSUME RequestsSound, NEW r \in Requests, NEW rec, Turns(r, rec), Sound(rec)
  PROVE  RequestsSound'
  BY OvertakenIsSound DEF RequestsSound, Turns, At


-----------------------------------------------------------------------------
(* Requests begin.                                                         *)

\* rec as the middleware completes it.
Seated(rec, next) ==
    /\ IsRequest(next)
    /\ next.op = rec.op /\ next.pc = rec.pc /\ next.on = rec.on /\ next.as = rec.as
    /\ next.pin = rec.pin /\ next.saw = rec.saw /\ next.rows = rec.rows /\ next.row = rec.row
    /\ next.shown = rec.shown

LEMMA SeatedIsSound ==
  ASSUME NEW rec, Sound(rec), rec.pc \notin {"new", "done"}, NEW next, Seated(rec, next)
  PROVE  Sound(next)
  <1>1. FamilySound(rec) => FamilySound(next)
    BY DEF Seated, FamilySound
  <1>2. NoticeSound(rec) => NoticeSound(next)
    BY DEF Seated, NoticeSound
  <1>3. (RuleSound(rec) => RuleSound(next)) /\ (WatchSound(rec) => WatchSound(next))
    BY DEF Seated, RuleSound, WatchSound
  <1>4. PageSound(rec) => PageSound(next)
    BY DEF Seated, PageSound
  <1> QED
    BY <1>1, <1>2, <1>3, <1>4 DEF Seated, Sound

LEMMA BeginsTurn ==
  ASSUME RequestsSound, NEW r \in Requests, NEW b \in Browsers, NEW rec, NEW audience,
         Sound(rec), rec.pc \notin {"new", "done"}, Begins(r, b, rec, audience)
  PROVE  \E next : Turns(r, next) /\ Sound(next) /\ Seated(rec, next)
  <1>1. PICK key, me, role : Reads(r, [rec EXCEPT !.browser = b, !.key = key, !.me = me, !.role = role])
    BY DEF Begins
  <1> DEFINE next == [rec EXCEPT !.browser = b, !.key = key, !.me = me, !.role = role]
  <1>2. Seated(rec, next)
    BY DEF Seated, Sound, IsRequest, Fields
  <1>3. Sound(next)
    BY <1>2, SeatedIsSound
  <1>4. Turns(r, next)
    BY <1>1, StepsTurn DEF RequestsSound
  <1> QED
    BY <1>2, <1>3, <1>4

\* Where a request begins.
EntryPcs ==
    {"insertFirst", "hasParent", "findTarget", "findSelf", "insert", "findMember", "requireChild",
     "stream", "downloads?", "finishDownload", "deleteDownload", "watch history", "dismiss"}
    \cup OwnOps \cup ListOps

Entry(rec) ==
    /\ Sound(rec)
    /\ \/ rec.pc \in EntryPcs
       \/ rec.pc = "dropSession" /\ rec.op = "logout"
    /\ rec.op \in PageOps => rec.shown = {}

LEMMA EntryBegins ==
  ASSUME RequestsSound, NEW r \in Requests, NEW b \in Browsers, NEW rec, NEW audience,
         Entry(rec), Begins(r, b, rec, audience)
  PROVE  \E next : Turns(r, next) /\ Entry(next)
  <1>1. rec.pc \notin {"new", "done"}
    BY DEF Entry, EntryPcs, OwnOps, ListOps
  <1>2. PICK next : Turns(r, next) /\ Sound(next) /\ Seated(rec, next)
    BY <1>1, BeginsTurn DEF Entry
  <1> QED
    BY <1>2 DEF Entry, Seated

LEMMA AskedIsRequest ==
  ASSUME NEW op, NEW on, NEW as, NEW pin, NEW pc
  PROVE  LET rec == Ask(op, on, as, pin, pc)
         IN /\ IsRequest(rec) /\ rec.op = op /\ rec.on = on /\ rec.as = as /\ rec.pin = pin /\ rec.pc = pc
            /\ rec.rows = {} /\ rec.shown = {}
  BY DEF IsRequest, Ask, New, Fields

LEMMA FamilyBegins ==
  ASSUME RequestsSound, NEW r \in Requests, NEW b \in Browsers, NEW op, BeginsFamily(r, b, op)
  PROVE  \E next : Turns(r, next) /\ Entry(next)
  <1> USE DEF EntryPcs, Sound, FamilySound, NoticeSound, RuleSound, PageSound, WatchSound, RoleOps,
              ParentOps, ListOps, GateOps, PageOps, Stages, Roles
  <1>1. ASSUME NEW pin \in Pins, BeginRegister(r, b, pin)
       PROVE  \E next : Turns(r, next) /\ Entry(next)
    <2> DEFINE rec == Ask("register", Nobody, "parent", pin, "insertFirst")
    <2>1. IsRequest(rec) /\ rec.op = "register" /\ rec.pc = "insertFirst" /\ rec.pin = pin
      BY AskedIsRequest
    <2>2. Entry(rec)
      BY <1>1, <2>1 DEF Entry
    <2> QED
      BY <1>1, <2>2, EntryBegins DEF BeginRegister
  <1>2. ASSUME BeginComplete(r, b)
       PROVE  \E next : Turns(r, next) /\ Entry(next)
    <2> DEFINE rec == Ask("complete", Nobody, "none", NoPin, "hasParent")
    <2>1. IsRequest(rec) /\ rec.op = "complete" /\ rec.pc = "hasParent"
      BY AskedIsRequest
    <2>2. Entry(rec)
      BY <1>2, <2>1 DEF Entry
    <2> QED
      BY <1>2, <2>2, EntryBegins DEF BeginComplete
  <1>3. ASSUME BeginLogout(r, b)
       PROVE  \E next : Turns(r, next) /\ Entry(next)
    <2> DEFINE rec == Ask("logout", Nobody, "none", NoPin, "dropSession")
    <2>1. IsRequest(rec) /\ rec.op = "logout" /\ rec.pc = "dropSession"
      BY AskedIsRequest
    <2>2. Entry(rec)
      BY <1>3, <2>1 DEF Entry
    <2> QED
      BY <1>3, <2>2, EntryBegins DEF BeginLogout
  <1>4. ASSUME NEW a \in Accounts, NEW pin \in Pins, BeginSwitch(r, b, a, pin)
       PROVE  \E next : Turns(r, next) /\ Entry(next)
    <2> DEFINE rec == Ask("switch", a, "none", pin, "findTarget")
    <2>1. IsRequest(rec) /\ rec.op = "switch" /\ rec.pc = "findTarget"
      BY AskedIsRequest
    <2>2. Entry(rec)
      BY <1>4, <2>1 DEF Entry
    <2> QED
      BY <1>4, <2>2, EntryBegins DEF BeginSwitch
  <1>5. ASSUME NEW pin \in Pins, NEW current \in Pins, BeginSetPin(r, b, pin, current)
       PROVE  \E next : Turns(r, next) /\ Entry(next)
    <2> DEFINE asked == Ask("setPin", Nobody, "none", pin, "findSelf")
               rec == [asked EXCEPT !.saw = current]
    <2>1. IsRequest(asked) /\ asked.op = "setPin" /\ asked.pc = "findSelf" /\ asked.pin = pin
      BY AskedIsRequest
    <2>2. IsRequest(rec) /\ rec.op = "setPin" /\ rec.pc = "findSelf" /\ rec.pin = pin
      <3> HIDE DEF asked
      <3> QED
        BY <2>1 DEF IsRequest, Fields
    <2>3. Entry(rec)
      BY <2>2 DEF Entry
    <2> QED
      BY <1>5, <2>3, EntryBegins DEF BeginSetPin
  <1>6. ASSUME NEW role \in Roles, NEW pin \in Pins, BeginAddMember(r, b, role, pin)
       PROVE  \E next : Turns(r, next) /\ Entry(next)
    <2> DEFINE rec == Ask("addMember", Nobody, role, IF role = "parent" THEN pin ELSE NoPin, "insert")
    <2>1. IsRequest(rec) /\ rec.op = "addMember" /\ rec.pc = "insert" /\ rec.as = role /\ rec.pin \in Pins \cup {NoPin}
      BY AskedIsRequest
    <2>2. Entry(rec)
      BY <1>6, <2>1 DEF Entry
    <2> QED
      BY <1>6, <2>2, EntryBegins DEF BeginAddMember
  <1>7. ASSUME NEW a \in Accounts, NEW role \in Roles, BeginUpdateMember(r, b, a, role)
       PROVE  \E next : Turns(r, next) /\ Entry(next)
    <2> DEFINE rec == Ask("updateMember", a, role, NoPin, "findMember")
    <2>1. IsRequest(rec) /\ rec.op = "updateMember" /\ rec.pc = "findMember" /\ rec.as = role
      BY AskedIsRequest
    <2>2. Entry(rec)
      BY <1>7, <2>1 DEF Entry
    <2> QED
      BY <1>7, <2>2, EntryBegins DEF BeginUpdateMember
  <1>8. ASSUME NEW a \in Accounts, BeginDelete(r, b, a, op)
       PROVE  \E next : Turns(r, next) /\ Entry(next)
    <2> DEFINE rec == Ask(op, a, "none", NoPin, "findMember")
    <2>1. IsRequest(rec) /\ rec.op = op /\ rec.pc = "findMember" /\ rec.as = "none"
      BY AskedIsRequest
    <2>2. Entry(rec)
      BY <1>8, <2>1 DEF Entry, BeginDelete
    <2> QED
      BY <1>8, <2>2, EntryBegins DEF BeginDelete
  <1> QED
    BY <1>1, <1>2, <1>3, <1>4, <1>5, <1>6, <1>7, <1>8 DEF BeginsFamily

LEMMA RulesBegin ==
  ASSUME RequestsSound, NEW r \in Requests, NEW b \in Browsers, NEW op,
         BeginsRules(r, b, op)
  PROVE  \E next : Turns(r, next) /\ (Entry(next) \/ next = Done)
  <1> USE DEF EntryPcs, Sound, FamilySound, NoticeSound, RuleSound, PageSound, WatchSound, RoleOps,
              ParentOps, OwnOps, ListOps, GateOps, PageOps, Stages
  <1>1. ASSUME NEW on, NEW as, BeginRule(r, b, op, on, as), op = "switchDownloads" => as \in {"on", "off"}
        PROVE  \E next : Turns(r, next) /\ Entry(next)
    <2> DEFINE rec == [New EXCEPT !.op = op, !.on = on, !.as = as, !.pc = "requireChild"]
    <2>1. IsRequest(rec) /\ rec.op = op /\ rec.pc = "requireChild" /\ rec.as = as
      BY DEF IsRequest, New, Fields
    <2>2. Entry(rec)
      BY <1>1, <2>1 DEF Entry, BeginRule
    <2> QED
      BY <1>1, <2>2, EntryBegins DEF BeginRule
  <1>2. ASSUME NEW on, NEW as, BeginMark(r, b, op, on, as), op = "hide" => on \in Videos
        PROVE  \E next : Turns(r, next) /\ Entry(next)
    <2> DEFINE rec == [New EXCEPT !.op = op, !.on = on, !.as = as, !.pc = op]
    <2>1. IsRequest(rec) /\ rec.op = op /\ rec.pc = op /\ rec.on = on
      BY DEF IsRequest, New, Fields
    <2>2. Entry(rec)
      BY <1>2, <2>1 DEF Entry, BeginMark
    <2> QED
      BY <1>2, <2>2, EntryBegins DEF BeginMark
  <1>3. ASSUME NEW on, BeginPage(r, b, op, on), op \in GateOps => on \in Videos,
               op \in {"channelPage", "upNextOf"} => on \in Channels
        PROVE  \E next : Turns(r, next) /\ Entry(next)
    <2> DEFINE pc == IF op \in {"createDownload", "streamDownload"} THEN "downloads?" ELSE op
               rec == [New EXCEPT !.op = op, !.on = on, !.pc = pc]
    <2>1. /\ IsRequest(rec) /\ rec.op = op /\ rec.on = on /\ rec.pc = pc
          /\ rec.rows = {} /\ rec.shown = {}
      BY DEF IsRequest, New, Fields
    <2>2. op \in PageOps
      BY <1>3 DEF BeginPage
    <2> HIDE DEF rec
    <2>3. FamilySound(rec) /\ NoticeSound(rec) /\ RuleSound(rec) /\ WatchSound(rec)
      BY <2>1, <2>2
    <2>4. PageSound(rec)
      <3>1. CASE op \in {"createDownload", "streamDownload"}
        BY <1>3, <2>1, <2>2, <3>1
      <3>2. CASE op \notin {"createDownload", "streamDownload"}
        BY <1>3, <2>1, <2>2, <3>2
      <3> QED
        BY <3>1, <3>2
    <2>5. Entry(rec)
      BY <2>1, <2>2, <2>3, <2>4 DEF Entry
    <2> QED
      BY <1>3, <2>5, EntryBegins DEF BeginPage, rec
  <1>4. ASSUME NEW v, BeginDownload(r, b, op, v)
        PROVE  \E next : Turns(r, next) /\ Entry(next)
    <2> DEFINE rec == [New EXCEPT !.op = op, !.on = v, !.pc = op]
    <2>1. IsRequest(rec) /\ rec.op = op /\ rec.pc = op
      BY DEF IsRequest, New, Fields
    <2>2. Entry(rec)
      BY <1>4, <2>1 DEF Entry, BeginDownload
    <2> QED
      BY <1>4, <2>2, EntryBegins DEF BeginDownload
  <1>5. ASSUME NEW c, NEW v, Publish(r, c, v) PROVE Turns(r, Done)
    BY <1>5, StepsTurn DEF Publish, RequestsSound
  <1> QED
    BY <1>1, <1>2, <1>3, <1>4, <1>5 DEF BeginsRules, OnVideos

LEMMA WatchBegins ==
  ASSUME RequestsSound, NEW r \in Requests, NEW b \in Browsers, NEW op, BeginsWatch(r, b, op)
  PROVE  \E next : Turns(r, next) /\ Entry(next)
  <1>1. PICK v \in Videos, told \in {"told", "untold"}, state \in {"started", "finished"}, n \in Elapsed :
            BeginWatch(r, b, op, v, told, state, n)
    BY Zenon DEF BeginsWatch
  <1> DEFINE rec == [New EXCEPT !.op = op, !.on = v, !.as = told, !.saw = state, !.pin = n,
                                !.pc = "watch history"]
  <1>2. /\ IsRequest(rec) /\ rec.op = op /\ rec.pc = "watch history" /\ rec.saw = state
        /\ rec.on = v /\ rec.pin = n
    BY DEF IsRequest, New, Fields
  <1>3. Entry(rec)
    BY <1>1, <1>2 DEF Entry, BeginWatch, EntryPcs, Sound, FamilySound, NoticeSound, RuleSound,
        PageSound, WatchSound, RoleOps, ParentOps, ListOps, GateOps, PageOps, Stages
  <1> QED
    BY <1>1, <1>3, EntryBegins DEF BeginWatch

LEMMA DismissBegins ==
  ASSUME RequestsSound, NEW r \in Requests, NEW b \in Browsers, NEW cause, BeginDismiss(r, b, cause)
  PROVE  \E next : Turns(r, next) /\ Entry(next)
  <1> DEFINE rec == [New EXCEPT !.op = "dismiss", !.as = cause, !.pc = "dismiss"]
  <1>1. IsRequest(rec) /\ rec.op = "dismiss" /\ rec.pc = "dismiss"
    BY DEF IsRequest, New, Fields
  <1>2. Entry(rec)
    BY <1>1 DEF Entry, EntryPcs, Sound, FamilySound, NoticeSound, RuleSound, PageSound, WatchSound,
        RoleOps, ParentOps, ListOps, GateOps, PageOps, Stages
  <1> QED
    BY <1>2, EntryBegins DEF BeginDismiss


-----------------------------------------------------------------------------
(* Requests go on, or end.                                                 *)

\* rec at another place, perhaps on something else.
GoesOn(rec, next, pc) ==
    /\ IsRequest(next) /\ next.pc = pc
    /\ next.op = rec.op /\ next.as = rec.as /\ next.pin = rec.pin /\ next.shown = rec.shown

LEMMA MovesOn ==
  ASSUME NEW rec, IsRequest(rec), NEW pc
  PROVE  LET next == [rec EXCEPT !.pc = pc]
         IN GoesOn(rec, next, pc) /\ next.on = rec.on /\ next.rows = rec.rows /\ next.row = rec.row
            /\ next.saw = rec.saw
  BY DEF GoesOn, IsRequest, Fields

LEMMA MovesTo ==
  ASSUME NEW rec, IsRequest(rec), NEW pc, NEW x
  PROVE  LET next == [rec EXCEPT !.on = x, !.pc = pc]
         IN GoesOn(rec, next, pc) /\ next.on = x /\ next.rows = rec.rows
  BY DEF GoesOn, IsRequest, Fields

LEMMA MovesSeeing ==
  ASSUME NEW rec, IsRequest(rec), NEW pc, NEW x
  PROVE  LET next == [rec EXCEPT !.saw = x, !.pc = pc]
         IN GoesOn(rec, next, pc) /\ next.on = rec.on /\ next.rows = rec.rows
  BY DEF GoesOn, IsRequest, Fields

FamilyPcs == {"setPin", "createSession", "findTarget", "listHashes", "dropSession", "answer", "complete",
              "recent?", "count", "update", "purge", "delete"}

\* The places of the family's handlers that a request of op may go on to.
Follows(op, pc) ==
    /\ pc \in FamilyPcs
    /\ pc = "setPin" => op \in {"register", "addMember", "setPin"}
    /\ pc = "listHashes" => op = "switch"
    /\ pc = "dropSession" => op = "switch"
    /\ pc = "findTarget" => op = "switch"
    /\ pc = "createSession" => op \in {"register", "switch"}
    /\ pc = "answer" => op \in {"register", "switch", "logout"}
    /\ pc = "recent?" => op \in {"switch", "setPin"}
    /\ pc = "count" => op \in RoleOps
    /\ pc = "update" => op = "updateMember"
    /\ pc = "purge" => op = "deleteMember"
    /\ pc = "delete" => op \in {"deleteMember", "deleteAccount"}
    /\ pc = "complete" => op = "complete"

LEMMA FollowsIsSound ==
  ASSUME NEW rec, Sound(rec), NEW pc, Follows(rec.op, pc), NEW next, GoesOn(rec, next, pc)
  PROVE  Sound(next)
  <1>1. rec.op \notin PageOps /\ rec.op # "switchDownloads"
    BY DEF Follows, FamilyPcs, PageOps, ListOps, GateOps, RoleOps
  <1>2. FamilySound(next) /\ NoticeSound(next)
    BY DEF Sound, FamilySound, NoticeSound, GoesOn, Follows, FamilyPcs, RoleOps
  <1>3. RuleSound(next) /\ WatchSound(next) /\ PageSound(next)
    BY <1>1 DEF RuleSound, WatchSound, PageSound, GoesOn, Follows, FamilyPcs, ListOps, Stages
  <1> QED
    BY <1>2, <1>3 DEF Sound, GoesOn, Follows, FamilyPcs

\* r ends, or goes on by a place of the family's handlers.
FamilyTurn(r) ==
    \E next : /\ Turns(r, next) /\ Sound(next)
              /\ next = Done \/ \E pc : Follows(request[r].op, pc) /\ GoesOn(request[r], next, pc)

LEMMA EndsTurn ==
  ASSUME RequestsSound, NEW r \in Requests, Reads(r, Done) \/ Commits(r, Done)
  PROVE  FamilyTurn(r)
  BY StepsTurn, FreshRequests DEF FamilyTurn, RequestsSound

LEMMA FollowsTurn ==
  ASSUME RequestsSound, NEW r \in Requests, NEW next, NEW pc, Follows(request[r].op, pc),
         GoesOn(request[r], next, pc), Reads(r, next) \/ Commits(r, next)
  PROVE  FamilyTurn(r)
  BY StepsTurn, FollowsIsSound DEF FamilyTurn, RequestsSound

LEMMA PcTurns ==
  ASSUME RequestsSound, NEW r \in Requests, NEW pc, Follows(request[r].op, pc),
         NEW next, next = [request[r] EXCEPT !.pc = pc], Reads(r, next) \/ Commits(r, next)
  PROVE  FamilyTurn(r)
  BY MovesOn, FollowsTurn DEF RequestsSound, Sound

LEMMA OnTurns ==
  ASSUME RequestsSound, NEW r \in Requests, NEW pc, Follows(request[r].op, pc), NEW x,
         NEW next, next = [request[r] EXCEPT !.on = x, !.pc = pc], Reads(r, next) \/ Commits(r, next)
  PROVE  FamilyTurn(r)
  BY MovesTo, FollowsTurn DEF RequestsSound, Sound

LEMMA FamilyTurns ==
  ASSUME RequestsSound, NEW r \in Requests, FamilyStep(r, Named)
  PROVE  FamilyTurn(r)
  <1> DEFINE rec == request[r]
  <1>1. Sound(rec) /\ IsRequest(rec)
    BY DEF RequestsSound, Sound
  <1> USE DEF Follows, FamilyPcs, At
  <1>2. ASSUME NEW a, NEW role, Inserts(r, a, role), rec.op \in {"register", "addMember"}
        PROVE  FamilyTurn(r)
    <2>1. CASE role = "parent"
      BY <1>2, <2>1, OnTurns DEF Inserts
    <2>2. CASE role # "parent"
      BY <1>2, <2>2, EndsTurn DEF Inserts
    <2> QED
      BY <2>1, <2>2
  <1>3. CASE InsertFirstAccount(r) \/ InsertLocal(r)
    <2>1. rec.op \in {"register", "addMember"}
      BY <1>1, <1>3 DEF InsertFirstAccount, InsertLocal, Sound, FamilySound
    <2> QED
      BY <1>2, <1>3, <2>1, EndsTurn DEF InsertFirstAccount, InsertLocal
  <1>4. CASE SetPinHash(r)
    BY <1>4, PcTurns, EndsTurn DEF SetPinHash
  <1>5. CASE HasFirstParent(r) \/ Complete(r)
    <2>1. HasFirstParent(r) => rec.op = "complete"
      BY <1>1 DEF HasFirstParent, Sound, FamilySound
    <2> QED
      BY <1>5, <2>1, PcTurns, EndsTurn DEF HasFirstParent, Complete
  <1>6. CASE FindTarget(r) \/ ListParentPinHashes(r)
    <2>1. rec.op = "switch"
      BY <1>1, <1>6 DEF FindTarget, ListParentPinHashes, Sound, FamilySound
    <2>2. WrongPin(r) \/ RightPin(r) => FamilyTurn(r)
      BY <2>1, PcTurns DEF WrongPin, RightPin
    <2>3. Reads(r, [rec EXCEPT !.pc = "listHashes"]) => FamilyTurn(r)
      BY <2>1, PcTurns
    <2> QED
      BY <1>6, <2>2, <2>3, EndsTurn DEF FindTarget, ListParentPinHashes
  <1>7. CASE DropSession(r)
    <2> DEFINE pc == IF rec.op = "logout" THEN "answer" ELSE "createSession"
               next == [rec EXCEPT !.pc = pc]
    <2>1. rec.op \in {"switch", "logout"}
      BY <1>1, <1>7 DEF DropSession, Sound, FamilySound
    <2>2. Follows(rec.op, pc) /\ GoesOn(rec, next, pc)
      BY <1>1, <2>1, MovesOn
    <2> QED
      BY <1>7, <2>2, FollowsTurn DEF DropSession
  <1>8. CASE CreateSession(r) \/ Answer(r)
    <2>1. CreateSession(r) => rec.op \in {"register", "switch"}
      BY <1>1 DEF CreateSession, Sound, FamilySound
    <2> QED
      BY <1>8, <2>1, PcTurns, EndsTurn DEF CreateSession, Answer
  <1>9. CASE FindSelf(r)
    <2>1. rec.op = "setPin"
      BY <1>1, <1>9 DEF FindSelf, Sound, FamilySound
    <2> QED
      BY <1>9, <2>1, PcTurns, OnTurns, EndsTurn DEF FindSelf
  <1>10. CASE FindMember(r) \/ CountParents(r)
    <2> DEFINE saw == [rec EXCEPT !.saw = accounts[rec.on].role]
    <2>1. rec.op \in RoleOps
      BY <1>1, <1>10 DEF FindMember, CountParents, Sound, FamilySound
    <2>2. Follows(rec.op, AfterGuard(rec.op)) /\ Follows(rec.op, "count")
      BY <2>1 DEF AfterGuard, RoleOps
    <2>3. ASSUME NEW pc PROVE GoesOn(rec, [saw EXCEPT !.pc = pc], pc)
      BY <1>1 DEF GoesOn, IsRequest, Fields
    <2> QED
      <3>1. CASE FindMember(r)
        BY <2>2, <2>3, <3>1, EndsTurn, FollowsTurn DEF FindMember
      <3>2. CASE CountParents(r)
        BY <2>2, <3>2, PcTurns, EndsTurn DEF CountParents
      <3> QED
        BY <1>10, <3>1, <3>2
  <1>11. CASE Update(r) \/ Delete(r, Named)
    BY <1>11, EndsTurn DEF Update, Delete
  <1>12. CASE Purge(r)
    <2>1. rec.op = "deleteMember"
      BY <1>1, <1>12 DEF Purge, Sound, FamilySound
    <2> QED
      BY <1>12, <2>1, PcTurns DEF Purge
  <1> QED
    BY <1>3, <1>4, <1>5, <1>6, <1>7, <1>8, <1>9, <1>10, <1>11, <1>12 DEF FamilyStep

-----------------------------------------------------------------------------
(* Notifications.                                                          *)

\* Where only the family's handlers are, and requests that have not begun.
Reserved == FamilyPcs \cup {"new"}

\* r ends, or goes on outside the family's handlers.
OtherTurn(r) ==
    \E next : /\ Turns(r, next) /\ Sound(next)
              /\ next = Done \/ (next.op = request[r].op /\ next.pc \notin Reserved)

LEMMA EndsOther ==
  ASSUME RequestsSound, NEW r \in Requests, Reads(r, Done) \/ Commits(r, Done)
  PROVE  OtherTurn(r)
  BY StepsTurn, FreshRequests DEF OtherTurn, RequestsSound

LEMMA SoundTurn ==
  ASSUME RequestsSound, NEW r \in Requests, NEW next, Sound(next), next.op = request[r].op,
         next.pc \notin Reserved, Reads(r, next) \/ Commits(r, next)
  PROVE  OtherTurn(r)
  BY StepsTurn DEF OtherTurn, RequestsSound

LEMMA NoticeIsSound ==
  ASSUME NEW rec, Sound(rec), NEW pc, NEW next, GoesOn(rec, next, pc),
         \/ pc \in {"parents", "tell"} /\ rec.op \in {"switch", "setPin"}
         \/ pc \in {"told?", "insert notice"} /\ rec.op = "search"
         \/ pc = "answered" /\ rec.op = "search" /\ next.rows = {}
  PROVE  Sound(next) /\ next.pc \notin Reserved
  <1>1. FamilySound(next) /\ NoticeSound(next)
    BY DEF Sound, FamilySound, NoticeSound, GoesOn
  <1>2. RuleSound(next) /\ WatchSound(next)
    BY DEF Sound, RuleSound, WatchSound, GoesOn
  <1>3. PageSound(next)
    BY DEF Sound, PageSound, GoesOn, ListOps, GateOps, PageOps, Stages
  <1> QED
    BY <1>1, <1>2, <1>3 DEF Sound, GoesOn, FamilyPcs, Reserved

NoticePcs == {"parents", "tell", "told?", "insert notice", "answered"}

\* rec goes on with what it shows.
Keeps(rec, next) ==
    Sound(next) /\ next.op = rec.op /\ next.pc \in NoticePcs \ Reserved /\ next.shown = rec.shown

LEMMA NoticeKeeps ==
  ASSUME NEW rec, Sound(rec), NEW pc, NEW next, GoesOn(rec, next, pc),
         \/ pc \in {"parents", "tell"} /\ rec.op \in {"switch", "setPin"}
         \/ pc \in {"told?", "insert notice"} /\ rec.op = "search"
         \/ pc = "answered" /\ rec.op = "search" /\ next.rows = {}
  PROVE  Keeps(rec, next)
  BY NoticeIsSound DEF Keeps, NoticePcs, GoesOn

LEMMA NoticeTurns ==
  ASSUME RequestsSound, NEW r \in Requests, NoticeStep(r)
  PROVE  /\ OtherTurn(r)
         /\ request[r].op \in PageOps => /\ request'[r].shown = request[r].shown
                                         /\ request'[r].pc \in NoticePcs
  <1> DEFINE rec == request[r]
             Fine(next) == Keeps(rec, next) \/ (next = Done /\ rec.op \notin PageOps)
  <1>1. Sound(rec) /\ IsRequest(rec)
    BY DEF RequestsSound, Sound
  <1>2. ASSUME NEW next, Fine(next), Reads(r, next) \/ Commits(r, next)
        PROVE  /\ OtherTurn(r)
               /\ rec.op \in PageOps => request'[r].shown = rec.shown /\ request'[r].pc \in NoticePcs
    <2>1. request'[r] = next
      BY <1>2, StepsTurn DEF Turns, RequestsSound
    <2>2. CASE Keeps(rec, next)
      BY <1>2, <2>1, <2>2, SoundTurn DEF Keeps
    <2>3. CASE next = Done /\ rec.op \notin PageOps
      BY <1>2, <2>3, EndsOther
    <2> QED
      BY <1>2, <2>2, <2>3
  <1>3. {"switch", "setPin"} \cap PageOps = {}
    BY DEF PageOps, ListOps, GateOps
  <1>4. At(r, "parents") \/ At(r, "told?") \/ At(r, "tell") \/ At(r, "insert notice") =>
          rec.op \in {"switch", "setPin", "search"}
    BY <1>1 DEF At, Sound, NoticeSound
  <1>5. rec.op \in {"switch", "setPin", "search"} => Fine(Told(r))
    <2>1. CASE rec.op = "search"
      <3> DEFINE next == [rec EXCEPT !.rows = {}, !.pc = "answered"]
      <3>1. GoesOn(rec, next, "answered") /\ next.rows = {}
        BY <1>1 DEF GoesOn, IsRequest, Fields
      <3>2. Keeps(rec, next)
        BY <1>1, <2>1, <3>1, NoticeKeeps
      <3> QED
        BY <2>1, <3>2 DEF Told
    <2> QED
      BY <1>3, <2>1 DEF Told
  <1>6. CASE CountRecent(r)
    <2>1. rec.op \in {"switch", "setPin"}
      BY <1>1, <1>6 DEF CountRecent, At, Sound, NoticeSound
    <2>2. GoesOn(rec, [rec EXCEPT !.pc = "parents"], "parents")
      BY <1>1, MovesOn
    <2>3. Keeps(rec, [rec EXCEPT !.pc = "parents"])
      BY <1>1, <2>1, <2>2, NoticeKeeps
    <2> QED
      BY <1>2, <1>3, <1>6, <2>1, <2>3 DEF CountRecent
  <1>7. CASE ListParents(r)
    <2> DEFINE next == [rec EXCEPT !.rows = Parents, !.pc = Telling(r)]
    <2>1. rec.op \in {"switch", "setPin", "search"}
      BY <1>4, <1>7 DEF ListParents
    <2>2. GoesOn(rec, next, Telling(r))
      BY <1>1 DEF GoesOn, IsRequest, Fields
    <2>3. Keeps(rec, next)
      BY <1>1, <2>1, <2>2, NoticeKeeps DEF Telling
    <2> QED
      BY <1>2, <1>5, <1>7, <2>1, <2>3 DEF ListParents
  <1>8. ASSUME NEW p, rec.op \in {"switch", "setPin", "search"}
        PROVE  Fine(Rest(r, p))
    <2> DEFINE next == [rec EXCEPT !.rows = @ \ {p}, !.pc = Telling(r)]
    <2>1. GoesOn(rec, next, Telling(r))
      BY <1>1 DEF GoesOn, IsRequest, Fields
    <2>2. Keeps(rec, next)
      BY <1>1, <1>8, <2>1, NoticeKeeps DEF Telling
    <2> QED
      BY <1>5, <1>8, <2>2 DEF Rest
  <1>9. CASE LookForNotice(r)
    <2>1. rec.op = "search"
      BY <1>1, <1>9 DEF LookForNotice, At, Sound, NoticeSound
    <2>2. ASSUME NEW p PROVE Keeps(rec, [rec EXCEPT !.on = p, !.pc = "insert notice"])
      <3>1. GoesOn(rec, [rec EXCEPT !.on = p, !.pc = "insert notice"], "insert notice")
        BY <1>1, MovesTo
      <3> QED
        BY <1>1, <2>1, <3>1, NoticeKeeps
    <2>3. PICK p : Reads(r, IF <<p, "search">> \in notices THEN Rest(r, p)
                            ELSE [rec EXCEPT !.on = p, !.pc = "insert notice"])
      BY <1>9 DEF LookForNotice
    <2>4. PICK next : Reads(r, next) /\ (next = Rest(r, p) \/ next = [rec EXCEPT !.on = p, !.pc = "insert notice"])
      BY <2>3
    <2>5. Fine(Rest(r, p)) /\ Fine([rec EXCEPT !.on = p, !.pc = "insert notice"])
      <3>1. Fine(Rest(r, p))
        BY <1>8, <2>1
      <3>2. Keeps(rec, [rec EXCEPT !.on = p, !.pc = "insert notice"])
        BY <2>2
      <3> QED
        BY <3>1, <3>2
    <2>6. Fine(next)
      BY <2>4, <2>5
    <2> QED
      BY <1>2, <2>4, <2>6
  <1>10. CASE InsertOne(r)
    <2>1. rec.op \in {"switch", "setPin", "search"}
      BY <1>4, <1>10 DEF InsertOne
    <2>2. PICK p : Commits(r, Rest(r, p)) \/ Reads(r, Told(r))
      BY <1>10 DEF InsertOne
    <2>3. Fine(Rest(r, p)) /\ Fine(Told(r))
      BY <1>5, <1>8, <2>1
    <2> QED
      BY <1>2, <2>2, <2>3
  <1>11. CASE Dismiss(r)
    <2>1. rec.op \notin PageOps
      BY <1>1, <1>11 DEF Dismiss, At, Sound, NoticeSound, PageOps, ListOps, GateOps
    <2> QED
      BY <1>2, <1>11, <2>1 DEF Dismiss
  <1> QED
    BY <1>6, <1>7, <1>9, <1>10, <1>11 DEF NoticeStep

-----------------------------------------------------------------------------
(* What a page knows of what it shows.                                     *)

RulesTyped ==
    /\ blocked \in [Videos -> Accounts \cup {Nobody}]
    /\ direct \in [Videos -> Accounts \cup {Nobody}]
    /\ granted \in [Channels -> Accounts \cup {Nobody}]
    /\ hidden \subseteq Videos /\ archive \subseteq Uploads
    /\ liked \in [Videos -> {"none", "live", "deleted"}]
    /\ subscribed \in [Channels -> {"none", "live", "deleted"}]
    /\ settings \in {"unset", "off", "on"}
    /\ channelOf \in [Videos -> Channels \cup {Nobody, Unborn}]
    /\ watched \in [Videos -> {"none", "started", "finished"}]
    /\ downloads \in [Videos -> {"none", "pending", "complete", "deleted"}]
    /\ searched \in BOOLEAN
    /\ ChannelsKnown

DownloadOps == {"createDownload", "streamDownload"}

\* The rules let rec show v, as far as some of the facts tell.
Allowed(rec, some, v) ==
    /\ <<"open", v>> \in some /\ <<"seen", v>> \in some
    /\ \/ <<"direct", v>> \in some
       \/ \E c \in Channels : Belongs(v, c) /\ <<"granted", c>> \in some
       \/ rec.op = "channelPage" /\ <<"subscribed", rec.on>> \in some
    /\ rec.op \in DownloadOps => <<"downloads", "on">> \in some

\* What rec has found out on its way, as far as some of the facts tell.
Knows(rec, some) ==
    /\ \A v \in rec.shown : Allowed(rec, some, v)
    /\ rec.pc \in {"hidden?", "video?", "channel?"} => <<"open", rec.row[1]>> \in some
    /\ rec.pc \in {"video?", "channel?"} => <<"seen", rec.row[1]>> \in some
    /\ rec.pc = "channel?" => rec.row[2] \in Channels
    /\ rec.pc = "uploads" => <<"granted", rec.on>> \in some \/ <<"subscribed", rec.on>> \in some
    /\ rec.pc \in Stages /\ rec.op \in DownloadOps => <<"downloads", "on">> \in some

LEMMA FactsHold ==
  /\ \A v \in Videos : blocked[v] = Nobody => <<"open", v>> \in RuleFacts
  /\ \A v \in Videos : v \notin hidden => <<"seen", v>> \in RuleFacts
  /\ \A v \in Videos : direct[v] # Nobody => <<"direct", v>> \in RuleFacts
  /\ \A c \in Channels : granted[c] # Nobody => <<"granted", c>> \in RuleFacts
  /\ \A c \in Channels : subscribed[c] = "live" => <<"subscribed", c>> \in RuleFacts
  /\ <<"downloads", settings>> \in RuleFacts
  BY DEF RuleFacts, Granted

\* A page goes on, and knows what it should.
PageGoesOn(rec, next) ==
    /\ Sound(next) /\ next.op = rec.op /\ next.pc \notin Reserved
    /\ \A some : RuleFacts \subseteq some /\ Knows(rec, some) => Knows(next, some)

LEMMA PagesApart ==
  ASSUME NEW rec, Sound(rec), rec.op \in PageOps
  PROVE  /\ rec.op \notin {"register", "addMember", "setPin", "switch", "logout", "complete", "dismiss",
                           "heartbeat", "progress"} \cup RoleOps \cup ParentOps
  BY DEF PageOps, ListOps, GateOps, RoleOps, ParentOps

PagePcs == Stages \cup {"answered", "insert download", "prior?", "log search", "subscribed?", "uploads",
                        "lookup", "write back", "unwatched", "bucket", "parents"}

LEMMA PageIsSound ==
  ASSUME NEW rec, Sound(rec), rec.op \in PageOps, NEW next, IsRequest(next),
         next.op = rec.op, next.as = rec.as, next.pin = rec.pin, next.on = rec.on,
         next.pc \in PagePcs,
         next.pc = "parents" => rec.op = "search",
         next.pc = "insert download" => rec.op = "createDownload",
         next.pc \in {"subscribed?", "uploads"} => rec.op = "channelPage",
         next.pc \in {"lookup", "write back"} => rec.op \in {"continueWatching", "watchAgain"},
         next.pc = "unwatched" => rec.op \in {"upNext", "upNextOf"},
         next.pc = "bucket" => rec.op = "upNext",
         next.pc \in {"prior?", "log search"} => rec.op = "search",
         next.pc \in Stages => next.row \in PageRows,
         next.rows \subseteq PageRows, next.shown \subseteq Videos
  PROVE  Sound(next) /\ next.pc \notin Reserved
  <1> USE DEF PagePcs, Stages
  <1>1. FamilySound(next) /\ NoticeSound(next)
    BY DEF Sound, FamilySound, NoticeSound
  <1>2. RuleSound(next)
    BY DEF Sound, RuleSound
  <1>4. WatchSound(next)
    BY DEF WatchSound
  <1>3. PageSound(next)
    BY DEF Sound, PageSound, ListOps
  <1> QED
    BY <1>1, <1>2, <1>3, <1>4 DEF Sound, FamilyPcs, Reserved

\* rec takes the next of the rows, or is through with them.
TakesRow(rec, next, shown, rows) ==
    /\ IsRequest(next) /\ next.shown = shown
    /\ next.op = rec.op /\ next.as = rec.as /\ next.pin = rec.pin /\ next.on = rec.on
    /\ \/ /\ rows = {} /\ next.rows = {}
          /\ next.pc = IF rec.op = "createDownload" /\ shown # {} THEN "insert download"
                       ELSE IF rec.op = "search" THEN "prior?" ELSE "answered"
       \/ next.pc = "blocked?" /\ next.row \in rows /\ next.rows = rows \ {next.row}

LEMMA NextRowIs ==
  ASSUME NEW rec, IsRequest(rec), NEW shown, NEW rows, NEW next \in NextRow(rec, shown, rows)
  PROVE  TakesRow(rec, next, shown, rows)
  <1>1. CASE rows = {}
    <2>1. next = [rec EXCEPT !.shown = shown, !.rows = {}, !.row = <<>>,
                             !.pc = IF rec.op = "createDownload" /\ shown # {} THEN "insert download"
                                    ELSE IF rec.op = "search" THEN "prior?" ELSE "answered"]
      BY <1>1 DEF NextRow
    <2> QED
      BY <1>1, <2>1 DEF TakesRow, IsRequest, Fields
  <1>2. CASE rows # {}
    <2>1. PICK row \in rows : next = [rec EXCEPT !.shown = shown, !.rows = rows \ {row}, !.row = row,
                                                 !.pc = "blocked?"]
      BY <1>2 DEF NextRow
    <2> QED
      BY <2>1 DEF TakesRow, IsRequest, Fields
  <1> QED
    BY <1>1, <1>2

LEMMA NextRowIsSound ==
  ASSUME NEW rec, Sound(rec), rec.op \in PageOps, NEW shown \in SUBSET Videos,
         NEW rows \in SUBSET PageRows, NEW next, TakesRow(rec, next, shown, rows)
  PROVE  Sound(next) /\ next.op = rec.op /\ next.pc \notin Reserved
  <1>1. /\ IsRequest(next) /\ next.op = rec.op /\ next.as = rec.as /\ next.pin = rec.pin
        /\ next.on = rec.on /\ next.shown \subseteq Videos /\ next.rows \subseteq PageRows
        /\ next.pc \in {"blocked?", "insert download", "prior?", "answered"}
        /\ next.pc = "insert download" => rec.op = "createDownload"
        /\ next.pc = "prior?" => rec.op = "search"
        /\ next.pc = "blocked?" => next.row \in PageRows
    BY DEF TakesRow
  <1>2. next.pc \in Stages => next.pc = "blocked?"
    BY <1>1 DEF Stages
  <1>3. next.pc \in PagePcs
    BY <1>1 DEF PagePcs, Stages
  <1> QED
    BY <1>1, <1>2, <1>3, PageIsSound

LEMMA NextRowKnows ==
  ASSUME NEW rec, NEW some, NEW shown, NEW rows, NEW next, TakesRow(rec, next, shown, rows),
         \A v \in shown : Allowed(rec, some, v),
         rec.op \in DownloadOps => <<"downloads", "on">> \in some
  PROVE  Knows(next, some)
  <1>1. /\ next.shown = shown /\ next.op = rec.op /\ next.on = rec.on
        /\ next.pc \in {"blocked?", "insert download", "prior?", "answered"}
    BY DEF TakesRow
  <1>2. \A v \in next.shown : Allowed(next, some, v)
    BY <1>1 DEF Allowed
  <1> QED
    BY <1>1, <1>2 DEF Knows

-----------------------------------------------------------------------------
(* The pages' steps.                                                       *)

LEMMA RowsKnown ==
  ASSUME RulesTyped
  PROVE  /\ \A v \in Videos : channelOf[v] # Unborn => <<v, channelOf[v]>> \in PageRows
         /\ \A v \in Videos : <<v, TrueChannel[v]>> \in PageRows
         /\ \A c : Listed(c) \subseteq PageRows
         /\ \A c : UploadsOf(c) \subseteq Videos
         /\ \A c : \A v \in UploadsOf(c) : /\ v \in Videos /\ c \in Channels /\ Belongs(v, c)
                                           /\ channelOf[v] # Unborn
  <1>1. ASSUME NEW v \in Videos, channelOf[v] # Unborn PROVE <<v, channelOf[v]>> \in PageRows
    BY <1>1 DEF RulesTyped, ChannelsKnown, PageRows
  <1>2. ASSUME NEW v \in Videos PROVE <<v, TrueChannel[v]>> \in PageRows
    BY TrueChannelAssumption DEF PageRows, Belongs
  <1>3. ASSUME NEW c, NEW v \in UploadsOf(c)
        PROVE  v \in Videos /\ c \in Channels /\ <<c, v>> \in archive
    <2>1. PICK row \in archive : row[1] = c /\ row[2] = v
      BY <1>3 DEF UploadsOf
    <2>2. row \in Channels \X Videos
      BY UploadsAssumption DEF RulesTyped
    <2> QED
      BY <2>1, <2>2
  <1>4. ASSUME NEW c, NEW v \in UploadsOf(c) PROVE Belongs(v, c) /\ channelOf[v] # Unborn
    BY <1>3 DEF RulesTyped, ChannelsKnown, Belongs
  <1>5. ASSUME NEW c, NEW v \in UploadsOf(c) PROVE <<v, c>> \in PageRows
    BY <1>3, <1>4 DEF PageRows
  <1> QED
    BY <1>1, <1>2, <1>3, <1>4, <1>5 DEF Listed

PageMove(r) ==
    \E next : (Reads(r, next) \/ Commits(r, next)) /\ PageGoesOn(request[r], next)

LEMMA RequestIsSound ==
  ASSUME RequestsSound, NEW r \in Requests
  PROVE  Sound(request[r]) /\ IsRequest(request[r])
  BY DEF RequestsSound, Sound

LEMMA TakesRowMoves ==
  ASSUME RequestsSound, NEW r \in Requests, request[r].op \in PageOps, NEW shown \in SUBSET Videos,
         NEW rows \in SUBSET PageRows, NEW next \in NextRow(request[r], shown, rows),
         Reads(r, next) \/ Commits(r, next),
         \A some : RuleFacts \subseteq some /\ Knows(request[r], some) =>
                      /\ \A v \in shown : Allowed(request[r], some, v)
                      /\ request[r].op \in DownloadOps => <<"downloads", "on">> \in some
  PROVE  PageMove(r)
  <1>1. TakesRow(request[r], next, shown, rows)
    BY NextRowIs, RequestIsSound
  <1>2. Sound(next) /\ next.op = request[r].op /\ next.pc \notin Reserved
    BY <1>1, NextRowIsSound, RequestIsSound
  <1> QED
    BY <1>1, <1>2, NextRowKnows DEF PageGoesOn, PageMove

LEMMA AsksMoves ==
  ASSUME RequestsSound, NEW r \in Requests, request[r].op \in PageOps, NEW rows \in SUBSET PageRows,
         Asks(r, rows) \/ \E next \in NextRow(request[r], {}, rows) : Commits(r, next),
         request[r].op \in DownloadOps => settings = "on"
  PROVE  PageMove(r)
  <1>1. PICK next \in NextRow(request[r], {}, rows) : Reads(r, next) \/ Commits(r, next)
    BY DEF Asks
  <1>2. ASSUME NEW some, RuleFacts \subseteq some, request[r].op \in DownloadOps
        PROVE  <<"downloads", "on">> \in some
    BY <1>2, FactsHold
  <1> QED
    BY <1>1, <1>2, TakesRowMoves

LEMMA GateMoves ==
  ASSUME RequestsSound, RulesTyped, NEW r \in Requests, Gate(r)
  PROVE  PageMove(r)
  <1> DEFINE rec == request[r]
             v == rec.row[1]
             c == rec.row[2]
             verdict == CanChildView(rec.pc, v, c)
             shown == IF verdict = "show" THEN rec.shown \cup {v} ELSE rec.shown
  <1>1. Sound(rec) /\ IsRequest(rec)
    BY RequestIsSound
  <1>2. /\ rec.pc \in Stages /\ rec.op \in PageOps /\ rec.row \in PageRows /\ rec.rows \subseteq PageRows
        /\ rec.shown \subseteq Videos
    BY <1>1 DEF Gate, Sound, PageSound, Stages
  <1>3. v \in Videos /\ c \in Channels \cup {Nobody} /\ (c \in Channels => Belongs(v, c))
    BY <1>2 DEF PageRows
  <1>4. CASE verdict \in Stages
    <2> DEFINE next == [rec EXCEPT !.pc = verdict]
    <2>1. Reads(r, next)
      BY <1>4 DEF Gate
    <2>2. /\ GoesOn(rec, next, verdict) /\ next.on = rec.on /\ next.rows = rec.rows
          /\ next.row = rec.row
      BY <1>1, MovesOn
    <2> HIDE DEF next
    <2>3. Sound(next) /\ next.pc \notin Reserved
      BY <1>1, <1>2, <1>4, <2>2, PageIsSound DEF GoesOn, PagePcs, Stages
    <2>4. ASSUME NEW some, RuleFacts \subseteq some, Knows(rec, some) PROVE Knows(next, some)
      <3>1. \A w \in next.shown : Allowed(next, some, w)
        BY <2>2, <2>4 DEF GoesOn, Knows, Allowed
      <3>2. next.pc = verdict /\ next.row = rec.row /\ next.op = rec.op
        BY <2>2 DEF GoesOn
      <3>3. rec.op \in DownloadOps => <<"downloads", "on">> \in some
        BY <1>2, <2>4 DEF Knows
      <3>4. verdict \in {"hidden?", "video?", "channel?"} => <<"open", v>> \in some
        BY <1>2, <1>3, <2>4, FactsHold DEF CanChildView, Knows, Stages
      <3>5. verdict \in {"video?", "channel?"} => <<"seen", v>> \in some
        BY <1>2, <1>3, <2>4, FactsHold DEF CanChildView, Knows, Stages
      <3>6. verdict = "channel?" => c \in Channels
        BY <1>2, <1>3 DEF CanChildView, Stages
      <3> QED
        BY <1>2, <1>4, <3>1, <3>2, <3>3, <3>4, <3>5, <3>6 DEF Knows, Stages
    <2> QED
      BY <2>1, <2>2, <2>3, <2>4 DEF PageMove, PageGoesOn, GoesOn
  <1>5. CASE verdict \notin Stages
    <2>1. PICK next \in NextRow(rec, shown, rec.rows) : Reads(r, next)
      BY <1>5 DEF Gate
    <2>2. shown \in SUBSET Videos
      BY <1>2, <1>3
    <2>3. ASSUME NEW some, RuleFacts \subseteq some, Knows(rec, some)
          PROVE  /\ \A w \in shown : Allowed(rec, some, w)
                 /\ rec.op \in DownloadOps => <<"downloads", "on">> \in some
      <3>1. rec.op \in DownloadOps => <<"downloads", "on">> \in some
        BY <1>2, <2>3 DEF Knows
      <3>2. \A w \in rec.shown : Allowed(rec, some, w)
        BY <2>3 DEF Knows
      <3>3. ASSUME verdict = "show" PROVE Allowed(rec, some, v)
        <4>1. <<"open", v>> \in some /\ <<"seen", v>> \in some
          BY <1>2, <2>3, <3>3 DEF CanChildView, Knows, Stages
        <4>2. CASE direct[v] # Nobody
          BY <1>3, <2>3, <3>1, <4>1, <4>2, FactsHold DEF Allowed
        <4>3. CASE direct[v] = Nobody
          <5>1. rec.pc = "channel?" /\ granted[c] # Nobody
            BY <1>2, <3>3, <4>3 DEF CanChildView, Stages
          <5>2. c \in Channels
            BY <2>3, <5>1 DEF Knows
          <5> QED
            BY <1>3, <2>3, <3>1, <4>1, <5>1, <5>2, FactsHold DEF Allowed
        <4> QED
          BY <4>2, <4>3
      <3> QED
        BY <3>1, <3>2, <3>3
    <2> QED
      BY <1>2, <2>1, <2>2, <2>3, TakesRowMoves
  <1> QED
    BY <1>4, <1>5

LEMMA ListMoves ==
  ASSUME RequestsSound, RulesTyped, NEW r \in Requests, ListAtOnce(r)
  PROVE  PageMove(r)
  <1> DEFINE rec == request[r]
  <1>1. Sound(rec) /\ IsRequest(rec)
    BY RequestIsSound
  <1>2. rec.op \in {"newVideos", "likes"} /\ rec.op \in PageOps /\ rec.rows \subseteq PageRows
    BY <1>1 DEF ListAtOnce, At, Sound, PageSound, ListOps, PageOps
  <1>3. PICK vs : /\ Shows(r, vs)
                  /\ \A v \in vs : /\ v \in Videos /\ Clear(v)
                                   /\ \/ direct[v] # Nobody
                                      \/ \E c \in Granted : Belongs(v, c)
    <2>1. CASE At(r, "newVideos")
      <3>1. Shows(r, {v \in UNION {UploadsOf(c) : c \in Granted} : Clear(v)})
        BY <2>1 DEF ListAtOnce, At
      <3>2. \A v \in UNION {UploadsOf(c) : c \in Granted} : v \in Videos /\ \E c \in Granted : Belongs(v, c)
        BY RowsKnown
      <3> QED
        BY <3>1, <3>2
    <2>2. CASE At(r, "likes")
      <3>1. Shows(r, {v \in Videos : liked[v] = "live" /\ Clear(v)
                                     /\ (direct[v] # Nobody \/ channelOf[v] \in Granted)})
        BY <2>2 DEF ListAtOnce, At
      <3>2. \A v \in Videos : channelOf[v] \in Granted => Belongs(v, channelOf[v])
        BY DEF RulesTyped, ChannelsKnown, Granted
      <3> QED
        BY <3>1, <3>2
    <2> QED
      BY <2>1, <2>2 DEF ListAtOnce
  <1> DEFINE next == [rec EXCEPT !.shown = vs, !.pc = "answered"]
  <1>4. /\ IsRequest(next) /\ next.op = rec.op /\ next.as = rec.as /\ next.pin = rec.pin
        /\ next.on = rec.on /\ next.pc = "answered" /\ next.rows = rec.rows /\ next.shown = vs
    BY <1>1 DEF IsRequest, Fields
  <1>5. Reads(r, next)
    BY <1>3 DEF Shows
  <1> HIDE DEF next
  <1>6. Sound(next) /\ next.pc \notin Reserved
    BY <1>1, <1>2, <1>3, <1>4, PageIsSound DEF PagePcs, Stages
  <1>7. ASSUME NEW some, RuleFacts \subseteq some PROVE Knows(next, some)
    <2>1. ASSUME NEW v \in vs PROVE Allowed(next, some, v)
      <3>1. v \in Videos /\ blocked[v] = Nobody /\ v \notin hidden
        BY <1>3 DEF Clear
      <3>2. direct[v] # Nobody \/ \E c \in Channels : granted[c] # Nobody /\ Belongs(v, c)
        BY <1>3 DEF Granted
      <3>3. next.op \notin DownloadOps
        BY <1>2, <1>4 DEF DownloadOps
      <3> QED
        BY <1>7, <3>1, <3>2, <3>3, FactsHold DEF Allowed
    <2> QED
      BY <1>4, <2>1 DEF Knows, Stages
  <1> QED
    BY <1>4, <1>5, <1>6, <1>7 DEF PageMove, PageGoesOn

LEMMA ChannelPageMoves ==
  ASSUME RequestsSound, RulesTyped, NEW r \in Requests, EnforceChannelAccess(r)
  PROVE  PageMove(r)
  <1> DEFINE rec == request[r]
             c == rec.on
  <1>1. Sound(rec) /\ IsRequest(rec)
    BY RequestIsSound
  <1>2. rec.op = "channelPage" /\ rec.op \in PageOps /\ c \in Channels /\ rec.rows \subseteq PageRows
        /\ rec.shown \subseteq Videos
    BY <1>1 DEF EnforceChannelAccess, At, Sound, PageSound, ListOps, PageOps
  <1>3. ASSUME NEW pc \in {"uploads", "subscribed?", "answered"}, Reads(r, [rec EXCEPT !.pc = pc]),
               pc = "uploads" => granted[c] # Nobody \/ subscribed[c] = "live"
        PROVE  PageMove(r)
    <2> DEFINE next == [rec EXCEPT !.pc = pc]
    <2>1. GoesOn(rec, next, pc) /\ next.on = c /\ next.rows = rec.rows
      BY <1>1, MovesOn
    <2> HIDE DEF next
    <2>2. Sound(next) /\ next.pc \notin Reserved
      BY <1>1, <1>2, <2>1, PageIsSound DEF GoesOn, PagePcs, Stages
    <2>3. ASSUME NEW some, RuleFacts \subseteq some, Knows(rec, some) PROVE Knows(next, some)
      <3>1. \A v \in next.shown : Allowed(next, some, v)
        BY <2>1, <2>3 DEF GoesOn, Knows, Allowed
      <3> QED
        BY <1>2, <1>3, <2>1, <2>3, <3>1, FactsHold DEF Knows, GoesOn, Stages
    <2> QED
      BY <1>3, <2>1, <2>2, <2>3 DEF PageMove, PageGoesOn, GoesOn, next
  <1>4. CASE At(r, "channelPage")
    BY <1>3, <1>4 DEF EnforceChannelAccess, At
  <1>5. CASE At(r, "subscribed?")
    BY <1>3, <1>5 DEF EnforceChannelAccess, At
  <1>6. CASE At(r, "uploads")
    <2> DEFINE vs == {v \in UploadsOf(c) : Clear(v)}
               next == [rec EXCEPT !.shown = vs, !.pc = "answered"]
    <2>1. Reads(r, next)
      BY <1>6 DEF EnforceChannelAccess, At, Shows
    <2>2. /\ IsRequest(next) /\ next.op = rec.op /\ next.as = rec.as /\ next.pin = rec.pin
          /\ next.on = rec.on /\ next.pc = "answered" /\ next.rows = rec.rows /\ next.shown = vs
      BY <1>1 DEF IsRequest, Fields
    <2>3. \A v \in vs : v \in Videos /\ Belongs(v, c) /\ blocked[v] = Nobody /\ v \notin hidden
      BY RowsKnown DEF Clear
    <2> HIDE DEF next
    <2>4. Sound(next) /\ next.pc \notin Reserved
      BY <1>1, <1>2, <2>2, <2>3, PageIsSound DEF PagePcs, Stages
    <2>5. ASSUME NEW some, RuleFacts \subseteq some, Knows(rec, some) PROVE Knows(next, some)
      <3>1. <<"granted", c>> \in some \/ <<"subscribed", c>> \in some
        BY <1>6, <2>5 DEF Knows, At
      <3>2. next.op \notin DownloadOps
        BY <1>2, <2>2 DEF DownloadOps
      <3>3. \A v \in vs : Allowed(next, some, v)
        BY <1>2, <2>2, <2>3, <2>5, <3>1, <3>2, FactsHold DEF Allowed
      <3> QED
        BY <2>2, <3>3 DEF Knows, Stages
    <2> QED
      BY <2>1, <2>2, <2>4, <2>5 DEF PageMove, PageGoesOn
  <1> QED
    BY <1>4, <1>5, <1>6 DEF EnforceChannelAccess

\* A page goes on with other rows, shows what it did and asks no gate.
LEMMA PlainMoves ==
  ASSUME RequestsSound, NEW r \in Requests, request[r].op \in PageOps,
         NEW next, Reads(r, next) \/ Commits(r, next), NEW pc \in PagePcs, GoesOn(request[r], next, pc),
         next.on = request[r].on, next.rows \subseteq PageRows,
         pc \notin Stages \cup {"uploads", "subscribed?"},
         pc = "parents" => request[r].op = "search",
         pc = "insert download" => request[r].op = "createDownload",
         pc \in {"lookup", "write back"} => request[r].op \in {"continueWatching", "watchAgain"},
         pc = "unwatched" => request[r].op \in {"upNext", "upNextOf"},
         pc = "bucket" => request[r].op = "upNext",
         pc \in {"prior?", "log search"} => request[r].op = "search"
  PROVE  PageMove(r)
  <1> DEFINE rec == request[r]
  <1>1. Sound(rec) /\ IsRequest(rec) /\ rec.shown \subseteq Videos
    BY RequestIsSound DEF Sound, PageSound
  <1>2. Sound(next) /\ next.pc \notin Reserved
    BY <1>1, PageIsSound DEF GoesOn
  <1>3. ASSUME NEW some, Knows(rec, some) PROVE Knows(next, some)
    <2>1. \A v \in next.shown : Allowed(next, some, v)
      BY <1>3 DEF Knows, Allowed, GoesOn
    <2> QED
      BY <2>1 DEF Knows, GoesOn, Stages
  <1> QED
    BY <1>2, <1>3 DEF PageMove, PageGoesOn, GoesOn

LEMMA SearchMoves ==
  ASSUME RequestsSound, RulesTyped, NEW r \in Requests,
         Search(r) \/ LookForPrior(r) \/ LogSearch(r)
  PROVE  PageMove(r)
  <1> DEFINE rec == request[r]
  <1>1. Sound(rec) /\ IsRequest(rec)
    BY RequestIsSound
  <1>2. rec.op = "search" /\ rec.op \in PageOps /\ rec.op \notin DownloadOps
    BY <1>1 DEF Search, LookForPrior, LogSearch, At, Sound, PageSound, ListOps, PageOps, DownloadOps
  <1>3. rec.pc \in {"search", "prior?", "log search"}
    BY DEF Search, LookForPrior, LogSearch, At
  <1>4. rec.rows \subseteq PageRows
    BY <1>1, <1>2, <1>3 DEF Sound, PageSound
  <1>5. CASE Search(r)
    <2> DEFINE vs == {w \in Videos : direct[w] # Nobody \/ watched[w] # "none"}
                     \cup UNION {UploadsOf(c) : c \in Granted}
               rows == {<<v, channelOf[v]>> : v \in vs}
    <2>1. \A v \in vs : v \in Videos /\ channelOf[v] # Unborn
      BY RowsKnown DEF RulesTyped, ChannelsKnown
    <2>2. rows \subseteq PageRows
      BY <2>1, RowsKnown
    <2>3. Asks(r, rows)
      BY <1>5 DEF Search
    <2> QED
      BY <1>2, <2>2, <2>3, AsksMoves
  <1>6. CASE LookForPrior(r)
    <2> DEFINE next == [rec EXCEPT !.saw = searched, !.pc = "log search"]
    <2>1. Reads(r, next)
      BY <1>6 DEF LookForPrior
    <2>2. GoesOn(rec, next, "log search") /\ next.on = rec.on /\ next.rows = rec.rows
      BY <1>1, MovesSeeing
    <2> HIDE DEF next
    <2> QED
      BY <1>2, <1>4, <2>1, <2>2, PlainMoves DEF PagePcs, Stages
  <1>7. CASE LogSearch(r)
    <2> DEFINE pc == IF rec.saw THEN "answered" ELSE "parents"
               next == [rec EXCEPT !.pc = pc]
    <2>1. Commits(r, next)
      BY <1>7 DEF LogSearch
    <2>2. GoesOn(rec, next, pc) /\ next.on = rec.on /\ next.rows = rec.rows
      BY <1>1, MovesOn
    <2>3. pc = "answered" \/ pc = "parents"
      OBVIOUS
    <2> HIDE DEF next, pc
    <2> QED
      BY <1>2, <1>4, <2>1, <2>2, <2>3, PlainMoves DEF PagePcs, Stages
  <1> QED
    BY <1>5, <1>6, <1>7

LEMMA ResolvedRows ==
  ASSUME RulesTyped, NEW row \in PageRows
  PROVE  Resolve(row) \in PageRows /\ Resolve(row)[1] = row[1]
  <1> DEFINE cs == {c \in Channels : <<c, row[1]>> \in archive}
             most == CHOOSE c \in cs : \A d \in cs : d <= c
  <1>1. PICK v \in Videos, c \in Channels \cup {Nobody} : row = <<v, c>>
    BY DEF PageRows
  <1>2. CASE row[2] # Nobody \/ cs = {}
    BY <1>2 DEF Resolve
  <1>3. CASE ~(row[2] # Nobody \/ cs = {})
    <2>1. Resolve(row) = <<v, most>>
      BY <1>1, <1>3 DEF Resolve
    <2>2. most \in cs
      BY <1>3, LargestAssumption
    <2>3. most \in Channels /\ Belongs(v, most)
      BY <1>1, <2>2 DEF RulesTyped, Belongs
    <2> HIDE DEF most, cs
    <2> QED
      BY <1>1, <2>1, <2>3 DEF PageRows
  <1> QED
    BY <1>2, <1>3

LEMMA WatchPageMoves ==
  ASSUME RequestsSound, RulesTyped, NEW r \in Requests,
         WatchHistory(r) \/ LookupChannelIds(r) \/ BackfillVideoChannelIds(r)
  PROVE  PageMove(r)
  <1> DEFINE rec == request[r]
  <1>1. Sound(rec) /\ IsRequest(rec)
    BY RequestIsSound
  <1>2. rec.pc \in {"continueWatching", "watchAgain", "lookup", "write back"}
    BY DEF WatchHistory, LookupChannelIds, BackfillVideoChannelIds, At
  <1>3. rec.op \in {"continueWatching", "watchAgain"}
    BY <1>1, <1>2 DEF Sound, PageSound, ListOps
  <1>4. rec.op \in PageOps /\ rec.op \notin DownloadOps
    BY <1>3 DEF PageOps, ListOps, DownloadOps
  <1>5. rec.rows \subseteq PageRows
    BY <1>1, <1>2, <1>4 DEF Sound, PageSound
  <1>6. ASSUME NEW rows \in SUBSET PageRows, NEW pc \in {"lookup", "write back"},
               Reads(r, [rec EXCEPT !.rows = rows, !.pc = pc])
        PROVE  PageMove(r)
    <2> DEFINE next == [rec EXCEPT !.rows = rows, !.pc = pc]
    <2>1. GoesOn(rec, next, pc) /\ next.on = rec.on /\ next.rows = rows
      BY <1>1 DEF GoesOn, IsRequest, Fields
    <2> HIDE DEF next
    <2> QED
      BY <1>3, <1>4, <1>6, <2>1, PlainMoves DEF PagePcs, Stages, next
  <1>7. CASE WatchHistory(r)
    <2> DEFINE kept == {v \in Videos : watched[v] = Keep(rec.op)}
               rows == {<<v, channelOf[v]>> : v \in kept}
    <2>1. \A v \in kept : v \in Videos /\ channelOf[v] # Unborn
      BY DEF RulesTyped, ChannelsKnown, Keep
    <2>2. rows \in SUBSET PageRows
      BY <2>1, RowsKnown
    <2>3. Asks(r, rows) \/ Reads(r, [rec EXCEPT !.rows = rows, !.pc = "lookup"])
      BY <1>7 DEF WatchHistory
    <2> QED
      BY <1>4, <1>6, <2>2, <2>3, AsksMoves
  <1>8. CASE LookupChannelIds(r)
    <2> DEFINE rows == {Resolve(row) : row \in rec.rows}
    <2>1. rows \in SUBSET PageRows
      BY <1>5, ResolvedRows
    <2>2. Reads(r, [rec EXCEPT !.rows = rows, !.pc = "write back"])
      BY <1>8 DEF LookupChannelIds
    <2> QED
      BY <1>6, <2>1, <2>2
  <1>9. CASE BackfillVideoChannelIds(r)
    <2>1. \E next \in NextRow(rec, {}, rec.rows) : Commits(r, next)
      BY <1>9 DEF BackfillVideoChannelIds
    <2> QED
      BY <1>4, <1>5, <2>1, AsksMoves
  <1> QED
    BY <1>7, <1>8, <1>9

LEMMA UpNextMoves ==
  ASSUME RequestsSound, RulesTyped, NEW r \in Requests,
         UpNextFromChannel(r) \/ UpNextFromNewVideos(r) \/ UpNext(r)
  PROVE  PageMove(r)
  <1> DEFINE rec == request[r]
  <1>1. Sound(rec) /\ IsRequest(rec)
    BY RequestIsSound
  <1>2. rec.pc \in {"upNextOf", "upNext", "bucket", "unwatched"}
    BY DEF UpNextFromChannel, UpNextFromNewVideos, UpNext, At
  <1>3. /\ rec.op \in {"upNext", "upNextOf"}
        /\ rec.pc \in {"upNext", "bucket"} => rec.op = "upNext"
    BY <1>1, <1>2 DEF Sound, PageSound, ListOps
  <1>4. rec.op \in PageOps /\ rec.op \notin DownloadOps
    BY <1>3 DEF PageOps, ListOps, DownloadOps
  <1>5. rec.rows \subseteq PageRows
    BY <1>1, <1>2, <1>4 DEF Sound, PageSound
  <1>6. ASSUME NEW next, Reads(r, next), NEW pc \in {"unwatched", "bucket"}, GoesOn(rec, next, pc),
               next.on = rec.on, next.rows \subseteq PageRows, pc = "bucket" => rec.op = "upNext"
        PROVE  PageMove(r)
    BY <1>3, <1>4, <1>6, PlainMoves DEF PagePcs, Stages
  <1>7. CASE UpNextFromChannel(r)
    <2> DEFINE rows == Listed(rec.on)
    <2>1. Reads(r, [rec EXCEPT !.rows = rows, !.pc = "unwatched"])
      BY <1>7 DEF UpNextFromChannel
    <2>2. rows \subseteq PageRows
      BY RowsKnown
    <2>3. LET next == [rec EXCEPT !.rows = rows, !.pc = "unwatched"]
          IN GoesOn(rec, next, "unwatched") /\ next.on = rec.on /\ next.rows = rows
      BY <1>1 DEF GoesOn, IsRequest, Fields
    <2> QED
      BY <1>6, <2>1, <2>2, <2>3
  <1>8. CASE UpNextFromNewVideos(r)
    <2>1. CASE At(r, "upNext")
      <3> DEFINE next == [rec EXCEPT !.saw = Granted, !.pc = "bucket"]
      <3>1. Reads(r, next) /\ rec.op = "upNext"
        BY <1>3, <1>8, <2>1 DEF UpNextFromNewVideos, At
      <3>2. GoesOn(rec, next, "bucket") /\ next.on = rec.on /\ next.rows = rec.rows
        BY <1>1, MovesSeeing
      <3> QED
        BY <1>5, <1>6, <3>1, <3>2
    <2>2. CASE At(r, "bucket") /\ rec.saw = {}
      <3> DEFINE next == [rec EXCEPT !.pc = "unwatched"]
      <3>1. Reads(r, next)
        BY <1>8, <2>2 DEF UpNextFromNewVideos, At
      <3>2. GoesOn(rec, next, "unwatched") /\ next.on = rec.on /\ next.rows = rec.rows
        BY <1>1, MovesOn
      <3> QED
        BY <1>5, <1>6, <3>1, <3>2
    <2>3. CASE At(r, "bucket") /\ rec.saw # {}
      <3>1. PICK c \in rec.saw : Reads(r, [rec EXCEPT !.rows = @ \cup Listed(c), !.saw = @ \ {c}])
        BY <1>8, <2>3 DEF UpNextFromNewVideos, At
      <3> DEFINE next == [rec EXCEPT !.rows = @ \cup Listed(c), !.saw = @ \ {c}]
      <3>2. GoesOn(rec, next, "bucket") /\ next.on = rec.on /\ next.rows = rec.rows \cup Listed(c)
        BY <1>1, <2>3 DEF GoesOn, IsRequest, Fields, At
      <3>3. next.rows \subseteq PageRows
        BY <1>5, <3>2, RowsKnown
      <3>4. rec.op = "upNext"
        BY <1>3, <2>3 DEF At
      <3> QED
        BY <1>6, <3>1, <3>2, <3>3, <3>4
    <2> QED
      BY <1>8, <2>1, <2>2, <2>3 DEF UpNextFromNewVideos
  <1>9. CASE UpNext(r)
    <2>1. Asks(r, {row \in rec.rows : watched[row[1]] = "none"})
      BY <1>9 DEF UpNext
    <2> QED
      BY <1>4, <1>5, <2>1, AsksMoves
  <1> QED
    BY <1>7, <1>8, <1>9

LEMMA GatedMoves ==
  ASSUME RequestsSound, RulesTyped, NEW r \in Requests,
         Extracted(r) \/ EnsureDownloadsEnabled(r) \/ InsertDownload(r)
  PROVE  PageMove(r)
  <1> DEFINE rec == request[r]
             rows == {<<rec.on, TrueChannel[rec.on]>>}
  <1>1. Sound(rec) /\ IsRequest(rec)
    BY RequestIsSound
  <1>2. /\ rec.op \in GateOps
        /\ rec.pc = "stream" => rec.op = "stream"
        /\ rec.pc = "insert download" => rec.op = "createDownload"
    BY <1>1 DEF Extracted, EnsureDownloadsEnabled, InsertDownload, At, Sound, PageSound, GateOps
  <1>3. rec.op \in PageOps /\ rec.on \in Videos
    BY <1>1, <1>2 DEF Sound, PageSound, PageOps
  <1>4. rows \in SUBSET PageRows
    BY <1>3, RowsKnown
  <1>5. rec.rows \subseteq PageRows
    BY <1>1, <1>3 DEF Extracted, EnsureDownloadsEnabled, InsertDownload, At, Sound, PageSound
  <1>6. CASE Extracted(r)
    <2>1. rec.op \notin DownloadOps
      BY <1>2, <1>6 DEF Extracted, At, DownloadOps
    <2>2. Asks(r, rows)
      BY <1>6 DEF Extracted
    <2> QED
      BY <1>3, <1>4, <2>1, <2>2, AsksMoves
  <1>7. CASE EnsureDownloadsEnabled(r) /\ settings = "on"
    <2>1. Asks(r, rows)
      BY <1>7 DEF EnsureDownloadsEnabled
    <2> QED
      BY <1>3, <1>4, <1>7, <2>1, AsksMoves
  <1>8. CASE EnsureDownloadsEnabled(r) /\ settings # "on"
    <2> DEFINE next == [rec EXCEPT !.shown = {}, !.pc = "answered"]
    <2>1. Reads(r, next)
      BY <1>8 DEF EnsureDownloadsEnabled, Shows
    <2>2. /\ IsRequest(next) /\ next.op = rec.op /\ next.as = rec.as /\ next.pin = rec.pin
          /\ next.on = rec.on /\ next.pc = "answered" /\ next.rows = rec.rows /\ next.shown = {}
      BY <1>1 DEF IsRequest, Fields
    <2> HIDE DEF next
    <2>3. Sound(next) /\ next.pc \notin Reserved
      BY <1>1, <1>3, <1>5, <2>2, PageIsSound DEF PagePcs, Stages
    <2>4. ASSUME NEW some PROVE Knows(next, some)
      BY <2>2 DEF Knows, Stages
    <2> QED
      BY <2>1, <2>2, <2>3, <2>4 DEF PageMove, PageGoesOn
  <1>9. CASE InsertDownload(r)
    <2> DEFINE next == [rec EXCEPT !.pc = "answered"]
    <2>1. Commits(r, next)
      BY <1>9 DEF InsertDownload
    <2>2. GoesOn(rec, next, "answered") /\ next.on = rec.on /\ next.rows = rec.rows
      BY <1>1, MovesOn
    <2> HIDE DEF next
    <2> QED
      BY <1>3, <1>5, <2>1, <2>2, PlainMoves DEF PagePcs, Stages
  <1> QED
    BY <1>6, <1>7, <1>8, <1>9


-----------------------------------------------------------------------------
(* Rules, marks and heartbeats.                                            *)

PageStep(r) ==
    \/ Gate(r) \/ ListAtOnce(r) \/ EnforceChannelAccess(r) \/ Search(r) \/ LookForPrior(r)
    \/ LogSearch(r) \/ WatchHistory(r) \/ LookupChannelIds(r) \/ BackfillVideoChannelIds(r)
    \/ UpNextFromChannel(r) \/ UpNextFromNewVideos(r) \/ UpNext(r) \/ Extracted(r)
    \/ EnsureDownloadsEnabled(r) \/ InsertDownload(r)

LEMMA PagesMove ==
  ASSUME RequestsSound, RulesTyped, NEW r \in Requests, PageStep(r)
  PROVE  PageMove(r)
  BY GateMoves, ListMoves, ChannelPageMoves, SearchMoves, WatchPageMoves, UpNextMoves, GatedMoves
     DEF PageStep

LEMMA PageTurns ==
  ASSUME RequestsSound, NEW r \in Requests, PageMove(r)
  PROVE  OtherTurn(r)
  BY SoundTurn DEF PageMove, PageGoesOn

EndStep(r) ==
    \/ AddBlocked(r) \/ DeleteBlocked(r) \/ AddVideo(r) \/ DeleteVideo(r) \/ AddChannel(r)
    \/ DeleteChannel(r) \/ UpdateSettings(r) \/ Hide(r) \/ Like(r) \/ Subscribe(r) \/ UpdateDownload(r)

LEMMA EndsCommit ==
  ASSUME NEW r, EndStep(r)
  PROVE  Commits(r, Done)
  BY DEF EndStep, AddBlocked, DeleteBlocked, AddVideo, DeleteVideo, AddChannel, DeleteChannel,
         UpdateSettings, Hide, Like, Subscribe, UpdateDownload

LEMMA SettingsTurn ==
  ASSUME RequestsSound, NEW r \in Requests, RequireChild(r) \/ EnsureSettingsRow(r)
  PROVE  OtherTurn(r)
  <1> DEFINE rec == request[r]
  <1>1. Sound(rec) /\ IsRequest(rec)
    BY RequestIsSound
  <1>2. rec.op \in ParentOps /\ (EnsureSettingsRow(r) => rec.op = "switchDownloads")
    BY <1>1 DEF RequireChild, EnsureSettingsRow, At, Sound, RuleSound, ParentOps
  <1>3. ASSUME NEW pc \in ParentOps \cup {"update settings"},
               pc \in {"switchDownloads", "update settings"} => rec.op = "switchDownloads",
               NEW next, next = [rec EXCEPT !.pc = pc], Reads(r, next) \/ Commits(r, next)
        PROVE  OtherTurn(r)
    <2>1. GoesOn(rec, next, pc)
      BY <1>1, <1>3, MovesOn
    <2>2. FamilySound(next) /\ NoticeSound(next)
      BY <1>1, <1>2, <1>3, <2>1 DEF Sound, FamilySound, NoticeSound, GoesOn, ParentOps
    <2>3. RuleSound(next) /\ WatchSound(next)
      BY <1>1, <1>2, <1>3, <2>1 DEF Sound, RuleSound, WatchSound, GoesOn, ParentOps
    <2>4. PageSound(next)
      BY <1>2, <1>3, <2>1 DEF PageSound, GoesOn, ParentOps, ListOps, GateOps, PageOps, Stages
    <2>5. Sound(next) /\ next.op = rec.op /\ next.pc \notin Reserved
      BY <1>3, <2>1, <2>2, <2>3, <2>4 DEF Sound, GoesOn, ParentOps, FamilyPcs, Reserved
    <2> QED
      BY <1>3, <2>5, SoundTurn
  <1>4. CASE RequireChild(r)
    <2>1. \/ Reads(r, Done)
          \/ Reads(r, [rec EXCEPT !.pc = rec.op])
      BY <1>4 DEF RequireChild
    <2>2. rec.op \in {"switchDownloads", "update settings"} => rec.op = "switchDownloads"
      BY <1>2 DEF ParentOps
    <2>3. Reads(r, [rec EXCEPT !.pc = rec.op]) => OtherTurn(r)
      BY <1>2, <1>3, <2>2
    <2> QED
      BY <2>1, <2>3, EndsOther
  <1>5. CASE EnsureSettingsRow(r)
    <2>1. \/ Commits(r, Done)
          \/ Commits(r, [rec EXCEPT !.pc = "update settings"])
      BY <1>5 DEF EnsureSettingsRow
    <2> QED
      BY <1>2, <1>3, <1>5, <2>1, EndsOther
  <1> QED
    BY <1>4, <1>5

LEMMA RuleTurns ==
  ASSUME RequestsSound, RulesTyped, NEW r \in Requests, RuleStep(r)
  PROVE  OtherTurn(r)
  BY PagesMove, PageTurns, EndsCommit, EndsOther, SettingsTurn DEF RuleStep, PageStep, EndStep

LEMMA WatchTurns ==
  ASSUME RequestsSound, NEW r \in Requests, WatchStep(r)
  PROVE  OtherTurn(r) /\ request[r].op \notin PageOps
  <1> DEFINE rec == request[r]
  <1>1. Sound(rec) /\ IsRequest(rec)
    BY RequestIsSound
  <1>2. /\ rec.op \in {"heartbeat", "progress"} /\ rec.op \notin PageOps
        /\ rec.on \in Videos /\ rec.pin \in Elapsed
    BY <1>1 DEF WatchStep, UpsertWatchHistory, ReadUsage, WriteUsage, At, Sound, WatchSound, PageOps,
        ListOps, GateOps
  <1>3. ASSUME NEW next, NEW pc \in {"usage", "usageWrite"}, IsRequest(next), next.pc = pc,
               next.op = rec.op, next.as = rec.as, next.pin = rec.pin, next.on = rec.on,
               Reads(r, next) \/ Commits(r, next)
        PROVE  OtherTurn(r)
    <2>1. FamilySound(next) /\ NoticeSound(next)
      BY <1>2, <1>3 DEF FamilySound, NoticeSound, RoleOps
    <2>2. RuleSound(next) /\ WatchSound(next)
      BY <1>2, <1>3 DEF RuleSound, WatchSound
    <2>3. PageSound(next)
      BY <1>2, <1>3 DEF PageSound, ListOps, GateOps, PageOps, Stages
    <2> QED
      BY <1>3, <2>1, <2>2, <2>3, SoundTurn DEF Sound, FamilyPcs, Reserved
  <1>4. ASSUME UpsertWatchHistory(r) PROVE OtherTurn(r)
    <2> DEFINE next == [rec EXCEPT !.pc = "usage"]
    <2>1. Reads(r, Done) \/ Commits(r, Done) \/ Commits(r, next)
      BY <1>4 DEF UpsertWatchHistory
    <2>2. GoesOn(rec, next, "usage") /\ next.on = rec.on
      BY <1>1, MovesOn
    <2> HIDE DEF next
    <2> QED
      BY <1>3, <2>1, <2>2, EndsOther DEF GoesOn
  <1>5. ASSUME ReadUsage(r) PROVE OtherTurn(r)
    <2> DEFINE Read(i, seconds) == [rec EXCEPT !.saw = i, !.row = <<seconds>>, !.pc = "usageWrite",
                                              !.stale = FALSE]
    <2>1. PICK i, seconds : Reads(r, Read(i, seconds))
      BY <1>5 DEF ReadUsage
    <2>2. LET next == Read(i, seconds)
          IN /\ IsRequest(next) /\ next.pc = "usageWrite" /\ next.op = rec.op /\ next.as = rec.as
             /\ next.pin = rec.pin /\ next.on = rec.on
      BY <1>1 DEF IsRequest, Fields
    <2> QED
      BY <1>3, <2>1, <2>2
  <1>6. ASSUME WriteUsage(r) PROVE OtherTurn(r)
    BY <1>6, EndsOther DEF WriteUsage, Writes
  <1> QED
    BY <1>2, <1>4, <1>5, <1>6 DEF WatchStep

-----------------------------------------------------------------------------
(* The tables stay what they are.                                          *)

Channelled == [Videos -> Channels \cup {Nobody, Unborn}]

\* A table of channels that says no less than channelOf.
Widens(table, v) ==
    /\ table \in Channelled
    /\ \A w \in Videos : /\ table[w] \in Channels => Belongs(w, table[w])
                         /\ table[w] = Unborn => channelOf[w] = Unborn /\ w # v

LEMMA SeedWidens ==
  ASSUME RulesTyped, NEW v, NEW c,
         v \in Videos => c = Nobody \/ (c \in Channels /\ Belongs(v, c))
  PROVE  Widens(Seed(v, c), v)
  <1> DEFINE table == Seed(v, c)
  <1>1. /\ DOMAIN table = Videos
        /\ table = [w \in Videos |-> table[w]]
        /\ \A w \in Videos : table[w] = IF w # v THEN channelOf[w]
                                        ELSE IF c # Nobody THEN c
                                        ELSE IF channelOf[w] = Unborn THEN Nobody ELSE channelOf[w]
    BY DEF Seed, RulesTyped
  <1> HIDE DEF table
  <1>2. \A w \in Videos : /\ channelOf[w] \in Channels \cup {Nobody, Unborn}
                          /\ channelOf[w] \in Channels => Belongs(w, channelOf[w])
    BY DEF RulesTyped, ChannelsKnown
  <1>3. Nobody \notin Channels /\ Unborn \notin Channels /\ Nobody # Unborn
    BY ChannelAssumption
  <1>4. ASSUME NEW w \in Videos
        PROVE  /\ table[w] \in Channels \cup {Nobody, Unborn}
               /\ table[w] \in Channels => Belongs(w, table[w])
               /\ table[w] = Unborn => channelOf[w] = Unborn /\ w # v
    BY <1>1, <1>2, <1>3
  <1>5. table \in Channelled
    BY <1>1, <1>4 DEF Channelled
  <1> QED
    BY <1>4, <1>5 DEF Widens, table

LEMMA ToldChannel ==
  ASSUME NEW r
  PROVE  request[r].on \in Videos =>
            TellsChannel(r) = Nobody \/ (TellsChannel(r) \in Channels /\ Belongs(request[r].on, TellsChannel(r)))
  BY TrueChannelAssumption DEF TellsChannel, Belongs

\* A step that widens what is known of the channels, and puts nothing where
\* nothing is known.
LEMMA WidenedTyped ==
  ASSUME RulesTyped, NEW v, Widens(channelOf', v),
         blocked' \in [Videos -> Accounts \cup {Nobody}],
         direct' \in [Videos -> Accounts \cup {Nobody}],
         \A w \in Videos \ {v} : direct'[w] = direct[w] /\ watched'[w] = watched[w],
         watched' \in [Videos -> {"none", "started", "finished"}],
         liked' \in [Videos -> {"none", "live", "deleted"}],
         hidden' \subseteq Videos,
         downloads' \in [Videos -> {"none", "pending", "complete", "deleted"}],
         UNCHANGED <<granted, subscribed, settings, searched>>,
         archive' \subseteq Uploads,
         \A c \in Channels : \A w \in Videos \ {v} : <<c, w>> \in archive' => <<c, w>> \in archive
  PROVE  RulesTyped'
  <1>1. ChannelsKnown'
    BY DEF RulesTyped, ChannelsKnown, Widens
  <1> QED
    BY <1>1 DEF RulesTyped, Widens, Channelled

\* A step that leaves what is known of the channels.
LEMMA NarrowedTyped ==
  ASSUME RulesTyped, UNCHANGED <<channelOf, watched>>,
         blocked' \in [Videos -> Accounts \cup {Nobody}],
         direct' \in [Videos -> Accounts \cup {Nobody}],
         \A w \in Videos : direct[w] = Nobody => direct'[w] = Nobody,
         granted' \in [Channels -> Accounts \cup {Nobody}],
         hidden' \subseteq Videos, archive' \subseteq archive,
         liked' \in [Videos -> {"none", "live", "deleted"}],
         subscribed' \in [Channels -> {"none", "live", "deleted"}],
         settings' \in {"unset", "off", "on"}, searched' \in BOOLEAN,
         downloads' \in [Videos -> {"none", "pending", "complete", "deleted"}]
  PROVE  RulesTyped'
  <1>1. ChannelsKnown'
    BY DEF RulesTyped, ChannelsKnown
  <1> QED
    BY <1>1 DEF RulesTyped

LEMMA AdderTyped ==
  ASSUME NEW S, NEW table \in [S -> Accounts \cup {Nobody}], NEW v, NEW a \in Existing
  PROVE  [table EXCEPT ![v] = IF @ = Nobody THEN a ELSE @] \in [S -> Accounts \cup {Nobody}]
  BY DEF Existing

LEMMA RulesStayTyped ==
  ASSUME RequestsSound, RulesTyped, NEW r \in Requests, RuleStep(r)
  PROVE  RulesTyped'
  <1> DEFINE rec == request[r]
             v == rec.on
  <1>1. Sound(rec)
    BY RequestIsSound
  <1> USE DEF parentRules, ownRules, ruleVars
  <1>2. CASE AddBlocked(r)
    <2>1. blocked' \in [Videos -> Accounts \cup {Nobody}]
      BY <1>2, AdderTyped DEF AddBlocked, Holds, RulesTyped
    <2>2. CASE Holds(r)
      <3>1. Widens(channelOf', v)
        BY <1>2, <2>2, SeedWidens DEF AddBlocked
      <3> QED
        BY <1>2, <2>1, <3>1, WidenedTyped DEF AddBlocked, RulesTyped
    <2>3. CASE ~Holds(r)
      BY <1>2, <2>3, NarrowedTyped DEF AddBlocked, RulesTyped
    <2> QED
      BY <2>2, <2>3
  <1>3. CASE AddVideo(r)
    <2>1. direct' \in [Videos -> Accounts \cup {Nobody}] /\ \A w \in Videos \ {v} : direct'[w] = direct[w]
      BY <1>3, AdderTyped DEF AddVideo, Holds, RulesTyped
    <2>2. CASE Holds(r)
      <3>1. PICK c \in {Nobody, TrueChannel[v]} : channelOf' = Seed(v, c)
        BY <1>3, <2>2 DEF AddVideo
      <3>2. Widens(channelOf', v)
        BY <3>1, SeedWidens, TrueChannelAssumption DEF Belongs
      <3> QED
        BY <1>3, <2>1, <3>2, WidenedTyped DEF AddVideo, RulesTyped
    <2>3. CASE ~Holds(r)
      BY <1>3, <2>3, NarrowedTyped DEF AddVideo, RulesTyped
    <2> QED
      BY <2>2, <2>3
  <1>4. CASE DeleteBlocked(r) \/ DeleteVideo(r) \/ AddChannel(r) \/ DeleteChannel(r)
    <2>1. /\ blocked' \in [Videos -> Accounts \cup {Nobody}]
          /\ direct' \in [Videos -> Accounts \cup {Nobody}]
          /\ \A w \in Videos : direct[w] = Nobody => direct'[w] = Nobody
      BY <1>4 DEF DeleteBlocked, DeleteVideo, AddChannel, DeleteChannel, RulesTyped
    <2>2. granted' \in [Channels -> Accounts \cup {Nobody}]
      BY <1>4, AdderTyped DEF DeleteBlocked, DeleteVideo, AddChannel, DeleteChannel, RulesTyped, Holds
    <2>3. archive' \subseteq archive
      BY <1>4 DEF DeleteBlocked, DeleteVideo, AddChannel, DeleteChannel
    <2>4. UNCHANGED <<ownRules, settings, channelOf, watched, downloads, searched>>
      BY <1>4 DEF DeleteBlocked, DeleteVideo, AddChannel, DeleteChannel
    <2> QED
      BY <2>1, <2>2, <2>3, <2>4, NarrowedTyped DEF RulesTyped
  <1>5. CASE EnsureSettingsRow(r) \/ UpdateSettings(r)
    <2>1. settings' \in {"unset", "off", "on"}
      BY <1>1, <1>5 DEF EnsureSettingsRow, UpdateSettings, At, Sound, RuleSound, RulesTyped
    <2> QED
      BY <1>5, <2>1, NarrowedTyped DEF EnsureSettingsRow, UpdateSettings, RulesTyped
  <1>6. CASE Hide(r) \/ Like(r)
    <2>1. channelOf' = channelOf \/ Widens(channelOf', v)
      BY <1>6, SeedWidens, ToldChannel DEF Hide, Like
    <2>2. channelOf' # channelOf => v \in Videos
      BY <1>6 DEF Hide, Like, Seed, RulesTyped
    <2>3. hidden' \subseteq Videos
      <3>1. rec.pc = "hide" => v \in Videos
        BY <1>1 DEF Sound, RuleSound
      <3>2. hidden \subseteq Videos
        BY DEF RulesTyped
      <3>3. hidden' \in {hidden, hidden \ {v}} \/ (rec.pc = "hide" /\ hidden' = hidden \cup {v})
        BY <1>6 DEF Hide, Like, At
      <3> QED
        BY <3>1, <3>2, <3>3
    <2>4. liked' \in [Videos -> {"none", "live", "deleted"}]
      BY <1>6 DEF Hide, Like, RulesTyped
    <2>5. UNCHANGED <<blocked, direct, granted, settings, archive, subscribed, watched, downloads, searched>>
      BY <1>6 DEF Hide, Like
    <2> QED
      BY <2>1, <2>3, <2>4, <2>5, NarrowedTyped, WidenedTyped DEF RulesTyped
  <1>7. CASE Subscribe(r)
    <2>1. subscribed' \in [Channels -> {"none", "live", "deleted"}]
      BY <1>7 DEF Subscribe, RulesTyped
    <2> QED
      BY <1>7, <2>1, NarrowedTyped DEF Subscribe, RulesTyped
  <1>8. CASE UpdateDownload(r)
    <2>1. downloads' \in [Videos -> {"none", "pending", "complete", "deleted"}]
      BY <1>8 DEF UpdateDownload, RulesTyped
    <2> QED
      BY <1>8, <2>1, NarrowedTyped DEF UpdateDownload, RulesTyped
  <1>9. CASE LogSearch(r)
    <2>1. searched' \in BOOLEAN
      BY <1>9 DEF LogSearch, RulesTyped
    <2> QED
      BY <1>9, <2>1, NarrowedTyped DEF LogSearch, RulesTyped
  <1>10. CASE InsertDownload(r)
    <2>1. Widens(channelOf', v)
      BY <1>10, SeedWidens, TrueChannelAssumption DEF InsertDownload, Belongs
    <2>2. downloads' \in [Videos -> {"none", "pending", "complete", "deleted"}]
      BY <1>10 DEF InsertDownload, RulesTyped
    <2> QED
      BY <1>10, <2>1, <2>2, WidenedTyped DEF InsertDownload, RulesTyped
  <1>11. CASE BackfillVideoChannelIds(r)
    <2>1. rec.rows \subseteq PageRows
      BY <1>1, <1>11 DEF BackfillVideoChannelIds, At, Sound, PageSound, PageOps, ListOps
    <2> DEFINE Row(w) == CHOOSE row \in rec.rows : row[1] = w
    <2>2. ASSUME NEW w \in Videos, \E row \in rec.rows : row[1] = w
          PROVE  Row(w)[2] \in Channels \cup {Nobody} /\ (Row(w)[2] \in Channels => Belongs(w, Row(w)[2]))
      <3>1. Row(w) \in PageRows /\ Row(w)[1] = w
        BY <2>1, <2>2
      <3> QED
        BY <3>1 DEF PageRows
    <2> HIDE DEF Row
    <2>3. channelOf' = [w \in Videos |-> IF channelOf[w] = Nobody /\ \E row \in rec.rows : row[1] = w
                                         THEN Row(w)[2] ELSE channelOf[w]]
      BY <1>11 DEF BackfillVideoChannelIds, Row
    <2>4. ASSUME NEW w \in Videos
          PROVE  /\ channelOf'[w] \in Channels \cup {Nobody, Unborn}
                 /\ channelOf'[w] \in Channels => Belongs(w, channelOf'[w])
                 /\ channelOf'[w] = Unborn => channelOf[w] = Unborn
      BY <2>2, <2>3, ChannelAssumption DEF RulesTyped, ChannelsKnown
    <2>5. channelOf' \in Channelled
      BY <2>3, <2>4 DEF Channelled
    <2>6. ChannelsKnown'
      BY <1>11, <2>4 DEF BackfillVideoChannelIds, RulesTyped, ChannelsKnown
    <2> QED
      BY <1>11, <2>5, <2>6 DEF BackfillVideoChannelIds, RulesTyped, Channelled
  <1>12. CASE UNCHANGED ruleVars
    BY <1>12, NarrowedTyped DEF RulesTyped
  <1>13. ASSUME PageStep(r), ~LogSearch(r), ~InsertDownload(r), ~BackfillVideoChannelIds(r)
         PROVE  UNCHANGED ruleVars
    BY <1>13 DEF PageStep, Gate, ListAtOnce, EnforceChannelAccess, Search, LookForPrior, WatchHistory,
        LookupChannelIds, UpNextFromChannel, UpNextFromNewVideos, UpNext, Extracted,
        EnsureDownloadsEnabled
  <1>14. RequireChild(r) => UNCHANGED ruleVars
    BY DEF RequireChild
  <1> QED
    BY <1>2, <1>3, <1>4, <1>5, <1>6, <1>7, <1>8, <1>9, <1>10, <1>11, <1>12, <1>13, <1>14
       DEF RuleStep, PageStep


LEMMA WatchRulesTyped ==
  ASSUME RequestsSound, RulesTyped, NEW r \in Requests, WatchStep(r)
  PROVE  RulesTyped'
  <1> DEFINE rec == request[r]
             v == rec.on
  <1>1. CASE UpsertWatchHistory(r) /\ Kid \in Existing
    <2>1. /\ channelOf' = Seed(v, TellsChannel(r)) /\ watched' = [watched EXCEPT ![v] = rec.saw]
          /\ UNCHANGED <<parentRules, ownRules, downloads, searched>> /\ At(r, "watch history")
      BY <1>1 DEF UpsertWatchHistory
    <2>2. rec.saw \in {"started", "finished"}
      BY <2>1, RequestIsSound DEF At, Sound, WatchSound
    <2>3. Widens(channelOf', v)
      BY <2>1, SeedWidens, ToldChannel
    <2>4. /\ watched' \in [Videos -> {"none", "started", "finished"}]
          /\ \A w \in Videos \ {v} : watched'[w] = watched[w]
      BY <2>1, <2>2 DEF RulesTyped
    <2> QED
      BY <2>1, <2>3, <2>4, WidenedTyped DEF parentRules, ownRules, RulesTyped
  <1>2. CASE UNCHANGED ruleVars
    BY <1>2, NarrowedTyped DEF ruleVars, parentRules, ownRules, RulesTyped
  <1>3. ~(UpsertWatchHistory(r) /\ Kid \in Existing) => UNCHANGED ruleVars
    BY DEF WatchStep, UpsertWatchHistory, ReadUsage, WriteUsage, ruleVars, parentRules, ownRules
  <1> QED
    BY <1>1, <1>2, <1>3

LEMMA CascadeTyped ==
  ASSUME RulesTyped, Cascade
  PROVE  RulesTyped'
  BY NarrowedTyped DEF Cascade, parentRules, RulesTyped

\* A request begins: rules change only where an upload is published.
LEMMA BeginRules ==
  ASSUME NEW r \in Requests, Begin(r)
  PROVE  \/ UNCHANGED ruleVars
         \/ agenda[r] = "publish" /\ \E row \in Uploads : Publish(r, row[1], row[2])
  <1>1. ASSUME NEW b, NEW op, BeginsRules(r, b, op)
        PROVE  \/ UNCHANGED ruleVars
               \/ op = "publish" /\ \E row \in Uploads : Publish(r, row[1], row[2])
    BY <1>1 DEF BeginsRules, BeginRule, BeginMark, BeginPage, BeginDownload
  <1>2. ASSUME NEW b, NEW op, BeginsWatch(r, b, op) PROVE UNCHANGED ruleVars
    BY <1>2 DEF BeginsWatch, BeginWatch
  <1> QED
    BY <1>1, <1>2 DEF Begin

LEMMA BeginRulesTyped ==
  ASSUME RulesTyped, NEW r \in Requests, Begin(r)
  PROVE  RulesTyped'
  <1>1. CASE UNCHANGED ruleVars
    BY <1>1, NarrowedTyped DEF ruleVars, parentRules, ownRules, RulesTyped
  <1>2. ASSUME NEW row \in Uploads, Publish(r, row[1], row[2]) PROVE RulesTyped'
    <2>1. PICK c \in Channels, v \in Videos : row = <<c, v>>
      BY UploadsAssumption
    <2>2. Widens(channelOf', v)
      BY <1>2, <2>1, SeedWidens DEF Publish, Belongs
    <2>3. /\ archive' \subseteq Uploads
          /\ \A d \in Channels : \A w \in Videos \ {v} : <<d, w>> \in archive' => <<d, w>> \in archive
      BY <1>2, <2>1 DEF Publish, RulesTyped
    <2> QED
      BY <1>2, <2>2, <2>3, WidenedTyped DEF Publish, ownRules, RulesTyped
  <1> QED
    BY <1>1, <1>2, BeginRules

-----------------------------------------------------------------------------
(* So do the accounts, the sessions and the notifications.                 *)

AccountsTyped ==
    /\ accounts \in [Accounts -> Rows \cup {Unborn, Gone}]
    /\ sessions \in [Keys -> [account : Accounts \cup {Nobody}, live : BOOLEAN]]
    /\ cookie \in [Browsers -> Keys \cup {Nobody}]
    /\ setUp \in BOOLEAN
    /\ \A k \in Keys : sessions[k].account \in Existing \cup {Nobody}
    /\ notices \subseteq Existing \X {"pin", "search"}

SessionRows == [account : Accounts \cup {Nobody}, live : BOOLEAN]

LEMMA NoSessionTyped == NoSession \in SessionRows /\ NoSession.account = Nobody
  BY DEF NoSession, SessionRows

\* Sessions come and go, and belong to accounts there are.
LEMMA SessionsTyped ==
  ASSUME AccountsTyped, UNCHANGED <<accounts, notices, setUp>>,
         sessions' \in [Keys -> SessionRows], cookie' \in [Browsers -> Keys \cup {Nobody}],
         \A k \in Keys : sessions'[k].account \in Existing \cup {Nobody}
  PROVE  AccountsTyped'
  BY DEF AccountsTyped, SessionRows, Existing

LEMMA BeginAccounts ==
  ASSUME NEW r \in Requests, Begin(r)
  PROVE  /\ UNCHANGED <<accounts, setUp, mishap, notices, acked, usage>>
         /\ UNCHANGED accountVars \/ \E b \in Browsers : Tidies(b)
  <1>1. ASSUME NEW b \in Browsers, NEW rec, NEW audience, Begins(r, b, rec, audience)
        PROVE  UNCHANGED <<accounts, setUp>> /\ \E c \in Browsers : Tidies(c)
    BY <1>1 DEF Begins
  <1>2. ASSUME NEW b \in Browsers, NEW op, BeginsFamily(r, b, op)
        PROVE  UNCHANGED <<accounts, setUp>> /\ \E c \in Browsers : Tidies(c)
    BY <1>1, <1>2 DEF BeginsFamily, BeginRegister, BeginComplete, BeginLogout, BeginSwitch, BeginSetPin,
        BeginAddMember, BeginUpdateMember, BeginDelete
  <1>3. ASSUME NEW b \in Browsers, NEW op, BeginsRules(r, b, op)
        PROVE  UNCHANGED <<accounts, setUp>> /\ (UNCHANGED accountVars \/ \E c \in Browsers : Tidies(c))
    BY <1>1, <1>3 DEF BeginsRules, BeginRule, BeginMark, BeginPage, BeginDownload, Publish, accountVars
  <1>4. ASSUME NEW b \in Browsers, NEW op, BeginsWatch(r, b, op)
        PROVE  UNCHANGED <<accounts, setUp, watchVars>> /\ \E c \in Browsers : Tidies(c)
    BY <1>1, <1>4 DEF BeginsWatch, BeginWatch
  <1>5. ASSUME NEW b \in Browsers, NEW cause, BeginDismiss(r, b, cause)
        PROVE  UNCHANGED <<accounts, setUp, notices>> /\ \E c \in Browsers : Tidies(c)
    BY <1>1, <1>5 DEF BeginDismiss
  <1> QED
    BY <1>2, <1>3, <1>4, <1>5 DEF Begin, familyVars, watchVars

LEMMA BeginAccountsTyped ==
  ASSUME AccountsTyped, NEW r \in Requests, Begin(r)
  PROVE  AccountsTyped'
  <1>1. CASE UNCHANGED accountVars
    BY <1>1, BeginAccounts, SessionsTyped DEF accountVars, AccountsTyped, SessionRows
  <1>2. ASSUME NEW b \in Browsers, Tidies(b) PROVE AccountsTyped'
    <2>1. sessions' \in [Keys -> SessionRows] /\ \A k \in Keys : sessions'[k] \in {sessions[k], NoSession}
      BY <1>2, NoSessionTyped DEF Tidies, AccountsTyped, SessionRows
    <2>2. cookie' \in [Browsers -> Keys \cup {Nobody}]
      BY <1>2 DEF Tidies, AccountsTyped
    <2> QED
      BY <2>1, <2>2, BeginAccounts, SessionsTyped, NoSessionTyped DEF AccountsTyped
  <1> QED
    BY <1>1, <1>2, BeginAccounts

\* Accounts are given rows; none of those there are goes.
LEMMA RowsTyped ==
  ASSUME AccountsTyped, UNCHANGED <<sessions, cookie, setUp, notices>>, NEW a,
         accounts' \in [Accounts -> Rows \cup {Unborn, Gone}],
         \A b \in Accounts : b # a => accounts'[b] = accounts[b],
         a \in Accounts => accounts'[a] \in Rows
  PROVE  AccountsTyped' /\ Existing \subseteq Existing'
  <1>1. Existing \subseteq Existing'
    BY DEF Existing, AccountsTyped
  <1> QED
    BY <1>1 DEF AccountsTyped

LEMMA RoleChanges ==
  ASSUME AccountsTyped, NEW a \in Existing, NEW role \in Roles,
         accounts' = [accounts EXCEPT ![a].role = role]
  PROVE  /\ accounts' \in [Accounts -> Rows \cup {Unborn, Gone}] /\ accounts'[a] \in Rows
         /\ \A b \in Accounts : b # a => accounts'[b] = accounts[b]
  <1>1. a \in Accounts /\ accounts[a] \in Rows /\ [accounts[a] EXCEPT !.role = role] \in Rows
    BY DEF Existing, Rows
  <1> QED
    BY <1>1 DEF AccountsTyped

LEMMA PinChanges ==
  ASSUME AccountsTyped, NEW a \in Existing, NEW pin \in Pins \cup {NoPin},
         accounts' = [accounts EXCEPT ![a].pin = pin]
  PROVE  /\ accounts' \in [Accounts -> Rows \cup {Unborn, Gone}] /\ accounts'[a] \in Rows
         /\ \A b \in Accounts : b # a => accounts'[b] = accounts[b]
  <1>1. a \in Accounts /\ accounts[a] \in Rows /\ [accounts[a] EXCEPT !.pin = pin] \in Rows
    BY DEF Existing, Rows
  <1> QED
    BY <1>1 DEF AccountsTyped

LEMMA InsertTyped ==
  ASSUME AccountsTyped, NEW r, NEW a \in Accounts, NEW role \in Roles, Inserts(r, a, role),
         UNCHANGED <<sessions, cookie, setUp, notices>>
  PROVE  AccountsTyped'
  <1>1. [role |-> role, pin |-> NoPin] \in Rows
    BY DEF Rows
  <1>2. /\ accounts' \in [Accounts -> Rows \cup {Unborn, Gone}] /\ accounts'[a] \in Rows
        /\ \A b \in Accounts : b # a => accounts'[b] = accounts[b]
    BY <1>1 DEF Inserts, AccountsTyped
  <1> QED
    BY <1>2, RowsTyped

LEMMA DeleteTyped ==
  ASSUME AccountsTyped, NEW r, Delete(r, Named), UNCHANGED notices
  PROVE  AccountsTyped'
  <1> DEFINE a == request[r].on
  <1>1. CASE a \in Existing /\ ~Referenced(a, Named)
    <2>1. accounts' = [accounts EXCEPT ![a] = Gone] /\ UNCHANGED <<sessions, cookie, setUp>>
      BY <1>1 DEF Delete
    <2>2. Existing \ {a} \subseteq Existing'
      BY <2>1 DEF Existing, AccountsTyped
    <2>3. accounts' \in [Accounts -> Rows \cup {Unborn, Gone}]
      BY <2>1 DEF AccountsTyped
    <2>4. \A k \in Keys : sessions[k].account # a
      BY <1>1 DEF Referenced, SessionsOf
    <2>5. \A notice \in notices : notice[1] # a
      BY <1>1 DEF Referenced
    <2>6. notices \subseteq Existing' \X {"pin", "search"}
      BY <2>2, <2>5 DEF AccountsTyped
    <2> QED
      BY <2>1, <2>2, <2>3, <2>4, <2>6 DEF AccountsTyped
  <1>2. CASE ~(a \in Existing /\ ~Referenced(a, Named))
    <2>1. UNCHANGED <<accounts, sessions, cookie, setUp>>
      BY <1>2 DEF Delete
    <2> QED
      BY <2>1, SessionsTyped DEF AccountsTyped, SessionRows
  <1> QED
    BY <1>1, <1>2

LEMMA FamilyAccountsTyped ==
  ASSUME AccountsTyped, RequestsSound, NEW r \in Requests, FamilyStep(r, Named), UNCHANGED notices
  PROVE  AccountsTyped'
  <1> DEFINE rec == request[r]
  <1>1. Sound(rec)
    BY RequestIsSound
  <1>2. r \in Keys
    BY DEF Keys
  <1>3. CASE UNCHANGED accountVars
    BY <1>3, SessionsTyped DEF accountVars, AccountsTyped, SessionRows
  <1>4. CASE InsertFirstAccount(r)
    <2>1. \/ UNCHANGED accountVars
          \/ \E a \in Accounts : Inserts(r, a, "parent")
      BY <1>4 DEF InsertFirstAccount, accountVars
    <2>2. UNCHANGED <<sessions, cookie, setUp>>
      BY <1>4 DEF InsertFirstAccount
    <2> QED
      BY <1>3, <2>1, <2>2, InsertTyped DEF Roles
  <1>5. CASE InsertLocal(r)
    <2>1. rec.as \in Roles
      BY <1>1, <1>5 DEF InsertLocal, At, Sound, FamilySound
    <2>2. UNCHANGED <<sessions, cookie, setUp>> /\ \E a \in Accounts : Inserts(r, a, rec.as)
      BY <1>5 DEF InsertLocal
    <2> QED
      BY <2>1, <2>2, InsertTyped
  <1>6. CASE SetPinHash(r)
    <2>1. rec.pin \in Pins \cup {NoPin}
      BY <1>1, <1>6 DEF SetPinHash, At, Sound, FamilySound
    <2>2. CASE rec.on \in Existing
      <3>1. accounts' = [accounts EXCEPT ![rec.on].pin = rec.pin] /\ UNCHANGED <<sessions, cookie, setUp>>
        BY <1>6, <2>2 DEF SetPinHash
      <3> HIDE DEF rec
      <3>2. /\ accounts' \in [Accounts -> Rows \cup {Unborn, Gone}] /\ accounts'[rec.on] \in Rows
            /\ \A b \in Accounts : b # rec.on => accounts'[b] = accounts[b]
        BY <2>1, <2>2, <3>1, PinChanges
      <3> QED
        BY <3>1, <3>2, RowsTyped
    <2>3. CASE rec.on \notin Existing
      BY <1>3, <1>6, <2>3 DEF SetPinHash, accountVars
    <2> QED
      BY <2>2, <2>3
  <1>7. CASE Update(r)
    <2>1. rec.as \in Roles
      BY <1>1, <1>7 DEF Update, At, Sound, FamilySound
    <2>2. CASE rec.on \in Existing
      <3>1. accounts' = [accounts EXCEPT ![rec.on].role = rec.as] /\ UNCHANGED <<sessions, cookie, setUp>>
        BY <1>7, <2>2 DEF Update
      <3> HIDE DEF rec
      <3>2. /\ accounts' \in [Accounts -> Rows \cup {Unborn, Gone}] /\ accounts'[rec.on] \in Rows
            /\ \A b \in Accounts : b # rec.on => accounts'[b] = accounts[b]
        BY <2>1, <2>2, <3>1, RoleChanges
      <3> QED
        BY <3>1, <3>2, RowsTyped
    <2>3. CASE rec.on \notin Existing
      BY <1>3, <1>7, <2>3 DEF Update, accountVars
    <2> QED
      BY <2>2, <2>3
  <1>8. CASE Delete(r, Named)
    BY <1>8, DeleteTyped
  <1>9. CASE Complete(r)
    BY <1>9 DEF Complete, AccountsTyped, Existing
  <1>10. CASE DropSession(r) \/ Purge(r)
    <2>1. sessions' \in [Keys -> SessionRows] /\ \A k \in Keys : sessions'[k] \in {sessions[k], NoSession}
      BY <1>10, NoSessionTyped DEF DropSession, Purge, AccountsTyped, SessionRows
    <2>2. UNCHANGED <<accounts, cookie, setUp>>
      BY <1>10 DEF DropSession, Purge
    <2> QED
      BY <2>1, <2>2, SessionsTyped, NoSessionTyped DEF AccountsTyped
  <1>11. CASE CreateSession(r)
    <2>1. rec.on \in Existing => sessions' = [sessions EXCEPT ![r] = [account |-> rec.on, live |-> TRUE]]
      BY <1>11 DEF CreateSession
    <2>2. rec.on \notin Existing => UNCHANGED sessions
      BY <1>11 DEF CreateSession
    <2>3. UNCHANGED <<accounts, cookie, setUp>>
      BY <1>11 DEF CreateSession
    <2>4. sessions' \in [Keys -> SessionRows] /\ \A k \in Keys : sessions'[k].account \in Existing \cup {Nobody}
      <3>1. sessions \in [Keys -> SessionRows] /\ \A k \in Keys : sessions[k].account \in Existing \cup {Nobody}
        BY DEF AccountsTyped, SessionRows
      <3>2. CASE rec.on \in Existing
        <4> DEFINE session == [account |-> rec.on, live |-> TRUE]
        <4>1. session \in SessionRows /\ session.account = rec.on
          BY <3>2 DEF SessionRows, Existing
        <4> HIDE DEF session
        <4> QED
          BY <1>2, <2>1, <3>1, <3>2, <4>1 DEF session
      <3> QED
        BY <2>2, <3>1, <3>2
    <2> QED
      BY <2>3, <2>4, SessionsTyped DEF AccountsTyped
  <1>12. CASE Answer(r)
    <2>1. cookie' \in [Browsers -> Keys \cup {Nobody}] /\ UNCHANGED <<accounts, sessions, setUp>>
      BY <1>2, <1>12 DEF Answer, AccountsTyped
    <2> QED
      BY <2>1, SessionsTyped DEF AccountsTyped, SessionRows
  <1>13. HasFirstParent(r) \/ FindTarget(r) \/ ListParentPinHashes(r) \/ FindSelf(r) \/ FindMember(r)
         \/ CountParents(r) => UNCHANGED accountVars
    BY DEF HasFirstParent, FindTarget, ListParentPinHashes, FindSelf, FindMember, CountParents
  <1> QED
    BY <1>3, <1>4, <1>5, <1>6, <1>7, <1>8, <1>9, <1>10, <1>11, <1>12, <1>13 DEF FamilyStep

LEMMA NoticeAccountsTyped ==
  ASSUME AccountsTyped, RequestsSound, NEW r \in Requests, NoticeStep(r)
  PROVE  AccountsTyped' /\ UNCHANGED accountVars
  <1>1. UNCHANGED accountVars
    BY DEF NoticeStep, CountRecent, ListParents, LookForNotice, InsertOne, Dismiss
  <1>2. notices' \subseteq Existing \X {"pin", "search"}
    <2>1. \/ notices' \subseteq notices
          \/ \E p \in Existing : notices' = notices \cup {<<p, Cause(r)>>}
      BY DEF NoticeStep, CountRecent, ListParents, LookForNotice, InsertOne, Dismiss
    <2>2. Cause(r) \in {"pin", "search"}
      BY DEF Cause
    <2>3. notices \subseteq Existing \X {"pin", "search"}
      BY DEF AccountsTyped
    <2> QED
      BY <2>1, <2>2, <2>3
  <1> QED
    BY <1>1, <1>2 DEF AccountsTyped, accountVars, Existing

LEMMA ExpiryTyped ==
  ASSUME AccountsTyped, NEW k \in Keys, SessionExpires(k), UNCHANGED notices
  PROVE  AccountsTyped'
  <1>1. sessions' \in [Keys -> SessionRows] /\ \A l \in Keys : sessions'[l].account = sessions[l].account
    BY DEF SessionExpires, AccountsTyped, SessionRows
  <1> QED
    BY <1>1, SessionsTyped DEF SessionExpires, AccountsTyped

-----------------------------------------------------------------------------
(* The household is what its tables can hold.                              *)

HouseTyped == AccountsTyped /\ RulesTyped /\ RequestsSound

LEMMA HouseImpliesType == HouseTyped => TypeOK
  BY DEF HouseTyped, AccountsTyped, RulesTyped, RequestsSound, Sound, TypeOK, AccountsTypeOK

LEMMA RequestsStay ==
  ASSUME RequestsSound, UNCHANGED request
  PROVE  RequestsSound'
  BY DEF RequestsSound

LEMMA BeginTurns ==
  ASSUME RequestsSound, NEW r \in Requests, Begin(r)
  PROVE  \E next : Turns(r, next) /\ (Entry(next) \/ next = Done)
  BY FamilyBegins, RulesBegin, WatchBegins, DismissBegins DEF Begin

LEMMA FailsTurn ==
  ASSUME RequestsSound, NEW r \in Requests, CutOff(r)
  PROVE  Turns(r, Done)
  BY StepsTurn DEF CutOff, Fails, RequestsSound

LEMMA HouseStarts == Init => HouseTyped
  <1> SUFFICES ASSUME Init PROVE HouseTyped
    OBVIOUS
  <1>1. RequestsSound
    BY FreshRequests DEF Init, RequestsSound
  <1>2. PICK start \in Starts : LET s == start[1] IN
          /\ accounts = s.accounts /\ setUp = s.setUp
          /\ sessions = [k \in Keys |-> IF k \in Browsers /\ s.signedIn[k] # Nobody
                                        THEN [account |-> s.signedIn[k], live |-> TRUE] ELSE NoSession]
          /\ cookie = [b \in Browsers |-> IF s.signedIn[b] # Nobody THEN b ELSE Nobody]
          /\ blocked = s.blocked /\ direct = s.direct /\ granted = s.granted
          /\ hidden = s.hidden /\ liked = s.liked /\ subscribed = s.subscribed
          /\ settings = s.settings /\ archive = s.archive /\ channelOf = s.channelOf
          /\ watched = s.watched
    BY DEF Init
  <1> DEFINE s == start[1]
  <1>3. Possible(s)
    BY StartsAssumption
  <1> HIDE DEF s
  <1>4. RulesTyped
    <2>1. downloads = [v \in Videos |-> "none"] /\ searched = FALSE
      BY DEF Init
    <2>2. ChannelsKnown
      BY <1>2, <1>3 DEF Possible, ChannelsKnown, s
    <2> QED
      BY <1>2, <1>3, <2>1, <2>2 DEF Possible, RulesTyped, s
  <1>5. AccountsTyped
    <2>1. /\ accounts \in [Accounts -> Rows \cup {Unborn, Gone}] /\ setUp \in BOOLEAN
          /\ s.signedIn \in [Browsers -> Existing \cup {Nobody}]
      BY <1>2, <1>3 DEF Possible, Existing, s
    <2>2. sessions = [k \in Keys |-> IF k \in Browsers /\ s.signedIn[k] # Nobody
                                     THEN [account |-> s.signedIn[k], live |-> TRUE] ELSE NoSession]
      BY <1>2 DEF s
    <2>3. ASSUME NEW k \in Keys
          PROVE  sessions[k] \in SessionRows /\ sessions[k].account \in Existing \cup {Nobody}
      <3>1. CASE k \in Browsers /\ s.signedIn[k] # Nobody
        <4>1. s.signedIn[k] \in Existing /\ s.signedIn[k] \in Accounts
          BY <2>1, <3>1 DEF Existing
        <4>2. sessions[k] = [account |-> s.signedIn[k], live |-> TRUE]
          BY <2>2, <3>1
        <4> QED
          BY <4>1, <4>2 DEF SessionRows
      <3>2. CASE ~(k \in Browsers /\ s.signedIn[k] # Nobody)
        BY <2>2, <3>2, NoSessionTyped
      <3> QED
        BY <3>1, <3>2
    <2>4. sessions \in [Keys -> SessionRows]
      BY <2>2, <2>3
    <2>5. cookie \in [Browsers -> Keys \cup {Nobody}]
      BY <1>2 DEF Keys
    <2>6. notices = {}
      BY DEF Init
    <2> QED
      BY <2>1, <2>3, <2>4, <2>5, <2>6 DEF AccountsTyped, SessionRows
  <1> QED
    BY <1>1, <1>4, <1>5 DEF HouseTyped

LEMMA RulesLeaveAccounts ==
  ASSUME NEW r, RuleStep(r)
  PROVE  UNCHANGED accountVars
  BY DEF RuleStep, RequireChild, AddBlocked, DeleteBlocked, AddVideo, DeleteVideo, AddChannel,
         DeleteChannel, EnsureSettingsRow, UpdateSettings, Hide, Like, Subscribe, Gate, ListAtOnce,
         EnforceChannelAccess, Search, LookForPrior, LogSearch, WatchHistory, LookupChannelIds,
         BackfillVideoChannelIds, UpNextFromChannel, UpNextFromNewVideos, UpNext, Extracted,
         EnsureDownloadsEnabled, InsertDownload, UpdateDownload

LEMMA WatchLeavesAccounts ==
  ASSUME NEW r, WatchStep(r)
  PROVE  UNCHANGED accountVars
  BY DEF WatchStep, UpsertWatchHistory, ReadUsage, WriteUsage

LEMMA HouseGoesOn == HouseTyped /\ [Next]_vars => HouseTyped'
  <1> SUFFICES ASSUME HouseTyped, [Next]_vars PROVE HouseTyped'
    OBVIOUS
  <1>1. AccountsTyped /\ RulesTyped /\ RequestsSound
    BY DEF HouseTyped
  <1>2. UNCHANGED ruleVars => RulesTyped'
    BY <1>1, NarrowedTyped DEF ruleVars, parentRules, ownRules, RulesTyped
  <1>3. UNCHANGED <<accountVars, notices>> => AccountsTyped'
    BY <1>1, SessionsTyped DEF accountVars, AccountsTyped, SessionRows
  <1>4. ASSUME NEW r \in Requests, NEW next, Turns(r, next), Sound(next) PROVE RequestsSound'
    BY <1>1, <1>4, TurnsAreSound
  <1>5. ASSUME NEW r \in Requests, Begin(r) PROVE HouseTyped'
    BY <1>1, <1>4, <1>5, BeginTurns, BeginAccountsTyped, BeginRulesTyped, FreshRequests DEF Entry, HouseTyped
  <1>6. ASSUME NEW r \in Requests, CutOff(r) PROVE HouseTyped'
    BY <1>1, <1>2, <1>3, <1>4, <1>6, FailsTurn, FreshRequests DEF CutOff, Fails, HouseTyped
  <1>7. ASSUME NEW r \in Requests, FamilyStep(r, Named) /\ Cascade /\ UNCHANGED <<notices, watchVars>>
        PROVE  HouseTyped'
    BY <1>1, <1>4, <1>7, FamilyTurns, FamilyAccountsTyped, CascadeTyped DEF FamilyTurn, HouseTyped
  <1>8. ASSUME NEW r \in Requests, NoticeStep(r) /\ UNCHANGED <<familyVars, ruleVars, watchVars>>
        PROVE  HouseTyped'
    BY <1>1, <1>2, <1>4, <1>8, NoticeTurns, NoticeAccountsTyped DEF OtherTurn, HouseTyped
  <1>9. ASSUME NEW r \in Requests, RuleStep(r) /\ UNCHANGED <<notices, familyVars, watchVars>>
        PROVE  HouseTyped'
    BY <1>1, <1>3, <1>4, <1>9, RuleTurns, RulesStayTyped, RulesLeaveAccounts DEF OtherTurn, HouseTyped
  <1>10. ASSUME NEW r \in Requests, WatchStep(r) /\ UNCHANGED <<notices, familyVars>>
         PROVE  HouseTyped'
    BY <1>1, <1>3, <1>4, <1>10, WatchTurns, WatchRulesTyped, WatchLeavesAccounts DEF OtherTurn, HouseTyped
  <1>11. ASSUME NEW k \in Keys, Expire(k) PROVE HouseTyped'
    BY <1>1, <1>2, <1>11, ExpiryTyped, RequestsStay DEF Expire, HouseTyped
  <1>12. ASSUME WindowOver /\ UNCHANGED <<notices, ruleVars, watchVars>> PROVE HouseTyped'
    BY <1>1, <1>2, <1>3, <1>12, RequestsStay DEF WindowOver, HouseTyped
  <1>13. ASSUME UNCHANGED vars PROVE HouseTyped'
    BY <1>1, <1>2, <1>3, <1>13, RequestsStay DEF vars, HouseTyped
  <1> QED
    BY <1>5, <1>6, <1>7, <1>8, <1>9, <1>10, <1>11, <1>12, <1>13 DEF Next, Step

LEMMA HouseStaysTyped == Spec => []HouseTyped
  BY HouseStarts, HouseGoesOn, PTL DEF Spec

\* The tables hold what they may, no row or session names an account that is
\* not there, and a request that has ended holds nothing.
THEOREM HouseTypeCorrect == Spec => []TypeOK
  BY HouseStaysTyped, HouseImpliesType, PTL


-----------------------------------------------------------------------------
(* What the history remembers.                                             *)

Watched == PageOps \cup {"switch", "register"}

\* While a request lasts its history gathers the facts of every moment.
LEMMA HistoryGrows ==
  ASSUME Remembers, NEW r \in Requests
  PROVE  /\ request'[r].op \notin Watched \/ At(r, "answered") => memory'[r] = memory[r]
         /\ request'[r].op \in Watched /\ ~At(r, "answered") =>
               /\ FactsFor(request[r])' \subseteq memory'[r].some
               /\ ~At(r, "new") => memory[r].some \subseteq memory'[r].some
  BY DEF Remembers, Watched

LEMMA PagesAskForRules ==
  ASSUME NEW rec, rec.op \in PageOps
  PROVE  RuleFacts \subseteq FactsFor(rec)
  BY DEF FactsFor, ListOps, GateOps, PageOps

LEMMA KnowsMore ==
  ASSUME NEW rec, NEW some, NEW more, some \subseteq more, Knows(rec, some)
  PROVE  Knows(rec, more)
  <1>1. \A v : Allowed(rec, some, v) => Allowed(rec, more, v)
    BY DEF Allowed
  <1> QED
    BY <1>1 DEF Knows

PageHistory(rec, some) ==
    rec.op \in PageOps => Knows(rec, some) /\ (rec.pc # "answered" => RuleFacts \subseteq some)

PagesKnow == \A r \in Requests : PageHistory(request[r], memory[r].some)

\* It is enough to look at the request that moves.
LEMMA OthersKnow ==
  ASSUME RequestsSound, PagesKnow, Remembers, NEW r \in Requests, NEW next, Turns(r, next),
         next.op \in PageOps => ~At(r, "answered") /\ Knows(next, memory'[r].some)
  PROVE  PagesKnow'
  <1> SUFFICES ASSUME NEW q \in Requests, request'[q].op \in PageOps
               PROVE  /\ Knows(request'[q], memory'[q].some)
                      /\ request'[q].pc # "answered" => RuleFacts' \subseteq memory'[q].some
    BY DEF PagesKnow, PageHistory, Knows, Allowed
  <1>1. ~At(q, "answered") => RuleFacts' \subseteq memory'[q].some
    <2>1. RuleFacts' \subseteq FactsFor(request[q])'
      BY DEF FactsFor, ListOps, GateOps, PageOps
    <2> QED
      BY <2>1, HistoryGrows DEF Watched
  <1>2. CASE q = r
    BY <1>1, <1>2 DEF Turns
  <1>3. CASE q # r
    <2>1. request'[q] = request[q]
      BY <1>3, OvertakenIsSound DEF Turns, RequestsSound, At
    <2>2. Knows(request[q], memory[q].some)
      BY <2>1 DEF PagesKnow, PageHistory
    <2>3. ~At(q, "new")
      BY <2>1 DEF RequestsSound, Sound, At, New, PageOps, ListOps, GateOps
    <2>4. CASE At(q, "answered")
      BY <2>1, <2>2, <2>4, HistoryGrows DEF At
    <2>5. CASE ~At(q, "answered")
      BY <1>1, <2>1, <2>2, <2>3, <2>5, HistoryGrows, KnowsMore DEF Watched
    <2> QED
      BY <2>4, <2>5
  <1> QED
    BY <1>2, <1>3

LEMMA PlacesOfPages ==
  ASSUME NEW r, PageStep(r) \/ NoticeStep(r)
  PROVE  ~At(r, "answered") /\ ~At(r, "new")
  BY DEF PageStep, Gate, ListAtOnce, EnforceChannelAccess, Search, LookForPrior, LogSearch, WatchHistory,
     LookupChannelIds, BackfillVideoChannelIds, UpNextFromChannel, UpNextFromNewVideos, UpNext, Extracted,
     EnsureDownloadsEnabled, InsertDownload, NoticeStep, CountRecent, ListParents, LookForNotice, InsertOne,
     Dismiss, At, Stages

LEMMA BeginsOnce ==
  ASSUME NEW r, Begin(r)
  PROVE  At(r, "new")
  <1>1. \A b, rec, audience : Begins(r, b, rec, audience) => At(r, "new")
    BY DEF Begins
  <1>2. ASSUME NEW b, BeginsFamily(r, b, agenda[r]) PROVE At(r, "new")
    BY <1>1, <1>2 DEF BeginsFamily, BeginRegister, BeginComplete, BeginLogout, BeginSwitch, BeginSetPin,
       BeginAddMember, BeginUpdateMember, BeginDelete
  <1>3. ASSUME NEW b, BeginsRules(r, b, agenda[r]) PROVE At(r, "new")
    BY <1>1, <1>3 DEF BeginsRules, BeginRule, BeginMark, BeginPage, BeginDownload, Publish
  <1>4. ASSUME NEW b, BeginsWatch(r, b, agenda[r]) PROVE At(r, "new")
    BY <1>1, <1>4 DEF BeginsWatch, BeginWatch
  <1> QED
    BY <1>1, <1>2, <1>3, <1>4 DEF Begin, BeginDismiss

LEMMA EntriesKnow ==
  ASSUME NEW rec, Entry(rec), rec.op \in PageOps, NEW some
  PROVE  Knows(rec, some)
  <1>1. rec.shown = {} /\ rec.pc \in EntryPcs
    BY DEF Entry, PageOps, ListOps, GateOps
  <1> QED
    BY <1>1 DEF Knows, EntryPcs, OwnOps, ListOps, Stages

LEMMA PagesMoveKnowing ==
  ASSUME HouseTyped, PagesKnow, Remembers, NEW r \in Requests, PageStep(r)
  PROVE  PagesKnow'
  <1>1. PICK next : (Reads(r, next) \/ Commits(r, next)) /\ PageGoesOn(request[r], next)
    BY PagesMove DEF HouseTyped, PageMove
  <1>2. Turns(r, next) /\ next = request'[r]
    BY <1>1, StepsTurn DEF HouseTyped, RequestsSound, Turns
  <1>3. ASSUME next.op \in PageOps PROVE ~At(r, "answered") /\ Knows(next, memory'[r].some)
    <2>1. ~At(r, "answered") /\ ~At(r, "new")
      BY PlacesOfPages
    <2>2. RuleFacts \subseteq memory[r].some /\ Knows(request[r], memory[r].some)
      BY <1>1, <1>3, <2>1 DEF PagesKnow, PageHistory, PageGoesOn, At
    <2>3. Knows(next, memory[r].some)
      BY <1>1, <2>2 DEF PageGoesOn
    <2>4. memory[r].some \subseteq memory'[r].some
      BY <1>2, <1>3, <2>1, HistoryGrows DEF Watched
    <2> QED
      BY <2>1, <2>3, <2>4, KnowsMore
  <1> QED
    BY <1>2, <1>3, OthersKnow DEF HouseTyped

LEMMA NoticesKnow ==
  ASSUME HouseTyped, PagesKnow, Remembers, NEW r \in Requests, NoticeStep(r)
  PROVE  PagesKnow'
  <1>1. PICK next : /\ Turns(r, next) /\ Sound(next)
                    /\ next = Done \/ (next.op = request[r].op /\ next.pc \notin Reserved)
    BY NoticeTurns DEF HouseTyped, OtherTurn
  <1>2. ASSUME next.op \in PageOps PROVE ~At(r, "answered") /\ Knows(next, memory'[r].some)
    <2>1. ~At(r, "answered") /\ ~At(r, "new")
      BY PlacesOfPages
    <2>2. next.op = request[r].op /\ next = request'[r]
      BY <1>1, <1>2 DEF Turns, Done, New, PageOps, ListOps, GateOps
    <2>3. next.shown = request[r].shown /\ next.pc \in NoticePcs
      BY <1>2, <2>2, NoticeTurns DEF HouseTyped
    <2>4. request[r].op = "search"
      BY <1>2, <2>2 DEF HouseTyped, RequestsSound, Sound, NoticeSound, NoticeStep, CountRecent, ListParents,
         LookForNotice, InsertOne, Dismiss, At, PageOps, ListOps, GateOps
    <2>5. Knows(request[r], memory[r].some) /\ memory[r].some \subseteq memory'[r].some
      BY <1>2, <2>1, <2>2, HistoryGrows DEF PagesKnow, PageHistory, Watched
    <2>6. \A v \in next.shown : Allowed(next, memory'[r].some, v)
      <3>1. Knows(request[r], memory'[r].some)
        BY <2>5, KnowsMore
      <3>2. ASSUME NEW v \in request[r].shown PROVE Allowed(request[r], memory'[r].some, v)
        BY <3>1 DEF Knows
      <3> QED
        BY <2>2, <2>3, <2>4, <3>2 DEF Allowed, DownloadOps
    <2> QED
      BY <2>1, <2>3, <2>6 DEF Knows, NoticePcs, Stages
  <1> QED
    BY <1>1, <1>2, OthersKnow DEF HouseTyped

LEMMA PagesStart == Init => PagesKnow
  BY DEF Init, PagesKnow, PageHistory, New, PageOps, ListOps, GateOps

\* A step by which no page goes on leaves what the pages know.
LEMMA NoPageMoves ==
  ASSUME RequestsSound, PagesKnow, Remembers, NEW r \in Requests, NEW next, Turns(r, next),
         next.op \notin PageOps
  PROVE  PagesKnow'
  BY OthersKnow

LEMMA PagesWait ==
  ASSUME RequestsSound, PagesKnow, Remembers, UNCHANGED request
  PROVE  PagesKnow'
  <1> SUFFICES ASSUME NEW q \in Requests, request[q].op \in PageOps
               PROVE  PageHistory(request[q], memory[q].some)'
    BY DEF PagesKnow, PageHistory
  <1>1. ~At(q, "new") /\ Knows(request[q], memory[q].some)
    BY DEF RequestsSound, Sound, At, New, PageOps, ListOps, GateOps, PagesKnow, PageHistory
  <1>2. Knows(request[q], memory'[q].some)
    BY <1>1, HistoryGrows, KnowsMore DEF Watched
  <1>3. ~At(q, "answered") => RuleFacts' \subseteq memory'[q].some
    <2>1. RuleFacts' \subseteq FactsFor(request[q])'
      BY DEF FactsFor, ListOps, GateOps, PageOps
    <2> QED
      BY <2>1, HistoryGrows DEF Watched
  <1> QED
    BY <1>2, <1>3 DEF PageHistory, Knows, Allowed, At

LEMMA PagesGoOn == HouseTyped /\ PagesKnow /\ [Next]_vars => PagesKnow'
  <1> SUFFICES ASSUME HouseTyped, PagesKnow, [Next]_vars PROVE PagesKnow'
    OBVIOUS
  <1>1. RulesTyped /\ RequestsSound
    BY DEF HouseTyped
  <1>2. Done.op \notin PageOps
    BY DEF Done, New, PageOps, ListOps, GateOps
  <1>3. CASE UNCHANGED vars
    <2>1. UNCHANGED <<ruleVars, request, memory>>
      BY <1>3 DEF vars
    <2>2. RuleFacts' = RuleFacts
      BY <2>1 DEF RuleFacts, Granted, ruleVars, parentRules, ownRules
    <2> QED
      BY <2>1, <2>2 DEF PagesKnow, PageHistory, Knows, Allowed
  <1>4. CASE Next
    <2> USE <1>4
    <2>1. Remembers
      BY DEF Next
    <2>2. ASSUME NEW r \in Requests, Begin(r) PROVE PagesKnow'
      <3>1. PICK next : Turns(r, next) /\ (Entry(next) \/ next = Done)
        BY <1>1, <2>2, BeginTurns
      <3>2. ~At(r, "answered")
        BY <2>2, BeginsOnce DEF At
      <3> QED
        BY <1>1, <1>2, <2>1, <3>1, <3>2, EntriesKnow, OthersKnow
    <2>3. ASSUME NEW r \in Requests, CutOff(r) PROVE PagesKnow'
      BY <1>1, <1>2, <2>1, <2>3, FailsTurn, NoPageMoves
    <2>4. ASSUME NEW r \in Requests, FamilyStep(r, Named) PROVE PagesKnow'
      <3>1. PICK next : Turns(r, next) /\ (next = Done \/ (next.op = request[r].op
                                           /\ \E pc : Follows(request[r].op, pc)))
        BY <1>1, <2>4, FamilyTurns DEF FamilyTurn, GoesOn
      <3>2. next.op \notin PageOps
        BY <1>2, <3>1 DEF Follows, FamilyPcs, RoleOps, PageOps, ListOps, GateOps
      <3> QED
        BY <1>1, <2>1, <3>1, <3>2, NoPageMoves
    <2>5. ASSUME NEW r \in Requests, NoticeStep(r) PROVE PagesKnow'
      BY <2>1, <2>5, NoticesKnow
    <2>6. ASSUME NEW r \in Requests, RuleStep(r) PROVE PagesKnow'
      <3>1. CASE PageStep(r)
        BY <2>1, <3>1, PagesMoveKnowing
      <3>2. CASE EndStep(r)
        BY <1>1, <1>2, <2>1, <3>2, EndsCommit, StepsTurn, NoPageMoves DEF RequestsSound
      <3>3. CASE RequireChild(r) \/ EnsureSettingsRow(r)
        <4>1. PICK next : Turns(r, next) /\ (next = Done \/ next.op = request[r].op)
          BY <1>1, <3>3, SettingsTurn DEF OtherTurn
        <4>2. request[r].op \notin PageOps
          BY <1>1, <3>3 DEF RequireChild, EnsureSettingsRow, At, RequestsSound, Sound, RuleSound, ParentOps,
             PageOps, ListOps, GateOps
        <4> QED
          BY <1>1, <1>2, <2>1, <4>1, <4>2, NoPageMoves
      <3> QED
        BY <2>6, <3>1, <3>2, <3>3 DEF RuleStep, PageStep, EndStep
    <2>7. ASSUME NEW r \in Requests, WatchStep(r) PROVE PagesKnow'
      <3>1. request[r].op \notin PageOps /\ \E next : Turns(r, next) /\ (next = Done \/ next.op = request[r].op)
        BY <1>1, <2>7, WatchTurns DEF OtherTurn
      <3> QED
        BY <1>1, <1>2, <2>1, <3>1, NoPageMoves
    <2>8. ASSUME UNCHANGED request PROVE PagesKnow'
      BY <1>1, <2>1, <2>8, PagesWait
    <2> QED
      BY <2>2, <2>3, <2>4, <2>5, <2>6, <2>7, <2>8 DEF Next, Step, Expire, WindowOver
  <1> QED
    BY <1>3, <1>4

LEMMA PagesKeepKnowing == Spec => []PagesKnow
  <1>1. HouseTyped /\ PagesKnow /\ [Next]_vars => PagesKnow'
    BY PagesGoOn
  <1> QED
    BY <1>1, PagesStart, HouseStaysTyped, PTL DEF Spec

\* Whatever a page shows or a gate lets through was not blocked, not hidden
\* and granted, each at some time during the request, whichever way the rules
\* change between the statements of the gate (services/access.rs).
THEOREM RulesReachEveryPage == Spec => []PagesRespectRules
  <1>1. HouseTyped /\ PagesKnow => PagesRespectRules
    <2> SUFFICES ASSUME HouseTyped, PagesKnow, NEW r \in Requests, At(r, "answered"),
                        NEW v \in request[r].shown
                 PROVE  Allowed(request[r], memory[r].some, v)
      BY DEF PagesRespectRules, Allowed, DownloadOps
    <2>1. request[r].op \in PageOps
      BY DEF HouseTyped, RequestsSound, Sound, PageSound, At
    <2> QED
      BY <2>1 DEF PagesKnow, PageHistory, Knows
  <1> QED
    BY <1>1, HouseStaysTyped, PagesKeepKnowing, PTL

-----------------------------------------------------------------------------
(* What a page owes: until it has answered, a video that is deserved is on *)
(* its way (Underway), and whatever counts for it is true of the tables.   *)
(* It is said of every part of what has been true all the time, so that it *)
(* stays true when the history loses a fact.                               *)

\* Everything a page can be held against.
HouseFacts == RuleFacts \cup ParentFacts

\* The conditions of NothingAllowedIsLost, for a request and a set of facts.
Owes(rec, facts, v) ==
    LET listed == <<"listed", TrueChannel[v], v>> \in facts /\ <<"granted", TrueChannel[v]>> \in facts
    IN CASE rec.op = "stream" -> v = rec.on
         [] rec.op \in GateOps \ {"stream"} -> v = rec.on /\ <<"downloads", "on">> \in facts
         [] rec.op \in {"newVideos", "upNext"} -> listed /\ (rec.op = "upNext" => <<"none", v>> \in facts)
         [] rec.op \in {"channelPage", "upNextOf"} ->
                /\ rec.on = TrueChannel[v] /\ listed
                /\ rec.op = "upNextOf" => <<"none", v>> \in facts
         [] rec.op = "likes" -> <<"liked", v>> \in facts
         [] rec.op = "search" -> listed \/ <<"direct", v>> \in facts \/ <<"started", v>> \in facts
         [] OTHER -> <<Keep(rec.op), v>> \in facts

ChannelKnown(rec, facts, v) ==
    \/ rec.op \in GateOps \/ <<"known", v>> \in facts
    \/ rec.op \notin {"search", "likes"} /\ <<"listed", TrueChannel[v], v>> \in facts

Deserves(rec, facts, v) ==
    /\ Owes(rec, facts, v)
    /\ \A d \in Channels : <<d, v>> \in Uploads => d = TrueChannel[v]
    /\ <<"open", v>> \in facts /\ <<"seen", v>> \in facts
    /\ \/ <<"direct", v>> \in facts
       \/ ChannelKnown(rec, facts, v) /\ <<"granted", TrueChannel[v]>> \in facts

\* A row by which the gate lets v pass, if the facts stay what they are.
Fits(rec, facts, v, row) ==
    row[1] = v /\ (ChannelKnown(rec, facts, v) => row[2] = TrueChannel[v])

\* Where a video that is deserved is, by the place of the request.
Underway(rec, facts, v) ==
    /\ rec.pc \in Stages =>
          \/ v \in rec.shown
          \/ \E row \in rec.rows : Fits(rec, facts, v, row)
          \/ Fits(rec, facts, v, rec.row) /\ (rec.pc = "channel?" => <<"direct", v>> \notin facts)
    /\ rec.pc \in {"answered", "insert download", "prior?", "log search", "parents", "told?",
                   "insert notice"} => v \in rec.shown
    /\ rec.pc # "subscribed?"
    /\ rec.pc = "lookup" =>
          \E row \in rec.rows : row[1] = v /\ (<<"known", v>> \in facts => row[2] \in Channels)
    /\ rec.pc = "write back" => \E row \in rec.rows : Fits(rec, facts, v, row)
    /\ rec.pc = "unwatched" => <<v, TrueChannel[v]>> \in rec.rows
    /\ rec.pc = "bucket" => TrueChannel[v] \in rec.saw \/ <<v, TrueChannel[v]>> \in rec.rows

Promised(rec, facts, v) == Deserves(rec, facts, v) => Underway(rec, facts, v)

PagePromise(rec, all) ==
    rec.op \in PageOps =>
        /\ rec.pc # "answered" => all \subseteq HouseFacts
        /\ \A facts \in SUBSET all : \A v \in Videos : Promised(rec, facts, v)

PagesPromise == \A r \in Requests : PagePromise(request[r], memory[r].all)

LEMMA FactsMean ==
  ASSUME RulesTyped, NEW facts, facts \subseteq HouseFacts
  PROVE  /\ \A v \in Videos : /\ <<"open", v>> \in facts => blocked[v] = Nobody
                              /\ <<"seen", v>> \in facts => v \notin hidden
                              /\ <<"direct", v>> \in facts => direct[v] # Nobody
                              /\ <<"liked", v>> \in facts => liked[v] = "live"
                              /\ <<"none", v>> \in facts => watched[v] = "none"
                              /\ <<"started", v>> \in facts => watched[v] = "started"
                              /\ <<"finished", v>> \in facts => watched[v] = "finished"
                              /\ <<"known", v>> \in facts => channelOf[v] \in Channels
         /\ \A c \in Channels : <<"granted", c>> \in facts => granted[c] # Nobody
         /\ \A c, v : <<"listed", c, v>> \in facts => <<c, v>> \in archive
         /\ <<"downloads", "on">> \in facts => settings = "on"
  <1> USE DEF HouseFacts, RuleFacts, ParentFacts
  <1>1. ASSUME NEW v \in Videos, <<"open", v>> \in facts PROVE blocked[v] = Nobody
    BY <1>1 DEF RulesTyped
  <1>2. ASSUME NEW v \in Videos, <<"seen", v>> \in facts PROVE v \notin hidden
    BY <1>2 DEF RulesTyped
  <1>3. ASSUME NEW v \in Videos, <<"direct", v>> \in facts PROVE direct[v] # Nobody
    BY <1>3 DEF RulesTyped
  <1>4. ASSUME NEW v \in Videos, <<"liked", v>> \in facts PROVE liked[v] = "live"
    BY <1>4 DEF RulesTyped
  <1>5. ASSUME NEW v \in Videos, NEW how \in {"none", "started", "finished"}, <<how, v>> \in facts
        PROVE  watched[v] = how
    BY <1>5 DEF RulesTyped
  <1>6. ASSUME NEW v \in Videos, <<"known", v>> \in facts PROVE channelOf[v] \in Channels
    BY <1>6 DEF RulesTyped
  <1>7. ASSUME NEW c \in Channels, <<"granted", c>> \in facts PROVE granted[c] # Nobody
    BY <1>7 DEF RulesTyped, Granted
  <1>8. ASSUME NEW c, NEW v, <<"listed", c, v>> \in facts PROVE <<c, v>> \in archive
    <2>1. PICK row \in archive : <<"listed", c, v>> = <<"listed", row[1], row[2]>>
      BY <1>8 DEF RulesTyped
    <2>2. row \in Channels \X Videos
      BY UploadsAssumption DEF RulesTyped
    <2> QED
      BY <2>1, <2>2
  <1>9. ASSUME <<"downloads", "on">> \in facts PROVE settings = "on"
    BY <1>9 DEF RulesTyped
  <1> QED
    BY <1>1, <1>2, <1>3, <1>4, <1>5, <1>6, <1>7, <1>8, <1>9

\* A request of the same kind for the same is owed the same.
LEMMA SameDeserts ==
  ASSUME NEW rec, NEW next, next.op = rec.op, rec.op # "search" => next.on = rec.on, NEW facts, NEW v
  PROVE  /\ Deserves(next, facts, v) <=> Deserves(rec, facts, v)
         /\ \A row : Fits(next, facts, v, row) <=> Fits(rec, facts, v, row)
  <1>1. ChannelKnown(next, facts, v) <=> ChannelKnown(rec, facts, v)
    BY DEF ChannelKnown
  <1>2. Owes(next, facts, v) <=> Owes(rec, facts, v)
    <2>1. CASE rec.op = "search"
      BY <2>1 DEF Owes, GateOps
    <2>2. CASE rec.op # "search"
      BY <2>2 DEF Owes
    <2> QED
      BY <2>1, <2>2
  <1> QED
    BY <1>1, <1>2 DEF Deserves, Fits

\* A step of rec to next leaves a video that is deserved underway.
Delivers(rec, next) ==
    /\ next.op = rec.op /\ (rec.op # "search" => next.on = rec.on)
    /\ \A facts, v : /\ facts \subseteq HouseFacts /\ v \in Videos
                     /\ Deserves(rec, facts, v) /\ Underway(rec, facts, v)
                     => Underway(next, facts, v)

PageDelivers(r) ==
    \E next : (Reads(r, next) \/ Commits(r, next)) /\ Delivers(request[r], next)

LEMMA RowsDeliver ==
  ASSUME NEW rec, NEW next, NEW shown, NEW rows, TakesRow(rec, next, shown, rows), NEW facts, NEW v,
         v \in shown \/ \E row \in rows : Fits(rec, facts, v, row)
  PROVE  Underway(next, facts, v)
  <1>1. /\ next.shown = shown /\ next.op = rec.op /\ next.on = rec.on
        /\ next.pc \in {"blocked?", "insert download", "prior?", "answered"}
    BY DEF TakesRow
  <1>2. CASE v \in shown
    BY <1>1, <1>2 DEF Underway
  <1>3. CASE v \notin shown
    <2>1. PICK row \in rows : Fits(rec, facts, v, row)
      BY <1>3
    <2>2. next.pc = "blocked?" /\ next.rows = rows \ {next.row}
      BY <2>1 DEF TakesRow
    <2>3. Fits(next, facts, v, row)
      BY <1>1, <2>1, SameDeserts
    <2>4. row \in next.rows \/ row = next.row
      BY <2>1, <2>2
    <2> QED
      BY <2>2, <2>3, <2>4 DEF Underway
  <1> QED
    BY <1>2, <1>3

LEMMA AsksDelivers ==
  ASSUME RequestsSound, NEW r \in Requests, NEW rows,
         Asks(r, rows) \/ \E next \in NextRow(request[r], {}, rows) : Commits(r, next),
         \A facts, v : /\ facts \subseteq HouseFacts /\ v \in Videos
                       /\ Deserves(request[r], facts, v) /\ Underway(request[r], facts, v)
                       => \E row \in rows : Fits(request[r], facts, v, row)
  PROVE  PageDelivers(r)
  <1>1. PICK next \in NextRow(request[r], {}, rows) : Reads(r, next) \/ Commits(r, next)
    BY DEF Asks
  <1>2. TakesRow(request[r], next, {}, rows)
    BY <1>1, NextRowIs, RequestIsSound
  <1>3. next.op = request[r].op /\ next.on = request[r].on
    BY <1>2 DEF TakesRow
  <1>4. ASSUME NEW facts, NEW v, facts \subseteq HouseFacts, v \in Videos,
               Deserves(request[r], facts, v), Underway(request[r], facts, v)
        PROVE  Underway(next, facts, v)
    BY <1>2, <1>4, RowsDeliver
  <1> QED
    BY <1>1, <1>3, <1>4 DEF PageDelivers, Delivers

\* A video that is deserved passes whatever row of it the gate asks about.
LEMMA GateDelivers ==
  ASSUME RequestsSound, RulesTyped, NEW r \in Requests, Gate(r)
  PROVE  PageDelivers(r)
  <1> DEFINE rec == request[r]
             w == rec.row[1]
             c == rec.row[2]
             verdict == CanChildView(rec.pc, w, c)
             shown == IF verdict = "show" THEN rec.shown \cup {w} ELSE rec.shown
  <1>1. Sound(rec) /\ IsRequest(rec)
    BY RequestIsSound
  <1>2. rec.pc \in Stages
    BY DEF Gate
  <1>3. ASSUME NEW facts, NEW v, facts \subseteq HouseFacts, v \in Videos, Deserves(rec, facts, v),
               Fits(rec, facts, v, rec.row), rec.pc = "channel?" => <<"direct", v>> \notin facts
        PROVE  /\ verdict # "deny" /\ w = v
               /\ verdict = "channel?" => <<"direct", v>> \notin facts
    <2>1. w = v
      BY <1>3 DEF Fits
    <2>2. blocked[v] = Nobody /\ v \notin hidden
      BY <1>3, FactsMean DEF Deserves
    <2>3. <<"direct", v>> \in facts => direct[v] # Nobody
      BY <1>3, FactsMean
    <2>4. TrueChannel[v] \in Channels /\ TrueChannel[v] # Nobody
      BY <1>3, TrueChannelAssumption, ChannelAssumption
    <2>5. ASSUME <<"direct", v>> \notin facts PROVE c = TrueChannel[v] /\ granted[c] # Nobody
      <3>1. ChannelKnown(rec, facts, v) /\ <<"granted", TrueChannel[v]>> \in facts
        BY <1>3, <2>5 DEF Deserves
      <3>2. granted[TrueChannel[v]] # Nobody
        BY <1>3, <2>4, <3>1, FactsMean
      <3> QED
        BY <1>3, <3>1, <3>2 DEF Fits
    <2> QED
      BY <1>2, <1>3, <2>1, <2>2, <2>3, <2>4, <2>5 DEF CanChildView, Stages
  <1>4. CASE verdict \in Stages
    <2> DEFINE next == [rec EXCEPT !.pc = verdict]
    <2>1. Reads(r, next)
      BY <1>4 DEF Gate
    <2>2. /\ GoesOn(rec, next, verdict) /\ next.on = rec.on /\ next.rows = rec.rows
          /\ next.row = rec.row
      BY <1>1, MovesOn
    <2> HIDE DEF next
    <2>3. ASSUME NEW facts, NEW v, facts \subseteq HouseFacts, v \in Videos,
                 Deserves(rec, facts, v), Underway(rec, facts, v)
          PROVE  Underway(next, facts, v)
      <3>1. next.pc = verdict /\ next.shown = rec.shown /\ next.op = rec.op
        BY <2>2 DEF GoesOn
      <3>2. \A row : Fits(next, facts, v, row) <=> Fits(rec, facts, v, row)
        BY <2>2, <3>1, SameDeserts
      <3>3. \/ v \in rec.shown \/ \E row \in rec.rows : Fits(rec, facts, v, row)
            \/ Fits(rec, facts, v, rec.row) /\ (rec.pc = "channel?" => <<"direct", v>> \notin facts)
        BY <1>2, <2>3 DEF Underway
      <3>4. \/ v \in next.shown \/ \E row \in next.rows : Fits(next, facts, v, row)
            \/ Fits(next, facts, v, next.row) /\ (next.pc = "channel?" => <<"direct", v>> \notin facts)
        BY <1>3, <2>2, <2>3, <3>1, <3>2, <3>3
      <3> QED
        BY <1>4, <3>1, <3>4 DEF Underway, Stages
    <2> QED
      BY <2>1, <2>2, <2>3 DEF PageDelivers, Delivers, GoesOn
  <1>5. CASE verdict \notin Stages
    <2>1. PICK next \in NextRow(rec, shown, rec.rows) : Reads(r, next)
      BY <1>5 DEF Gate
    <2>2. TakesRow(rec, next, shown, rec.rows)
      BY <1>1, <2>1, NextRowIs
    <2>3. ASSUME NEW facts, NEW v, facts \subseteq HouseFacts, v \in Videos,
                 Deserves(rec, facts, v), Underway(rec, facts, v)
          PROVE  Underway(next, facts, v)
      <3>1. \/ v \in rec.shown \/ \E row \in rec.rows : Fits(rec, facts, v, row)
            \/ Fits(rec, facts, v, rec.row) /\ (rec.pc = "channel?" => <<"direct", v>> \notin facts)
        BY <1>2, <2>3 DEF Underway
      <3>2. verdict \in {"show", "deny"}
        BY <1>2, <1>5 DEF CanChildView, Stages
      <3>3. v \in shown \/ \E row \in rec.rows : Fits(rec, facts, v, row)
        BY <1>3, <2>3, <3>1, <3>2
      <3> QED
        BY <2>2, <3>3, RowsDeliver
    <2> QED
      BY <2>1, <2>2, <2>3 DEF PageDelivers, Delivers, TakesRow
  <1> QED
    BY <1>4, <1>5

\* The channel of a video that only one lists.
LEMMA OnlyChannel ==
  ASSUME RulesTyped, NEW v \in Videos, \A d \in Channels : <<d, v>> \in Uploads => d = TrueChannel[v]
  PROVE  /\ TrueChannel[v] \in Channels /\ TrueChannel[v] # Nobody
         /\ \A d \in Channels : Belongs(v, d) => d = TrueChannel[v]
         /\ \A d \in Channels : <<d, v>> \in archive => d = TrueChannel[v]
         /\ channelOf[v] \in Channels => channelOf[v] = TrueChannel[v]
  <1>1. TrueChannel[v] \in Channels /\ TrueChannel[v] # Nobody
    BY TrueChannelAssumption, ChannelAssumption
  <1>2. \A d \in Channels : Belongs(v, d) => d = TrueChannel[v]
    BY DEF Belongs
  <1>3. \A d \in Channels : <<d, v>> \in archive => d = TrueChannel[v]
    BY DEF RulesTyped
  <1> QED
    BY <1>1, <1>2, <1>3 DEF RulesTyped, ChannelsKnown

\* What a channel that is allowed lists.
LEMMA ListedVideos ==
  ASSUME RulesTyped, NEW facts, facts \subseteq HouseFacts, NEW v \in Videos,
         <<"listed", TrueChannel[v], v>> \in facts, <<"granted", TrueChannel[v]>> \in facts
  PROVE  TrueChannel[v] \in Granted /\ v \in UploadsOf(TrueChannel[v])
  <1>1. TrueChannel[v] \in Channels
    BY TrueChannelAssumption
  <1>2. <<TrueChannel[v], v>> \in archive /\ granted[TrueChannel[v]] # Nobody
    BY <1>1, FactsMean
  <1> DEFINE row == <<TrueChannel[v], v>>
  <1>3. row \in {up \in archive : up[1] = TrueChannel[v]} /\ row[2] = v
    BY <1>2
  <1> QED
    BY <1>1, <1>2, <1>3 DEF Granted, UploadsOf

LEMMA ShowsDelivers ==
  ASSUME RequestsSound, NEW r \in Requests, NEW vs, Shows(r, vs),
         \A facts, v : /\ facts \subseteq HouseFacts /\ v \in Videos
                       /\ Deserves(request[r], facts, v) /\ Underway(request[r], facts, v)
                       => v \in vs
  PROVE  PageDelivers(r)
  <1> DEFINE rec == request[r]
             next == [rec EXCEPT !.shown = vs, !.pc = "answered"]
  <1>1. Reads(r, next)
    BY DEF Shows
  <1>2. next.op = rec.op /\ next.on = rec.on /\ next.pc = "answered" /\ next.shown = vs
    BY RequestIsSound DEF IsRequest, Fields
  <1> HIDE DEF next
  <1>3. ASSUME NEW facts, NEW v, facts \subseteq HouseFacts, v \in Videos,
               Deserves(rec, facts, v), Underway(rec, facts, v)
        PROVE  Underway(next, facts, v)
    BY <1>2, <1>3 DEF Underway, Stages
  <1> QED
    BY <1>1, <1>2, <1>3 DEF PageDelivers, Delivers

LEMMA ListDelivers ==
  ASSUME RequestsSound, RulesTyped, NEW r \in Requests, ListAtOnce(r)
  PROVE  PageDelivers(r)
  <1> DEFINE rec == request[r]
  <1>1. Sound(rec)
    BY RequestIsSound
  <1>2. CASE At(r, "newVideos")
    <2> DEFINE vs == {v \in UNION {UploadsOf(c) : c \in Granted} : Clear(v)}
    <2>1. Shows(r, vs)
      BY <1>2 DEF ListAtOnce, At
    <2>2. rec.op = "newVideos"
      BY <1>1, <1>2 DEF At, Sound, PageSound, ListOps
    <2>3. ASSUME NEW facts, NEW v, facts \subseteq HouseFacts, v \in Videos, Deserves(rec, facts, v)
          PROVE  v \in vs
      <3>1. Owes(rec, facts, v) /\ <<"open", v>> \in facts /\ <<"seen", v>> \in facts
        BY <2>3 DEF Deserves
      <3>2. <<"listed", TrueChannel[v], v>> \in facts /\ <<"granted", TrueChannel[v]>> \in facts
        BY <2>2, <3>1 DEF Owes, GateOps
      <3>3. TrueChannel[v] \in Granted /\ v \in UploadsOf(TrueChannel[v])
        BY <2>3, <3>2, ListedVideos
      <3>4. Clear(v)
        BY <2>3, <3>1, FactsMean DEF Clear
      <3> QED
        BY <3>3, <3>4
    <2> QED
      BY <2>1, <2>3, ShowsDelivers
  <1>3. CASE At(r, "likes")
    <2> DEFINE vs == {v \in Videos : liked[v] = "live" /\ Clear(v)
                                     /\ (direct[v] # Nobody \/ channelOf[v] \in Granted)}
    <2>1. Shows(r, vs)
      BY <1>3 DEF ListAtOnce, At
    <2>2. rec.op = "likes"
      BY <1>1, <1>3 DEF At, Sound, PageSound, ListOps
    <2>3. ASSUME NEW facts, NEW v, facts \subseteq HouseFacts, v \in Videos, Deserves(rec, facts, v)
          PROVE  v \in vs
      <3>1. Owes(rec, facts, v) /\ <<"open", v>> \in facts /\ <<"seen", v>> \in facts
        BY <2>3 DEF Deserves
      <3>2. <<"liked", v>> \in facts
        BY <2>2, <3>1 DEF Owes, GateOps
      <3>3. liked[v] = "live" /\ Clear(v)
        BY <2>3, <3>1, <3>2, FactsMean DEF Clear
      <3>4. CASE <<"direct", v>> \in facts
        BY <2>3, <3>3, <3>4, FactsMean
      <3>5. CASE <<"direct", v>> \notin facts
        <4>1. <<"known", v>> \in facts /\ <<"granted", TrueChannel[v]>> \in facts
          BY <2>2, <2>3, <3>5 DEF Deserves, ChannelKnown, GateOps
        <4>2. channelOf[v] = TrueChannel[v] /\ TrueChannel[v] \in Channels
          BY <2>3, <4>1, FactsMean, OnlyChannel DEF Deserves
        <4>3. TrueChannel[v] \in Granted
          BY <2>3, <4>1, <4>2, FactsMean DEF Granted
        <4> QED
          BY <2>3, <3>3, <4>2, <4>3
      <3> QED
        BY <3>4, <3>5
    <2> QED
      BY <2>1, <2>3, ShowsDelivers
  <1> QED
    BY <1>2, <1>3 DEF ListAtOnce

LEMMA ChannelPageDelivers ==
  ASSUME RequestsSound, RulesTyped, NEW r \in Requests, EnforceChannelAccess(r)
  PROVE  PageDelivers(r)
  <1> DEFINE rec == request[r]
             c == rec.on
  <1>1. Sound(rec) /\ IsRequest(rec)
    BY RequestIsSound
  <1>2. rec.op = "channelPage"
    BY <1>1 DEF EnforceChannelAccess, At, Sound, PageSound, ListOps
  <1>3. ASSUME NEW facts, NEW v, facts \subseteq HouseFacts, v \in Videos, Deserves(rec, facts, v)
        PROVE  c \in Granted /\ v \in UploadsOf(c) /\ Clear(v)
    <2>1. Owes(rec, facts, v) /\ <<"open", v>> \in facts /\ <<"seen", v>> \in facts
      BY <1>3 DEF Deserves
    <2>2. /\ c = TrueChannel[v]
          /\ <<"listed", TrueChannel[v], v>> \in facts /\ <<"granted", TrueChannel[v]>> \in facts
      BY <1>2, <2>1 DEF Owes, GateOps
    <2>3. c \in Granted /\ v \in UploadsOf(c)
      BY <1>3, <2>2, ListedVideos
    <2>4. Clear(v)
      BY <1>3, <2>1, FactsMean DEF Clear
    <2> QED
      BY <2>3, <2>4
  <1>4. ASSUME NEW pc \in {"uploads", "subscribed?", "answered"}, Reads(r, [rec EXCEPT !.pc = pc]),
               \A facts, v : /\ facts \subseteq HouseFacts /\ v \in Videos
                             /\ Deserves(rec, facts, v) /\ Underway(rec, facts, v)
                             => pc = "uploads"
        PROVE  PageDelivers(r)
    <2> DEFINE next == [rec EXCEPT !.pc = pc]
    <2>1. next.op = rec.op /\ next.on = rec.on /\ next.pc = pc
      BY <1>1 DEF IsRequest, Fields
    <2>2. Reads(r, next)
      BY <1>4
    <2> HIDE DEF next
    <2>3. ASSUME NEW facts, NEW v, facts \subseteq HouseFacts, v \in Videos,
                 Deserves(rec, facts, v), Underway(rec, facts, v)
          PROVE  Underway(next, facts, v)
      <3>1. next.pc = "uploads"
        BY <1>4, <2>1, <2>3
      <3> QED
        BY <3>1 DEF Underway, Stages
    <2> QED
      BY <2>1, <2>2, <2>3 DEF PageDelivers, Delivers
  <1>5. CASE At(r, "channelPage")
    <2>1. Reads(r, [rec EXCEPT !.pc = IF granted[c] # Nobody THEN "uploads" ELSE "subscribed?"])
      BY <1>5 DEF EnforceChannelAccess, At
    <2>2. \A facts, v : facts \subseteq HouseFacts /\ v \in Videos /\ Deserves(rec, facts, v)
                        => granted[c] # Nobody
      BY <1>3 DEF Granted
    <2> QED
      BY <1>4, <2>1, <2>2
  <1>6. CASE At(r, "subscribed?")
    <2>1. Reads(r, [rec EXCEPT !.pc = IF subscribed[c] = "live" THEN "uploads" ELSE "answered"])
      BY <1>6 DEF EnforceChannelAccess, At
    <2>2. \A facts, v : ~Underway(rec, facts, v)
      BY <1>6 DEF Underway, At
    <2> QED
      BY <1>4, <2>1, <2>2
  <1>7. CASE At(r, "uploads")
    <2>1. Shows(r, {v \in UploadsOf(c) : Clear(v)})
      BY <1>7 DEF EnforceChannelAccess, At
    <2> QED
      BY <1>3, <2>1, ShowsDelivers
  <1> QED
    BY <1>5, <1>6, <1>7 DEF EnforceChannelAccess

LEMMA SearchDelivers ==
  ASSUME RequestsSound, RulesTyped, NEW r \in Requests,
         Search(r) \/ LookForPrior(r) \/ LogSearch(r)
  PROVE  PageDelivers(r)
  <1> DEFINE rec == request[r]
  <1>1. Sound(rec) /\ IsRequest(rec)
    BY RequestIsSound
  <1>2. rec.op = "search"
    BY <1>1 DEF Search, LookForPrior, LogSearch, At, Sound, PageSound, ListOps
  <1>3. CASE Search(r)
    <2> DEFINE vs == {w \in Videos : direct[w] # Nobody \/ watched[w] # "none"}
                     \cup UNION {UploadsOf(c) : c \in Granted}
               rows == {<<v, channelOf[v]>> : v \in vs}
    <2>1. Asks(r, rows)
      BY <1>3 DEF Search
    <2>2. ASSUME NEW facts, NEW v, facts \subseteq HouseFacts, v \in Videos, Deserves(rec, facts, v)
          PROVE  \E row \in rows : Fits(rec, facts, v, row)
      <3>1. Owes(rec, facts, v)
        BY <2>2 DEF Deserves
      <3>2. v \in vs
        <4>1. CASE <<"direct", v>> \in facts
          BY <2>2, <4>1, FactsMean
        <4>2. CASE <<"started", v>> \in facts
          <5>1. watched[v] = "started"
            BY <2>2, <4>2, FactsMean
          <5> QED
            BY <2>2, <5>1
        <4>3. CASE <<"listed", TrueChannel[v], v>> \in facts /\ <<"granted", TrueChannel[v]>> \in facts
          BY <2>2, <4>3, ListedVideos
        <4> QED
          BY <1>2, <3>1, <4>1, <4>2, <4>3 DEF Owes, GateOps
      <3>3. ChannelKnown(rec, facts, v) => channelOf[v] = TrueChannel[v]
        <4>1. ChannelKnown(rec, facts, v) => <<"known", v>> \in facts
          BY <1>2 DEF ChannelKnown, GateOps
        <4> QED
          BY <2>2, <4>1, FactsMean, OnlyChannel DEF Deserves
      <3>4. Fits(rec, facts, v, <<v, channelOf[v]>>)
        BY <3>3 DEF Fits
      <3> QED
        BY <3>2, <3>4
    <2> QED
      BY <2>1, <2>2, AsksDelivers
  <1>4. ASSUME NEW next, Reads(r, next) \/ Commits(r, next), GoesOn(rec, next, next.pc), next.on = rec.on,
               next.pc \in {"log search", "answered", "parents"}, rec.pc \in {"prior?", "log search"}
        PROVE  PageDelivers(r)
    <2>1. ASSUME NEW facts, NEW v, Underway(rec, facts, v) PROVE Underway(next, facts, v)
      <3>1. v \in rec.shown
        BY <1>4, <2>1 DEF Underway
      <3>2. v \in next.shown
        BY <1>4, <3>1 DEF GoesOn
      <3> QED
        BY <1>4, <3>2 DEF Underway, Stages
    <2> QED
      BY <1>4, <2>1 DEF PageDelivers, Delivers, GoesOn
  <1>5. CASE LookForPrior(r)
    <2> DEFINE next == [rec EXCEPT !.saw = searched, !.pc = "log search"]
    <2>1. Reads(r, next)
      BY <1>5 DEF LookForPrior
    <2>2. GoesOn(rec, next, "log search") /\ next.on = rec.on /\ rec.pc = "prior?"
      BY <1>1, <1>5, MovesSeeing DEF LookForPrior, At
    <2> HIDE DEF next
    <2> QED
      BY <1>4, <2>1, <2>2 DEF GoesOn
  <1>6. CASE LogSearch(r)
    <2> DEFINE pc == IF rec.saw THEN "answered" ELSE "parents"
               next == [rec EXCEPT !.pc = pc]
    <2>1. Commits(r, next)
      BY <1>6 DEF LogSearch
    <2>2. GoesOn(rec, next, pc) /\ next.on = rec.on
      BY <1>1, MovesOn
    <2>3. rec.pc = "log search"
      BY <1>6 DEF LogSearch, At
    <2>4. pc = "answered" \/ pc = "parents"
      OBVIOUS
    <2> HIDE DEF next, pc
    <2> QED
      BY <1>4, <2>1, <2>2, <2>3, <2>4 DEF GoesOn
  <1> QED
    BY <1>3, <1>5, <1>6

\* The largest channel that lists a video is the only one that does.
LEMMA ResolveFits ==
  ASSUME RulesTyped, NEW rec, rec.op \in {"continueWatching", "watchAgain"}, NEW row \in PageRows,
         NEW facts, NEW v, facts \subseteq HouseFacts, v \in Videos, Deserves(rec, facts, v),
         row[1] = v, <<"known", v>> \in facts => row[2] \in Channels
  PROVE  Fits(rec, facts, v, Resolve(row))
  <1> DEFINE cs == {c \in Channels : <<c, row[1]>> \in archive}
             most == CHOOSE c \in cs : \A d \in cs : d <= c
  <1>1. /\ \A d \in Channels : Belongs(v, d) => d = TrueChannel[v]
        /\ \A d \in Channels : <<d, v>> \in archive => d = TrueChannel[v]
        /\ TrueChannel[v] \in Channels
    BY OnlyChannel DEF Deserves
  <1>2. PICK c \in Channels \cup {Nobody} : row = <<v, c>> /\ (c \in Channels => Belongs(v, c))
    BY DEF PageRows
  <1>3. CASE row[2] # Nobody
    <2>1. Resolve(row) = row
      BY <1>3 DEF Resolve
    <2>2. row[2] = TrueChannel[v]
      BY <1>1, <1>2, <1>3
    <2> QED
      BY <2>1, <2>2 DEF Fits
  <1>4. CASE row[2] = Nobody /\ cs = {}
    <2>1. Resolve(row) = row
      BY <1>4 DEF Resolve
    <2>2. <<"known", v>> \notin facts
      BY <1>4, ChannelAssumption
    <2>3. <<"listed", TrueChannel[v], v>> \notin facts
      <3>1. <<TrueChannel[v], v>> \notin archive
        BY <1>1, <1>4
      <3> QED
        BY <3>1, FactsMean
    <2>4. ~ChannelKnown(rec, facts, v)
      BY <2>2, <2>3 DEF ChannelKnown, GateOps
    <2> QED
      BY <2>1, <2>4 DEF Fits
  <1>5. CASE row[2] = Nobody /\ cs # {}
    <2>1. Resolve(row) = <<v, most>>
      BY <1>5 DEF Resolve
    <2>2. most \in cs
      BY <1>5, LargestAssumption
    <2>3. most = TrueChannel[v]
      BY <1>1, <2>2
    <2> HIDE DEF most, cs
    <2> QED
      BY <2>1, <2>3 DEF Fits
  <1> QED
    BY <1>3, <1>4, <1>5

LEMMA WatchPageDelivers ==
  ASSUME RequestsSound, RulesTyped, NEW r \in Requests,
         WatchHistory(r) \/ LookupChannelIds(r) \/ BackfillVideoChannelIds(r)
  PROVE  PageDelivers(r)
  <1> DEFINE rec == request[r]
  <1>1. Sound(rec) /\ IsRequest(rec)
    BY RequestIsSound
  <1>2. rec.pc \in {"continueWatching", "watchAgain", "lookup", "write back"}
    BY DEF WatchHistory, LookupChannelIds, BackfillVideoChannelIds, At
  <1>3. rec.op \in {"continueWatching", "watchAgain"}
    BY <1>1, <1>2 DEF Sound, PageSound, ListOps
  <1>4. rec.op \in PageOps
    BY <1>3 DEF PageOps, ListOps
  <1>5. rec.rows \subseteq PageRows
    BY <1>1, <1>2, <1>4 DEF Sound, PageSound
  <1>6. CASE WatchHistory(r)
    <2> DEFINE kept == {v \in Videos : watched[v] = Keep(rec.op)}
               rows == {<<v, channelOf[v]>> : v \in kept}
    <2>1. ASSUME NEW facts, NEW v, facts \subseteq HouseFacts, v \in Videos, Deserves(rec, facts, v)
          PROVE  v \in kept /\ channelOf[v] \in Channels \cup {Nobody}
      <3>1. <<Keep(rec.op), v>> \in facts
        BY <1>3, <2>1 DEF Deserves, Owes, GateOps
      <3>2. watched[v] = Keep(rec.op)
        BY <2>1, <3>1, FactsMean DEF Keep
      <3>3. channelOf[v] # Unborn
        BY <2>1, <3>2 DEF RulesTyped, ChannelsKnown, Keep
      <3> QED
        BY <2>1, <3>2, <3>3 DEF RulesTyped
    <2>2. CASE \E row \in rows : row[2] = Nobody
      <3> DEFINE next == [rec EXCEPT !.rows = rows, !.pc = "lookup"]
      <3>1. Reads(r, next)
        BY <1>6, <2>2 DEF WatchHistory
      <3>2. next.op = rec.op /\ next.on = rec.on /\ next.pc = "lookup" /\ next.rows = rows
        BY <1>1 DEF IsRequest, Fields
      <3> HIDE DEF next
      <3>3. ASSUME NEW facts, NEW v, facts \subseteq HouseFacts, v \in Videos, Deserves(rec, facts, v)
            PROVE  Underway(next, facts, v)
        <4>1. <<v, channelOf[v]>> \in next.rows
          BY <2>1, <3>2, <3>3
        <4>2. <<"known", v>> \in facts => channelOf[v] \in Channels
          BY <3>3, FactsMean
        <4>3. \E row \in next.rows : row[1] = v /\ (<<"known", v>> \in facts => row[2] \in Channels)
          BY <4>1, <4>2
        <4> QED
          BY <3>2, <4>3 DEF Underway, Stages
      <3> QED
        BY <3>1, <3>2, <3>3 DEF PageDelivers, Delivers
    <2>3. CASE ~\E row \in rows : row[2] = Nobody
      <3>1. Asks(r, rows)
        BY <1>6, <2>3 DEF WatchHistory
      <3>2. ASSUME NEW facts, NEW v, facts \subseteq HouseFacts, v \in Videos, Deserves(rec, facts, v)
            PROVE  \E row \in rows : Fits(rec, facts, v, row)
        <4>1. <<v, channelOf[v]>> \in rows
          BY <2>1, <3>2
        <4>2. channelOf[v] # Nobody
          BY <2>3, <4>1
        <4>3. channelOf[v] = TrueChannel[v]
          BY <2>1, <3>2, <4>2, OnlyChannel DEF Deserves
        <4>4. Fits(rec, facts, v, <<v, channelOf[v]>>)
          BY <4>3 DEF Fits
        <4> QED
          BY <4>1, <4>4
      <3> QED
        BY <3>1, <3>2, AsksDelivers
    <2> QED
      BY <2>2, <2>3
  <1>7. CASE LookupChannelIds(r)
    <2> DEFINE rows == {Resolve(row) : row \in rec.rows}
               next == [rec EXCEPT !.rows = rows, !.pc = "write back"]
    <2>1. Reads(r, next) /\ rec.pc = "lookup"
      BY <1>7 DEF LookupChannelIds, At
    <2>2. next.op = rec.op /\ next.on = rec.on /\ next.pc = "write back" /\ next.rows = rows
      BY <1>1 DEF IsRequest, Fields
    <2> HIDE DEF next
    <2>3. ASSUME NEW facts, NEW v, facts \subseteq HouseFacts, v \in Videos,
                 Deserves(rec, facts, v), Underway(rec, facts, v)
          PROVE  Underway(next, facts, v)
      <3>1. PICK row \in rec.rows : row[1] = v /\ (<<"known", v>> \in facts => row[2] \in Channels)
        BY <2>1, <2>3 DEF Underway
      <3>2. Fits(rec, facts, v, Resolve(row))
        BY <1>3, <1>5, <2>3, <3>1, ResolveFits
      <3>3. Fits(next, facts, v, Resolve(row))
        BY <2>2, <3>2, SameDeserts
      <3>4. Resolve(row) \in next.rows
        BY <2>2, <3>1
      <3> QED
        BY <2>2, <3>3, <3>4 DEF Underway, Stages
    <2> QED
      BY <2>1, <2>2, <2>3 DEF PageDelivers, Delivers
  <1>8. CASE BackfillVideoChannelIds(r)
    <2>1. (\E next \in NextRow(rec, {}, rec.rows) : Commits(r, next)) /\ rec.pc = "write back"
      BY <1>8 DEF BackfillVideoChannelIds, At
    <2>2. ASSUME NEW facts, NEW v, Underway(rec, facts, v)
          PROVE  \E row \in rec.rows : Fits(rec, facts, v, row)
      BY <2>1, <2>2 DEF Underway
    <2> QED
      BY <2>1, <2>2, AsksDelivers
  <1> QED
    BY <1>6, <1>7, <1>8

LEMMA UpNextDelivers ==
  ASSUME RequestsSound, RulesTyped, NEW r \in Requests,
         UpNextFromChannel(r) \/ UpNextFromNewVideos(r) \/ UpNext(r)
  PROVE  PageDelivers(r)
  <1> DEFINE rec == request[r]
  <1>1. Sound(rec) /\ IsRequest(rec)
    BY RequestIsSound
  <1>2. rec.pc \in {"upNextOf", "upNext", "bucket", "unwatched"}
    BY DEF UpNextFromChannel, UpNextFromNewVideos, UpNext, At
  <1>3. /\ rec.op \in {"upNext", "upNextOf"}
        /\ rec.pc \in {"upNext", "bucket"} => rec.op = "upNext"
        /\ rec.pc = "upNextOf" => rec.op = "upNextOf"
    BY <1>1, <1>2 DEF Sound, PageSound, ListOps
  <1>4. ASSUME NEW facts, NEW v, facts \subseteq HouseFacts, v \in Videos, Deserves(rec, facts, v)
        PROVE  /\ TrueChannel[v] \in Granted
               /\ <<v, TrueChannel[v]>> \in Listed(TrueChannel[v])
               /\ watched[v] = "none"
               /\ rec.op = "upNextOf" => rec.on = TrueChannel[v]
    <2>1. Owes(rec, facts, v)
      BY <1>4 DEF Deserves
    <2>2. /\ <<"listed", TrueChannel[v], v>> \in facts /\ <<"granted", TrueChannel[v]>> \in facts
          /\ <<"none", v>> \in facts
          /\ rec.op = "upNextOf" => rec.on = TrueChannel[v]
      BY <1>3, <2>1 DEF Owes, GateOps
    <2>3. TrueChannel[v] \in Granted /\ v \in UploadsOf(TrueChannel[v])
      BY <1>4, <2>2, ListedVideos
    <2>4. watched[v] = "none"
      BY <1>4, <2>2, FactsMean
    <2> QED
      BY <2>2, <2>3, <2>4 DEF Listed
  <1>5. CASE UpNextFromChannel(r)
    <2> DEFINE rows == Listed(rec.on)
               next == [rec EXCEPT !.rows = rows, !.pc = "unwatched"]
    <2>1. Reads(r, next) /\ rec.op = "upNextOf"
      BY <1>3, <1>5 DEF UpNextFromChannel, At
    <2>2. next.op = rec.op /\ next.on = rec.on /\ next.pc = "unwatched" /\ next.rows = rows
      BY <1>1 DEF IsRequest, Fields
    <2> HIDE DEF next
    <2>3. ASSUME NEW facts, NEW v, facts \subseteq HouseFacts, v \in Videos, Deserves(rec, facts, v)
          PROVE  Underway(next, facts, v)
      <3>1. <<v, TrueChannel[v]>> \in next.rows
        BY <1>4, <2>1, <2>2, <2>3
      <3> QED
        BY <2>2, <3>1 DEF Underway, Stages
    <2> QED
      BY <2>1, <2>2, <2>3 DEF PageDelivers, Delivers
  <1>6. CASE At(r, "upNext") /\ UpNextFromNewVideos(r)
    <2> DEFINE next == [rec EXCEPT !.saw = Granted, !.pc = "bucket"]
    <2>1. Reads(r, next)
      BY <1>6 DEF UpNextFromNewVideos, At
    <2>2. next.op = rec.op /\ next.on = rec.on /\ next.pc = "bucket" /\ next.saw = Granted
      BY <1>1 DEF IsRequest, Fields
    <2> HIDE DEF next
    <2>3. ASSUME NEW facts, NEW v, facts \subseteq HouseFacts, v \in Videos, Deserves(rec, facts, v)
          PROVE  Underway(next, facts, v)
      <3>1. TrueChannel[v] \in next.saw
        BY <1>4, <2>2, <2>3
      <3> QED
        BY <2>2, <3>1 DEF Underway, Stages
    <2> QED
      BY <2>1, <2>2, <2>3 DEF PageDelivers, Delivers
  <1>7. CASE At(r, "bucket") /\ UpNextFromNewVideos(r) /\ rec.saw = {}
    <2> DEFINE next == [rec EXCEPT !.pc = "unwatched"]
    <2>1. Reads(r, next)
      BY <1>7 DEF UpNextFromNewVideos, At
    <2>2. next.op = rec.op /\ next.on = rec.on /\ next.pc = "unwatched" /\ next.rows = rec.rows
      BY <1>1 DEF IsRequest, Fields
    <2> HIDE DEF next
    <2>3. ASSUME NEW facts, NEW v, Underway(rec, facts, v)
          PROVE  Underway(next, facts, v)
      <3>1. <<v, TrueChannel[v]>> \in next.rows
        BY <1>7, <2>2, <2>3 DEF Underway, At
      <3> QED
        BY <2>2, <3>1 DEF Underway, Stages
    <2> QED
      BY <2>1, <2>2, <2>3 DEF PageDelivers, Delivers
  <1>8. CASE At(r, "bucket") /\ UpNextFromNewVideos(r) /\ rec.saw # {}
    <2>1. PICK c \in rec.saw : Reads(r, [rec EXCEPT !.rows = @ \cup Listed(c), !.saw = @ \ {c}])
      BY <1>8 DEF UpNextFromNewVideos, At
    <2> DEFINE next == [rec EXCEPT !.rows = @ \cup Listed(c), !.saw = @ \ {c}]
    <2>2. /\ next.op = rec.op /\ next.on = rec.on /\ next.pc = "bucket"
          /\ next.rows = rec.rows \cup Listed(c) /\ next.saw = rec.saw \ {c}
      BY <1>1, <1>8 DEF IsRequest, Fields, At
    <2>3. Reads(r, next)
      BY <2>1
    <2> HIDE DEF next
    <2>4. ASSUME NEW facts, NEW v, facts \subseteq HouseFacts, v \in Videos,
                 Deserves(rec, facts, v), Underway(rec, facts, v)
          PROVE  Underway(next, facts, v)
      <3>1. TrueChannel[v] \in rec.saw \/ <<v, TrueChannel[v]>> \in rec.rows
        BY <1>8, <2>4 DEF Underway, At
      <3>2. <<v, TrueChannel[v]>> \in Listed(TrueChannel[v])
        BY <1>4, <2>4
      <3>3. TrueChannel[v] \in next.saw \/ <<v, TrueChannel[v]>> \in next.rows
        BY <2>2, <3>1, <3>2
      <3> QED
        BY <2>2, <3>3 DEF Underway, Stages
    <2> QED
      BY <2>2, <2>3, <2>4 DEF PageDelivers, Delivers
  <1>9. CASE UpNext(r)
    <2> DEFINE rows == {row \in rec.rows : watched[row[1]] = "none"}
    <2>1. Asks(r, rows) /\ rec.pc = "unwatched"
      BY <1>9 DEF UpNext, At
    <2>2. ASSUME NEW facts, NEW v, facts \subseteq HouseFacts, v \in Videos,
                 Deserves(rec, facts, v), Underway(rec, facts, v)
          PROVE  \E row \in rows : Fits(rec, facts, v, row)
      <3>1. <<v, TrueChannel[v]>> \in rec.rows
        BY <2>1, <2>2 DEF Underway
      <3>2. <<v, TrueChannel[v]>> \in rows
        BY <1>4, <2>2, <3>1
      <3>3. Fits(rec, facts, v, <<v, TrueChannel[v]>>)
        BY DEF Fits
      <3> QED
        BY <3>2, <3>3
    <2> QED
      BY <2>1, <2>2, AsksDelivers
  <1> QED
    BY <1>5, <1>6, <1>7, <1>8, <1>9 DEF UpNextFromNewVideos

LEMMA GatedDelivers ==
  ASSUME RequestsSound, RulesTyped, NEW r \in Requests,
         Extracted(r) \/ EnsureDownloadsEnabled(r) \/ InsertDownload(r)
  PROVE  PageDelivers(r)
  <1> DEFINE rec == request[r]
             rows == {<<rec.on, TrueChannel[rec.on]>>}
  <1>1. Sound(rec) /\ IsRequest(rec)
    BY RequestIsSound
  <1>2. /\ rec.op \in GateOps
        /\ rec.pc = "downloads?" => rec.op \in GateOps \ {"stream"}
    BY <1>1 DEF Extracted, EnsureDownloadsEnabled, InsertDownload, At, Sound, PageSound, GateOps
  <1>3. ASSUME NEW facts, NEW v, facts \subseteq HouseFacts, v \in Videos, Deserves(rec, facts, v)
        PROVE  /\ \E row \in rows : Fits(rec, facts, v, row)
               /\ rec.pc = "downloads?" => settings = "on"
    <2>1. Owes(rec, facts, v)
      BY <1>3 DEF Deserves
    <2>2. v = rec.on /\ (rec.pc = "downloads?" => <<"downloads", "on">> \in facts)
      BY <1>2, <2>1 DEF Owes, GateOps
    <2>3. Fits(rec, facts, v, <<rec.on, TrueChannel[rec.on]>>)
      BY <2>2 DEF Fits
    <2> QED
      BY <1>3, <2>2, <2>3, FactsMean
  <1>4. CASE Extracted(r)
    <2>1. Asks(r, rows)
      BY <1>4 DEF Extracted
    <2> QED
      BY <1>3, <2>1, AsksDelivers
  <1>5. CASE EnsureDownloadsEnabled(r) /\ settings = "on"
    <2>1. Asks(r, rows)
      BY <1>5 DEF EnsureDownloadsEnabled
    <2> QED
      BY <1>3, <2>1, AsksDelivers
  <1>6. CASE EnsureDownloadsEnabled(r) /\ settings # "on"
    <2>1. Shows(r, {}) /\ rec.pc = "downloads?"
      BY <1>6 DEF EnsureDownloadsEnabled, At
    <2>2. \A facts, v : ~(facts \subseteq HouseFacts /\ v \in Videos /\ Deserves(rec, facts, v))
      BY <1>3, <1>6, <2>1
    <2> QED
      BY <2>1, <2>2, ShowsDelivers
  <1>7. CASE InsertDownload(r)
    <2> DEFINE next == [rec EXCEPT !.pc = "answered"]
    <2>1. Commits(r, next) /\ rec.pc = "insert download"
      BY <1>7 DEF InsertDownload, At
    <2>2. next.op = rec.op /\ next.on = rec.on /\ next.pc = "answered" /\ next.shown = rec.shown
      BY <1>1 DEF IsRequest, Fields
    <2> HIDE DEF next
    <2>3. ASSUME NEW facts, NEW v, Underway(rec, facts, v) PROVE Underway(next, facts, v)
      <3>1. v \in next.shown
        BY <2>1, <2>2, <2>3 DEF Underway
      <3> QED
        BY <2>2, <3>1 DEF Underway, Stages
    <2> QED
      BY <2>1, <2>2, <2>3 DEF PageDelivers, Delivers
  <1> QED
    BY <1>4, <1>5, <1>6, <1>7

LEMMA PagesDeliver ==
  ASSUME RequestsSound, RulesTyped, NEW r \in Requests, PageStep(r)
  PROVE  PageDelivers(r)
  BY GateDelivers, ListDelivers, ChannelPageDelivers, SearchDelivers, WatchPageDelivers, UpNextDelivers,
     GatedDelivers DEF PageStep

\* While a request lasts its history loses the facts that fail to hold.
LEMMA HistoryShrinks ==
  ASSUME Remembers, NEW r \in Requests
  PROVE  /\ request'[r].op \notin Watched \/ At(r, "answered") => memory'[r] = memory[r]
         /\ request'[r].op \in Watched /\ ~At(r, "answered") =>
               /\ memory'[r].all \subseteq FactsFor(request[r])'
               /\ ~At(r, "new") => memory'[r].all \subseteq memory[r].all
  BY DEF Remembers, Watched

\* What the pages owe after a step, said of the state before it.
LEMMA PromisesAfter ==
  ASSUME \A q \in Requests : request'[q].op \in PageOps =>
             /\ request'[q].pc # "answered" => memory'[q].all \subseteq HouseFacts'
             /\ \A facts \in SUBSET memory'[q].all : \A v \in Videos : Promised(request'[q], facts, v)
  PROVE  PagesPromise'
  BY DEF PagesPromise, PagePromise, Promised, Deserves, Owes, ChannelKnown, Underway, Fits

\* It is enough to look at the request that moves.
LEMMA OthersPromise ==
  ASSUME RequestsSound, PagesPromise, Remembers, NEW r \in Requests, NEW next, Turns(r, next),
         next.op \in PageOps =>
             /\ ~At(r, "answered")
             /\ \A facts \in SUBSET memory'[r].all : \A v \in Videos : Promised(next, facts, v)
  PROVE  PagesPromise'
  <1> SUFFICES ASSUME NEW q \in Requests, request'[q].op \in PageOps
               PROVE  /\ request'[q].pc # "answered" => memory'[q].all \subseteq HouseFacts'
                      /\ \A facts \in SUBSET memory'[q].all : \A v \in Videos :
                             Promised(request'[q], facts, v)
    BY PromisesAfter
  <1>1. ~At(q, "answered") => memory'[q].all \subseteq HouseFacts'
    <2>1. FactsFor(request[q])' \subseteq HouseFacts'
      BY DEF FactsFor, HouseFacts, ListOps, GateOps, PageOps
    <2> QED
      BY <2>1, HistoryShrinks DEF Watched
  <1>2. CASE q = r
    BY <1>1, <1>2 DEF Turns
  <1>3. CASE q # r
    <2>1. request'[q] = request[q]
      BY <1>3, OvertakenIsSound DEF Turns, RequestsSound, At
    <2>2. \A facts \in SUBSET memory[q].all : \A v \in Videos : Promised(request[q], facts, v)
      BY <2>1 DEF PagesPromise, PagePromise
    <2>3. ~At(q, "new")
      BY <2>1 DEF RequestsSound, Sound, At, New, PageOps, ListOps, GateOps
    <2>4. CASE At(q, "answered")
      BY <2>1, <2>2, <2>4, HistoryShrinks DEF At
    <2>5. CASE ~At(q, "answered")
      <3>1. memory'[q].all \subseteq memory[q].all
        BY <2>1, <2>3, <2>5, HistoryShrinks DEF Watched
      <3> QED
        BY <1>1, <2>1, <2>2, <2>5, <3>1
    <2> QED
      BY <2>4, <2>5
  <1> QED
    BY <1>2, <1>3

\* Nothing is owed to a request that has just begun.
LEMMA EntriesPromise ==
  ASSUME NEW rec, Entry(rec), rec.op \in PageOps, NEW facts, NEW v
  PROVE  Promised(rec, facts, v)
  <1>1. rec.pc \in EntryPcs
    BY DEF Entry, PageOps, ListOps, GateOps
  <1> QED
    BY <1>1 DEF Promised, Underway, EntryPcs, OwnOps, ListOps, Stages

LEMMA PagesMovePromising ==
  ASSUME HouseTyped, PagesPromise, Remembers, NEW r \in Requests, PageStep(r)
  PROVE  PagesPromise'
  <1>1. PICK next : (Reads(r, next) \/ Commits(r, next)) /\ Delivers(request[r], next)
    BY PagesDeliver DEF HouseTyped, PageDelivers
  <1>2. Turns(r, next) /\ next = request'[r]
    BY <1>1, StepsTurn DEF HouseTyped, RequestsSound, Turns
  <1>3. ASSUME next.op \in PageOps
        PROVE  /\ ~At(r, "answered")
               /\ \A facts \in SUBSET memory'[r].all : \A v \in Videos : Promised(next, facts, v)
    <2>1. ~At(r, "answered") /\ ~At(r, "new")
      BY PlacesOfPages
    <2>2. request[r].op \in PageOps
      BY <1>1, <1>3 DEF Delivers
    <2>3. /\ memory[r].all \subseteq HouseFacts
          /\ \A facts \in SUBSET memory[r].all : \A v \in Videos : Promised(request[r], facts, v)
      BY <2>1, <2>2 DEF PagesPromise, PagePromise, At
    <2>4. memory'[r].all \subseteq memory[r].all
      BY <1>2, <1>3, <2>1, HistoryShrinks DEF Watched
    <2>5. ASSUME NEW facts \in SUBSET memory'[r].all, NEW v \in Videos, Deserves(next, facts, v)
          PROVE  Underway(next, facts, v)
      <3>1. Deserves(request[r], facts, v)
        BY <1>1, <2>5, SameDeserts DEF Delivers
      <3>2. facts \in SUBSET memory[r].all /\ facts \subseteq HouseFacts
        BY <2>3, <2>4
      <3>3. Underway(request[r], facts, v)
        BY <2>3, <3>1, <3>2 DEF Promised
      <3> QED
        BY <1>1, <3>1, <3>2, <3>3 DEF Delivers
    <2> QED
      BY <2>1, <2>5 DEF Promised
  <1> QED
    BY <1>2, <1>3, OthersPromise DEF HouseTyped

\* What a search tells the parents leaves its answer.
LEMMA NoticesPromise ==
  ASSUME HouseTyped, PagesPromise, Remembers, NEW r \in Requests, NoticeStep(r)
  PROVE  PagesPromise'
  <1>1. PICK next : /\ Turns(r, next) /\ Sound(next)
                    /\ next = Done \/ (next.op = request[r].op /\ next.pc \notin Reserved)
    BY NoticeTurns DEF HouseTyped, OtherTurn
  <1>2. ASSUME next.op \in PageOps
        PROVE  /\ ~At(r, "answered")
               /\ \A facts \in SUBSET memory'[r].all : \A v \in Videos : Promised(next, facts, v)
    <2>1. ~At(r, "answered") /\ ~At(r, "new")
      BY PlacesOfPages
    <2>2. next.op = request[r].op /\ next = request'[r]
      BY <1>1, <1>2 DEF Turns, Done, New, PageOps, ListOps, GateOps
    <2>3. next.shown = request[r].shown /\ next.pc \in NoticePcs
      BY <1>2, <2>2, NoticeTurns DEF HouseTyped
    <2>4. request[r].op = "search"
      BY <1>2, <2>2 DEF HouseTyped, RequestsSound, Sound, NoticeSound, NoticeStep, CountRecent, ListParents,
         LookForNotice, InsertOne, Dismiss, At, PageOps, ListOps, GateOps
    <2>5. request[r].pc \in {"parents", "told?", "insert notice"}
      BY <2>4 DEF HouseTyped, RequestsSound, Sound, NoticeSound, NoticeStep, CountRecent, ListParents,
         LookForNotice, InsertOne, Dismiss, At
    <2>6. /\ memory'[r].all \subseteq memory[r].all
          /\ \A facts \in SUBSET memory[r].all : \A v \in Videos : Promised(request[r], facts, v)
      BY <1>2, <2>1, <2>2, HistoryShrinks DEF PagesPromise, PagePromise, Watched
    <2>7. ASSUME NEW facts \in SUBSET memory'[r].all, NEW v \in Videos, Deserves(next, facts, v)
          PROVE  Underway(next, facts, v)
      <3>1. Deserves(request[r], facts, v)
        BY <2>2, <2>4, <2>7, SameDeserts
      <3>2. v \in next.shown
        BY <2>3, <2>5, <2>6, <3>1 DEF Promised, Underway
      <3> QED
        BY <2>3, <2>4, <3>2 DEF Underway, NoticePcs, Stages
    <2> QED
      BY <2>1, <2>7 DEF Promised
  <1> QED
    BY <1>1, <1>2, OthersPromise DEF HouseTyped

LEMMA PromisesStart == Init => PagesPromise
  BY DEF Init, PagesPromise, PagePromise, New, PageOps, ListOps, GateOps

LEMMA PromisesWait ==
  ASSUME RequestsSound, PagesPromise, Remembers, UNCHANGED request
  PROVE  PagesPromise'
  <1> SUFFICES ASSUME NEW q \in Requests, request[q].op \in PageOps
               PROVE  /\ ~At(q, "answered") => memory'[q].all \subseteq HouseFacts'
                      /\ \A facts \in SUBSET memory'[q].all : \A v \in Videos :
                             Promised(request[q], facts, v)
    BY PromisesAfter DEF At
  <1>1. ~At(q, "new")
    BY DEF RequestsSound, Sound, At, New, PageOps, ListOps, GateOps
  <1>2. memory'[q].all \subseteq memory[q].all
    BY <1>1, HistoryShrinks DEF Watched
  <1>3. \A facts \in SUBSET memory[q].all : \A v \in Videos : Promised(request[q], facts, v)
    BY DEF PagesPromise, PagePromise
  <1>4. ~At(q, "answered") => memory'[q].all \subseteq HouseFacts'
    <2>1. FactsFor(request[q])' \subseteq HouseFacts'
      BY DEF FactsFor, HouseFacts, ListOps, GateOps, PageOps
    <2> QED
      BY <2>1, HistoryShrinks DEF Watched
  <1> QED
    BY <1>2, <1>3, <1>4

\* A step by which no page goes on leaves what the pages owe.
LEMMA NoPagePromises ==
  ASSUME RequestsSound, PagesPromise, Remembers, NEW r \in Requests, NEW next, Turns(r, next),
         next.op \notin PageOps
  PROVE  PagesPromise'
  BY OthersPromise

LEMMA PromisesGoOn == HouseTyped /\ PagesPromise /\ [Next]_vars => PagesPromise'
  <1> SUFFICES ASSUME HouseTyped, PagesPromise, [Next]_vars PROVE PagesPromise'
    OBVIOUS
  <1>1. RulesTyped /\ RequestsSound
    BY DEF HouseTyped
  <1>2. Done.op \notin PageOps
    BY DEF Done, New, PageOps, ListOps, GateOps
  <1>3. CASE UNCHANGED vars
    <2>1. UNCHANGED <<ruleVars, accounts, notices, request, memory>>
      BY <1>3 DEF vars, accountVars
    <2>2. HouseFacts' = HouseFacts
      BY <2>1 DEF HouseFacts, RuleFacts, ParentFacts, Parents, Existing, Granted, ruleVars, parentRules,
         ownRules
    <2> QED
      BY <2>1, <2>2, PromisesAfter DEF PagesPromise, PagePromise
  <1>4. CASE Next
    <2> USE <1>4
    <2>1. Remembers
      BY DEF Next
    <2>2. ASSUME NEW r \in Requests, Begin(r) PROVE PagesPromise'
      <3>1. PICK next : Turns(r, next) /\ (Entry(next) \/ next = Done)
        BY <1>1, <2>2, BeginTurns
      <3>2. ~At(r, "answered")
        BY <2>2, BeginsOnce DEF At
      <3> QED
        BY <1>1, <1>2, <2>1, <3>1, <3>2, EntriesPromise, OthersPromise
    <2>3. ASSUME NEW r \in Requests, CutOff(r) PROVE PagesPromise'
      BY <1>1, <1>2, <2>1, <2>3, FailsTurn, NoPagePromises
    <2>4. ASSUME NEW r \in Requests, FamilyStep(r, Named) PROVE PagesPromise'
      <3>1. PICK next : Turns(r, next) /\ (next = Done \/ (next.op = request[r].op
                                           /\ \E pc : Follows(request[r].op, pc)))
        BY <1>1, <2>4, FamilyTurns DEF FamilyTurn, GoesOn
      <3>2. next.op \notin PageOps
        BY <1>2, <3>1 DEF Follows, FamilyPcs, RoleOps, PageOps, ListOps, GateOps
      <3> QED
        BY <1>1, <2>1, <3>1, <3>2, NoPagePromises
    <2>5. ASSUME NEW r \in Requests, NoticeStep(r) PROVE PagesPromise'
      BY <2>1, <2>5, NoticesPromise
    <2>6. ASSUME NEW r \in Requests, RuleStep(r) PROVE PagesPromise'
      <3>1. CASE PageStep(r)
        BY <2>1, <3>1, PagesMovePromising
      <3>2. CASE EndStep(r)
        BY <1>1, <1>2, <2>1, <3>2, EndsCommit, StepsTurn, NoPagePromises DEF RequestsSound
      <3>3. CASE RequireChild(r) \/ EnsureSettingsRow(r)
        <4>1. PICK next : Turns(r, next) /\ (next = Done \/ next.op = request[r].op)
          BY <1>1, <3>3, SettingsTurn DEF OtherTurn
        <4>2. request[r].op \notin PageOps
          BY <1>1, <3>3 DEF RequireChild, EnsureSettingsRow, At, RequestsSound, Sound, RuleSound, ParentOps,
             PageOps, ListOps, GateOps
        <4> QED
          BY <1>1, <1>2, <2>1, <4>1, <4>2, NoPagePromises
      <3> QED
        BY <2>6, <3>1, <3>2, <3>3 DEF RuleStep, PageStep, EndStep
    <2>7. ASSUME NEW r \in Requests, WatchStep(r) PROVE PagesPromise'
      <3>1. request[r].op \notin PageOps /\ \E next : Turns(r, next) /\ (next = Done \/ next.op = request[r].op)
        BY <1>1, <2>7, WatchTurns DEF OtherTurn
      <3> QED
        BY <1>1, <1>2, <2>1, <3>1, NoPagePromises
    <2>8. ASSUME UNCHANGED request PROVE PagesPromise'
      BY <1>1, <2>1, <2>8, PromisesWait
    <2> QED
      BY <2>2, <2>3, <2>4, <2>5, <2>6, <2>7, <2>8 DEF Next, Step, Expire, WindowOver
  <1> QED
    BY <1>3, <1>4

\* A video that was allowed for as long as a request took is neither refused
\* nor missing from a page it belongs on, whatever the requests beside it
\* change between the statements of the page and of the gate
\* (routes/feed.rs, search.rs, likes.rs, channels.rs; services/access.rs).
THEOREM NoPageLosesAllowed == Spec => []NothingAllowedIsLost
  <1>1. HouseTyped /\ PagesPromise /\ [Next]_vars => PagesPromise'
    BY PromisesGoOn
  <1>2. HouseTyped /\ PagesPromise => NothingAllowedIsLost
    <2> SUFFICES ASSUME HouseTyped, PagesPromise, NEW r \in Requests, At(r, "answered"), NEW v \in Videos
                 PROVE  Deserves(request[r], memory[r].all, v) => v \in request[r].shown
      BY DEF NothingAllowedIsLost, Deserves, ChannelKnown, Owes, Owed
    <2>1. request[r].op \in PageOps
      BY DEF HouseTyped, RequestsSound, Sound, PageSound, At
    <2>2. Promised(request[r], memory[r].all, v)
      BY <2>1 DEF PagesPromise, PagePromise
    <2> QED
      BY <2>2 DEF Promised, Underway, At
  <1> QED
    BY <1>1, <1>2, PromisesStart, HouseStaysTyped, PTL DEF Spec

-----------------------------------------------------------------------------
(* Which searches the parents hear of.                                     *)
(*                                                                         *)
(* A search that finds no row of an earlier one tells: it goes through the *)
(* parents and leaves each of them a notice.  One that finds a row need    *)
(* not, for the row was written by a search that tells.  So as soon as     *)
(* there is a row, one of the searches has been cut off or tells.          *)

LEMMA BegunAs ==
  ASSUME RequestsSound, NEW r \in Requests, NEW b, NEW rec, IsRequest(rec), NEW audience,
         Begins(r, b, rec, audience)
  PROVE  request'[r].op = rec.op
  <1>1. PICK key, me, role : Reads(r, [rec EXCEPT !.browser = b, !.key = key, !.me = me, !.role = role])
    BY DEF Begins
  <1> DEFINE next == [rec EXCEPT !.browser = b, !.key = key, !.me = me, !.role = role]
  <1>2. next.op = rec.op
    BY DEF IsRequest, Fields
  <1> HIDE DEF next
  <1>3. request'[r] = next
    BY <1>1 DEF Reads, RequestsSound, next
  <1> QED
    BY <1>2, <1>3

\* A page is what the agenda has asked for.
LEMMA PagesAreOnTheAgenda ==
  ASSUME RequestsSound, NEW r \in Requests, Begin(r), request'[r].op \in PageOps
  PROVE  request'[r].op = agenda[r]
  <1> DEFINE op == agenda[r]
             others == {"register", "complete", "logout", "switch", "setPin", "addMember", "updateMember",
                        "deleteMember", "deleteAccount", "dismiss"}
  <1>1. others \cap PageOps = {} /\ {"none"} \cap PageOps = {}
    BY DEF PageOps, ListOps, GateOps
  <1>2. ASSUME NEW b \in Browsers, BeginsFamily(r, b, op) PROVE request'[r].op \in others
    <2>1. ASSUME NEW x, NEW on, NEW as, NEW pin, NEW pc, NEW audience,
                 Begins(r, b, Ask(x, on, as, pin, pc), audience)
          PROVE  request'[r].op = x
      <3> DEFINE rec == Ask(x, on, as, pin, pc)
      <3>1. IsRequest(rec) /\ rec.op = x
        BY DEF IsRequest, Ask, New, Fields
      <3>2. Begins(r, b, rec, audience)
        BY <2>1
      <3> HIDE DEF rec
      <3> QED
        BY <3>1, <3>2, BegunAs
    <2>2. ASSUME NEW pin, NEW current, BeginSetPin(r, b, pin, current) PROVE request'[r].op = "setPin"
      <3> DEFINE asked == Ask("setPin", Nobody, "none", pin, "findSelf")
                 rec == [asked EXCEPT !.saw = current]
      <3>1. IsRequest(asked) /\ asked.op = "setPin"
        BY AskedIsRequest
      <3>2. IsRequest(rec) /\ rec.op = "setPin"
        <4> HIDE DEF asked
        <4> QED
          BY <3>1 DEF IsRequest, Fields
      <3>3. \E audience : Begins(r, b, rec, audience)
        BY <2>2 DEF BeginSetPin
      <3> HIDE DEF rec
      <3> QED
        BY <3>2, <3>3, BegunAs
    <2> QED
      BY <1>2, <2>1, <2>2 DEF BeginsFamily, BeginRegister, BeginComplete, BeginLogout, BeginSwitch,
         BeginAddMember, BeginUpdateMember, BeginDelete
  <1>3. ASSUME NEW b \in Browsers, BeginsRules(r, b, op) PROVE request'[r].op \in {op, "none"}
    <2>1. ASSUME NEW on, NEW as, BeginRule(r, b, op, on, as) PROVE request'[r].op = op
      <3>1. LET rec == [New EXCEPT !.op = op, !.on = on, !.as = as, !.pc = "requireChild"]
            IN IsRequest(rec) /\ rec.op = op
        BY DEF IsRequest, Fields, New
      <3> QED
        BY <2>1, <3>1, BegunAs DEF BeginRule
    <2>2. ASSUME NEW on, NEW as, BeginMark(r, b, op, on, as) PROVE request'[r].op = op
      <3>1. LET rec == [New EXCEPT !.op = op, !.on = on, !.as = as, !.pc = op]
            IN IsRequest(rec) /\ rec.op = op
        BY DEF IsRequest, Fields, New
      <3> QED
        BY <2>2, <3>1, BegunAs DEF BeginMark
    <2>3. ASSUME NEW on, BeginPage(r, b, op, on) PROVE request'[r].op = op
      <3> DEFINE pc == IF op \in {"createDownload", "streamDownload"} THEN "downloads?" ELSE op
      <3>1. LET rec == [New EXCEPT !.op = op, !.on = on, !.pc = pc]
            IN IsRequest(rec) /\ rec.op = op
        BY DEF IsRequest, Fields, New
      <3> QED
        BY <2>3, <3>1, BegunAs DEF BeginPage
    <2>4. ASSUME NEW on, BeginDownload(r, b, op, on) PROVE request'[r].op = op
      <3>1. LET rec == [New EXCEPT !.op = op, !.on = on, !.pc = op]
            IN IsRequest(rec) /\ rec.op = op
        BY DEF IsRequest, Fields, New
      <3> QED
        BY <2>4, <3>1, BegunAs DEF BeginDownload
    <2>5. ASSUME NEW c, NEW v, Publish(r, c, v) PROVE request'[r].op = "none"
      BY <2>5 DEF Publish, Commits, Done, New
    <2> QED
      BY <1>3, <2>1, <2>2, <2>3, <2>4, <2>5 DEF BeginsRules
  <1>4. ASSUME NEW b \in Browsers, BeginsWatch(r, b, op) PROVE request'[r].op = op
    <2>1. ASSUME NEW v, NEW told, NEW state, NEW n, BeginWatch(r, b, op, v, told, state, n)
          PROVE  request'[r].op = op
      <3>1. LET rec == [New EXCEPT !.op = op, !.on = v, !.as = told, !.saw = state, !.pin = n,
                                   !.pc = "watch history"]
            IN IsRequest(rec) /\ rec.op = op
        BY DEF IsRequest, Fields, New
      <3> QED
        BY <2>1, <3>1, BegunAs DEF BeginWatch
    <2> QED
      BY <1>4, <2>1 DEF BeginsWatch
  <1>5. ASSUME NEW b \in Browsers, NEW cause, BeginDismiss(r, b, cause) PROVE request'[r].op \in others
    <2>1. LET rec == [New EXCEPT !.op = "dismiss", !.as = cause, !.pc = "dismiss"]
          IN IsRequest(rec) /\ rec.op = "dismiss"
      BY DEF IsRequest, Fields, New
    <2> QED
      BY <1>5, <2>1, BegunAs DEF BeginDismiss
  <1> HIDE DEF op, others
  <1>6. \E b \in Browsers : \/ BeginsFamily(r, b, op) \/ BeginsRules(r, b, op) \/ BeginsWatch(r, b, op)
                            \/ \E cause : BeginDismiss(r, b, cause)
    BY DEF Begin, op
  <1>7. request'[r].op \in others \cup {op, "none"}
    BY <1>2, <1>3, <1>4, <1>5, <1>6
  <1> QED
    BY <1>1, <1>7 DEF op

\* Past the look for an earlier search; and telling the parents, or done with it.
TellingPcs == {"parents", "told?", "insert notice"}
PastLook == TellingPcs \cup {"log search", "answered"}
Teller(rec) == rec.op = "search" /\ rec.pc \in TellingPcs \cup {"answered"} /\ ~rec.saw

\* Whoever was a parent at some time was one all the time.
Calm(past) == \A p \in Accounts : <<"parent", p>> \in past.some => <<"parent", p>> \in past.all

\* What a search has found out, and whom it has told or is still to tell.
SearchKnows(rec, past) ==
    /\ rec.pc \in PastLook => rec.saw \in BOOLEAN
    /\ rec.pc \in TellingPcs => ~rec.saw
    /\ Calm(past) =>
          /\ rec.pc \in {"told?", "insert notice"} =>
                \A p \in rec.rows : p \in Accounts /\ <<"parent", p>> \in past.some
          /\ Teller(rec) =>
                \A p \in Accounts : <<"parent", p>> \in past.all =>
                    /\ rec.pc \in {"told?", "insert notice"} => p \in rec.rows \/ <<"told", p>> \in past.some
                    /\ rec.pc = "answered" => <<"told", p>> \in past.some

\* A search that is over before it answers has been cut off.
SearchInv ==
    /\ \A r \in Requests : request[r].op \in PageOps => request[r].op = agenda[r]
    /\ \A r \in Requests : request[r].op = "search" =>
          /\ SearchKnows(request[r], memory[r])
          /\ request[r].pc \in PastLook /\ request[r].saw => searched
          /\ ~At(r, "answered") => ParentFacts \subseteq memory[r].some /\ memory[r].all \subseteq HouseFacts
    /\ searched => \E r \in Requests : agenda[r] = "search" /\ (At(r, "done") \/ Teller(request[r]))

LEMMA TellingMeans ==
  ASSUME NEW facts, facts \subseteq HouseFacts, NEW p, <<"parent", p>> \in facts,
         RulesTyped
  PROVE  p \in Parents /\ p \in Accounts
  BY DEF HouseFacts, RuleFacts, ParentFacts, RulesTyped, Parents, Existing

LEMMA TellingHolds ==
  /\ \A p \in Parents : p \in Accounts /\ <<"parent", p>> \in ParentFacts
  /\ \A p \in Accounts : <<p, "search">> \in notices => <<"told", p>> \in ParentFacts
  BY DEF ParentFacts, Parents, Existing

LEMMA SearchKnowsMore ==
  ASSUME NEW rec, NEW past, NEW more, past.some \subseteq more.some, more.all \subseteq past.all,
         SearchKnows(rec, past)
  PROVE  SearchKnows(rec, more) /\ (Calm(more) => Calm(past))
  <1>1. Calm(more) => Calm(past)
    BY DEF Calm
  <1> QED
    BY <1>1 DEF SearchKnows

\* A step of r that leaves the searches what they know.
SearchTurn(r, next) ==
    /\ Turns(r, next)
    /\ next.op \in PageOps => next.op = agenda[r]
    /\ next.op = "search" =>
          /\ ~At(r, "answered")
          /\ SearchKnows(next, memory'[r])
          /\ next.pc \in PastLook /\ next.saw => searched'
    /\ At(r, "done") \/ Teller(request[r]) => next.pc = "done" \/ Teller(next)
    /\ searched' => searched \/ (next.op = "search" /\ Teller(next))

\* What is said of the searches after a step.
LEMMA SearchesAfter ==
  ASSUME \A r \in Requests : request'[r].op \in PageOps => request'[r].op = agenda'[r],
         \A r \in Requests : request'[r].op = "search" =>
             /\ SearchKnows(request'[r], memory'[r])
             /\ request'[r].pc \in PastLook /\ request'[r].saw => searched'
             /\ request'[r].pc # "answered" =>
                    ParentFacts' \subseteq memory'[r].some /\ memory'[r].all \subseteq HouseFacts',
         searched' => \E r \in Requests : agenda'[r] = "search"
                          /\ (request'[r].pc = "done" \/ Teller(request'[r]))
  PROVE  SearchInv'
  BY DEF SearchInv, SearchKnows, Teller, Calm, At

LEMMA SearchHistory ==
  ASSUME Remembers, NEW r \in Requests, request'[r].op = "search", ~At(r, "answered")
  PROVE  /\ ParentFacts' \subseteq memory'[r].some /\ memory'[r].all \subseteq HouseFacts'
         /\ ~At(r, "new") => memory[r].some \subseteq memory'[r].some /\ memory'[r].all \subseteq memory[r].all
  <1>1. request'[r].op \in Watched
    BY DEF Watched, PageOps, ListOps
  <1>2. ParentFacts' \subseteq FactsFor(request[r])' /\ FactsFor(request[r])' \subseteq HouseFacts'
    BY DEF FactsFor, HouseFacts
  <1> QED
    BY <1>1, <1>2, HistoryGrows, HistoryShrinks

LEMMA SearchTurns ==
  ASSUME HouseTyped, SearchInv, Remembers, UNCHANGED agenda, NEW r \in Requests, NEW next,
         searched => searched', SearchTurn(r, next)
  PROVE  SearchInv'
  <1>1. RequestsSound /\ Turns(r, next)
    BY DEF HouseTyped, SearchTurn
  <1>2. ASSUME NEW q \in Requests \ {r}, request'[q] # request[q]
        PROVE  request[q].op \notin PageOps /\ request'[q].op \notin PageOps /\ ~At(q, "done")
    BY <1>1, <1>2, OvertakenIsSound DEF Turns, RequestsSound, At
  <1>3. ASSUME NEW q \in Requests, request'[q].op \in PageOps PROVE request'[q].op = agenda'[q]
    <2>1. CASE q = r
      BY <1>3, <2>1 DEF SearchTurn, Turns
    <2>2. CASE q # r
      BY <1>2, <1>3, <2>2 DEF SearchInv
    <2> QED
      BY <2>1, <2>2
  <1>4. {"search"} \subseteq PageOps
    BY DEF PageOps, ListOps
  <1>5. ASSUME NEW q \in Requests, request'[q].op = "search"
        PROVE  /\ SearchKnows(request'[q], memory'[q])
               /\ request'[q].pc \in PastLook /\ request'[q].saw => searched'
               /\ request'[q].pc # "answered" =>
                      ParentFacts' \subseteq memory'[q].some /\ memory'[q].all \subseteq HouseFacts'
    <2>1. CASE q = r
      <3>1. request'[r] = next
        BY <1>1 DEF Turns
      <3> QED
        BY <1>5, <2>1, <3>1, SearchHistory DEF SearchTurn
    <2>2. CASE q # r
      <3>1. request'[q] = request[q] /\ request[q].op = "search"
        BY <1>2, <1>4, <1>5, <2>2
      <3>2. SearchKnows(request[q], memory[q]) /\ (request[q].pc \in PastLook /\ request[q].saw => searched)
        BY <3>1 DEF SearchInv
      <3>3. ~At(q, "new")
        BY <1>1, <3>1 DEF RequestsSound, Sound, At, New
      <3>4. CASE At(q, "answered")
        <4>1. memory'[q] = memory[q]
          BY <3>4, HistoryGrows
        <4> QED
          BY <3>1, <3>2, <3>4, <4>1 DEF At
      <3>5. CASE ~At(q, "answered")
        <4>1. SearchKnows(request[q], memory'[q])
          BY <1>5, <3>2, <3>3, <3>5, SearchHistory, SearchKnowsMore
        <4> QED
          BY <1>5, <3>1, <3>2, <3>5, <4>1, SearchHistory
      <3> QED
        BY <3>4, <3>5
    <2> QED
      BY <2>1, <2>2
  <1>6. ASSUME searched'
        PROVE  \E q \in Requests : agenda'[q] = "search" /\ (request'[q].pc = "done" \/ Teller(request'[q]))
    <2>1. CASE searched
      <3>1. PICK q \in Requests : agenda[q] = "search" /\ (At(q, "done") \/ Teller(request[q]))
        BY <2>1 DEF SearchInv
      <3>2. CASE q = r
        BY <3>1, <3>2 DEF SearchTurn, Turns
      <3>3. CASE q # r
        <4>1. request'[q] = request[q]
          BY <1>2, <1>4, <3>1, <3>3 DEF Teller
        <4> QED
          BY <3>1, <4>1 DEF At
      <3> QED
        BY <3>2, <3>3
    <2>2. CASE ~searched
      BY <1>4, <1>6, <2>2 DEF SearchTurn, Turns
    <2> QED
      BY <2>1, <2>2
  <1> QED
    BY <1>3, <1>5, <1>6, SearchesAfter

\* A request that ends, or goes on with something else than a page.
LEMMA OtherSearchTurn ==
  ASSUME RequestsSound, NEW r \in Requests, NEW next, Turns(r, next), UNCHANGED searched,
         next = Done \/ (next.op = request[r].op /\ next.op \notin PageOps /\ ~At(r, "done"))
  PROVE  SearchTurn(r, next)
  <1>1. Done.op \notin PageOps /\ Done.pc = "done" /\ {"search"} \subseteq PageOps
    BY DEF Done, New, PageOps, ListOps, GateOps
  <1>2. next.op \notin PageOps /\ next.op # "search"
    BY <1>1
  <1>3. At(r, "done") \/ Teller(request[r]) => next.pc = "done" \/ Teller(next)
    BY <1>1 DEF Teller
  <1> QED
    BY <1>2, <1>3 DEF SearchTurn

\* Until it has met the gate a search knows nothing of other searches.
LEMMA GatedSearchTurn ==
  ASSUME HouseTyped, SearchInv, NEW r \in Requests, PageStep(r), UNCHANGED searched,
         ~LookForPrior(r), ~LogSearch(r)
  PROVE  \E next : SearchTurn(r, next)
  <1> DEFINE rec == request[r]
  <1>1. RequestsSound /\ Sound(rec) /\ IsRequest(rec)
    BY RequestIsSound DEF HouseTyped
  <1>2. PICK next : (Reads(r, next) \/ Commits(r, next)) /\ PageGoesOn(rec, next)
    BY PagesMove DEF HouseTyped, PageMove
  <1>3. Turns(r, next) /\ next = request'[r] /\ next.op = rec.op
    BY <1>1, <1>2, StepsTurn DEF Turns, PageGoesOn, RequestsSound
  <1>4. ~At(r, "done") /\ ~At(r, "answered") /\ ~Teller(rec)
    BY DEF PageStep, Gate, ListAtOnce, EnforceChannelAccess, Search, LookForPrior, LogSearch, WatchHistory,
     LookupChannelIds, BackfillVideoChannelIds, UpNextFromChannel, UpNextFromNewVideos, UpNext, Extracted,
     EnsureDownloadsEnabled, InsertDownload, At, Stages, Teller, TellingPcs
  <1>5. ASSUME rec.op = "search" PROVE next.pc \notin PastLook
    <2>1. Search(r) \/ Gate(r)
      <3>1. rec.pc \notin {"newVideos", "likes", "channelPage", "subscribed?", "uploads", "continueWatching",
                           "watchAgain", "lookup", "write back", "upNext", "upNextOf", "bucket", "unwatched",
                           "stream", "downloads?", "insert download"}
        BY <1>1, <1>5 DEF Sound, PageSound, ListOps
      <3> QED
        BY <3>1 DEF PageStep, ListAtOnce, EnforceChannelAccess, WatchHistory, LookupChannelIds,
           BackfillVideoChannelIds, UpNextFromChannel, UpNextFromNewVideos, UpNext, Extracted,
           EnsureDownloadsEnabled, InsertDownload, At
    <2>2. ASSUME NEW shown, NEW rows, NEW taken \in NextRow(rec, shown, rows), Reads(r, taken)
          PROVE  next.pc \notin PastLook
      <3>1. TakesRow(rec, taken, shown, rows)
        BY <1>1, <2>2, NextRowIs
      <3>2. taken.pc \in {"blocked?", "prior?"}
        BY <1>5, <3>1 DEF TakesRow
      <3>3. next = taken
        BY <1>1, <1>3, <2>2 DEF Reads, RequestsSound
      <3> QED
        BY <3>2, <3>3 DEF PastLook, TellingPcs
    <2>3. CASE Search(r)
      BY <2>2, <2>3 DEF Search, Asks
    <2>4. CASE Gate(r)
      <3> DEFINE verdict == CanChildView(rec.pc, rec.row[1], rec.row[2])
                 stays == [rec EXCEPT !.pc = verdict]
      <3>1. CASE verdict \in Stages
        <4>1. Reads(r, stays)
          BY <2>4, <3>1 DEF Gate
        <4>2. stays.pc = verdict
          BY <1>1 DEF IsRequest, Fields
        <4> HIDE DEF stays
        <4>3. next = stays
          BY <1>1, <1>3, <4>1 DEF Reads, RequestsSound
        <4> QED
          BY <3>1, <4>2, <4>3 DEF PastLook, TellingPcs, Stages
      <3>2. CASE verdict \notin Stages
        <4>1. \E shown : \E taken \in NextRow(rec, shown, rec.rows) : Reads(r, taken)
          BY <2>4, <3>2 DEF Gate
        <4> QED
          BY <2>2, <4>1
      <3> QED
        BY <3>1, <3>2
    <2> QED
      BY <2>1, <2>3, <2>4
  <1>6. rec.op \in PageOps => rec.op = agenda[r]
    BY DEF SearchInv
  <1>7. rec.op = "search" => SearchKnows(next, memory'[r])
    BY <1>3, <1>5 DEF SearchKnows, PastLook, TellingPcs, Teller
  <1>8. SearchTurn(r, next)
    BY <1>3, <1>4, <1>5, <1>6, <1>7 DEF SearchTurn
  <1> QED
    BY <1>8

LEMMA LookSearchTurn ==
  ASSUME HouseTyped, SearchInv, NEW r \in Requests, LookForPrior(r)
  PROVE  \E next : SearchTurn(r, next)
  <1> DEFINE rec == request[r]
             next == [rec EXCEPT !.saw = searched, !.pc = "log search"]
  <1>1. RequestsSound /\ Sound(rec) /\ IsRequest(rec)
    BY RequestIsSound DEF HouseTyped
  <1>2. Turns(r, next)
    BY <1>1, StepsTurn DEF LookForPrior, RequestsSound
  <1>3. next.op = rec.op /\ next.pc = "log search" /\ next.saw = searched
    BY <1>1 DEF IsRequest, Fields
  <1>4. rec.op = "search" /\ rec.pc = "prior?" /\ rec.op = agenda[r]
    BY <1>1 DEF LookForPrior, At, Sound, PageSound, SearchInv, PageOps, ListOps
  <1>5. searched \in BOOLEAN /\ UNCHANGED searched
    BY DEF HouseTyped, RulesTyped, LookForPrior, ruleVars
  <1> HIDE DEF next
  <1>6. next.saw \in BOOLEAN
    BY <1>3, <1>5
  <1>7. SearchKnows(next, memory'[r])
    BY <1>3, <1>6 DEF SearchKnows, TellingPcs, Teller
  <1>8. next.saw => searched'
    BY <1>3, <1>5
  <1>9. searched' => searched
    BY <1>5
  <1>10. SearchTurn(r, next)
    BY <1>2, <1>3, <1>4, <1>7, <1>8, <1>9 DEF SearchTurn, At, Teller, TellingPcs
  <1> QED
    BY <1>10

LEMMA LogSearchTurn ==
  ASSUME HouseTyped, SearchInv, NEW r \in Requests, LogSearch(r)
  PROVE  (\E next : SearchTurn(r, next)) /\ (searched => searched')
  <1> DEFINE rec == request[r]
             pc == IF rec.saw THEN "answered" ELSE "parents"
             next == [rec EXCEPT !.pc = pc]
  <1>1. RequestsSound /\ Sound(rec) /\ IsRequest(rec)
    BY RequestIsSound DEF HouseTyped
  <1>2. Turns(r, next)
    BY <1>1, StepsTurn DEF LogSearch, RequestsSound
  <1>3. next.op = rec.op /\ next.pc = pc /\ next.saw = rec.saw
    BY <1>1 DEF IsRequest, Fields
  <1>4. rec.op = "search" /\ rec.pc = "log search" /\ rec.op = agenda[r]
    BY <1>1 DEF LogSearch, At, Sound, PageSound, SearchInv, PageOps, ListOps
  <1>5. rec.saw \in BOOLEAN /\ (rec.saw => searched)
    BY <1>4 DEF SearchInv, SearchKnows, PastLook
  <1>6. searched => searched'
    BY DEF LogSearch
  <1> HIDE DEF next
  <1>7. CASE rec.saw
    <2>1. next.pc = "answered" /\ next.saw /\ searched
      BY <1>3, <1>5, <1>7
    <2>2. SearchKnows(next, memory'[r])
      BY <1>3, <1>5, <2>1 DEF SearchKnows, TellingPcs, Teller
    <2>3. SearchTurn(r, next)
      BY <1>2, <1>3, <1>4, <1>6, <2>1, <2>2 DEF SearchTurn, At, Teller, TellingPcs
    <2> QED
      BY <1>6, <2>3
  <1>8. CASE ~rec.saw
    <2>1. next.pc = "parents" /\ ~next.saw
      BY <1>3, <1>8
    <2>2. SearchKnows(next, memory'[r])
      BY <1>3, <1>5, <2>1 DEF SearchKnows, TellingPcs, Teller
    <2>3. Teller(next)
      BY <1>3, <1>4, <2>1 DEF Teller, TellingPcs
    <2>4. SearchTurn(r, next)
      BY <1>2, <1>3, <1>4, <2>1, <2>2, <2>3 DEF SearchTurn, At
    <2> QED
      BY <1>6, <2>4
  <1> QED
    BY <1>5, <1>7, <1>8

\* When the last of the rows has been told, all have.
LEMMA RestKnows ==
  ASSUME NEW r, IsRequest(request[r]), request[r].op = "search",
         request[r].pc \in {"told?", "insert notice"}, request[r].saw \in BOOLEAN, ~request[r].saw,
         NEW p, NEW past, SearchKnows(request[r], past), Calm(past) => <<"told", p>> \in past.some
  PROVE  SearchKnows(Rest(r, p), past) /\ Teller(Rest(r, p)) /\ Rest(r, p).op = "search"
  <1> DEFINE rec == request[r]
  <1>1. Teller(rec)
    BY DEF Teller, TellingPcs
  <1>2. Calm(past) => /\ \A q \in rec.rows : q \in Accounts /\ <<"parent", q>> \in past.some
                      /\ \A q \in Accounts : <<"parent", q>> \in past.all =>
                             q \in rec.rows \/ <<"told", q>> \in past.some
    BY <1>1 DEF SearchKnows
  <1>3. CASE rec.rows = {p}
    <2> DEFINE next == [rec EXCEPT !.rows = {}, !.pc = "answered"]
    <2>1. Rest(r, p) = next
      BY <1>3 DEF Rest, Told
    <2>2. next.op = "search" /\ next.pc = "answered" /\ next.saw = rec.saw
      BY DEF IsRequest, Fields
    <2> HIDE DEF next
    <2>3. Teller(next)
      BY <2>2 DEF Teller
    <2>4. SearchKnows(next, past)
      BY <1>2, <1>3, <2>2 DEF SearchKnows, TellingPcs
    <2> QED
      BY <2>1, <2>2, <2>3, <2>4
  <1>4. CASE rec.rows # {p}
    <2> DEFINE next == [rec EXCEPT !.rows = @ \ {p}, !.pc = Telling(r)]
    <2>1. Rest(r, p) = next
      BY <1>4 DEF Rest
    <2>2. next.op = "search" /\ next.pc = "told?" /\ next.saw = rec.saw /\ next.rows = rec.rows \ {p}
      BY DEF IsRequest, Fields, Telling
    <2> HIDE DEF next
    <2>3. Teller(next)
      BY <2>2 DEF Teller, TellingPcs
    <2>4. SearchKnows(next, past)
      BY <1>2, <2>2 DEF SearchKnows, TellingPcs
    <2> QED
      BY <2>1, <2>2, <2>3, <2>4
  <1> QED
    BY <1>3, <1>4

\* A list that turns out to be empty, or not to hold any more, is no parent's.
LEMMA ToldKnows ==
  ASSUME NEW r, IsRequest(request[r]), request[r].op = "search", request[r].saw \in BOOLEAN,
         ~request[r].saw, NEW past,
         Calm(past) => \A p \in Accounts : <<"parent", p>> \notin past.all \/ <<"told", p>> \in past.some
  PROVE  SearchKnows(Told(r), past) /\ Teller(Told(r)) /\ Told(r).op = "search"
  <1> DEFINE next == [request[r] EXCEPT !.rows = {}, !.pc = "answered"]
  <1>1. Told(r) = next
    BY DEF Told
  <1>2. next.op = "search" /\ next.pc = "answered" /\ next.saw = request[r].saw
    BY DEF IsRequest, Fields
  <1> HIDE DEF next
  <1>3. Teller(next)
    BY <1>2 DEF Teller
  <1>4. SearchKnows(next, past)
    BY <1>2 DEF SearchKnows, TellingPcs
  <1> QED
    BY <1>1, <1>2, <1>3, <1>4

LEMMA NoticeSearchTurn ==
  ASSUME HouseTyped, SearchInv, Remembers, NEW r \in Requests, NoticeStep(r), UNCHANGED searched
  PROVE  \E next : SearchTurn(r, next)
  <1> DEFINE rec == request[r]
             past == memory'[r]
  <1>1. RequestsSound /\ RulesTyped /\ Sound(rec) /\ IsRequest(rec)
    BY RequestIsSound DEF HouseTyped
  <1>2. PICK turn : Turns(r, turn) /\ (turn = Done \/ turn.op = rec.op)
    BY <1>1, NoticeTurns DEF OtherTurn
  <1>3. ~At(r, "done") /\ ~At(r, "answered") /\ ~At(r, "new")
    BY DEF NoticeStep, CountRecent, ListParents, LookForNotice, InsertOne, Dismiss, At
  <1>4. CASE rec.op # "search"
    <2>1. rec.op \notin PageOps
      BY <1>1, <1>4 DEF Sound, NoticeSound, NoticeStep, CountRecent, ListParents, LookForNotice, InsertOne,
         Dismiss, At, PageOps, ListOps, GateOps
    <2> QED
      BY <1>1, <1>2, <1>3, <2>1, OtherSearchTurn
  <1>5. CASE rec.op = "search"
    <2>1. ListParents(r) \/ LookForNotice(r) \/ (InsertOne(r) /\ At(r, "insert notice"))
      BY <1>1, <1>5 DEF Sound, NoticeSound, NoticeStep, CountRecent, InsertOne, Dismiss, At
    <2>2. rec.pc \in TellingPcs
      BY <2>1 DEF ListParents, LookForNotice, At, TellingPcs
    <2>3. rec.saw \in BOOLEAN /\ ~rec.saw /\ SearchKnows(rec, memory[r]) /\ rec.op = agenda[r]
      BY <1>5, <2>2 DEF SearchInv, SearchKnows, PastLook, PageOps, ListOps
    <2>4. turn.op = "search" /\ turn = request'[r]
      BY <1>2, <1>5, NoticeTurns DEF HouseTyped, Turns, Done, New, NoticePcs, PageOps, ListOps
    <2>5. /\ ParentFacts' \subseteq past.some /\ memory[r].some \subseteq past.some
          /\ past.all \subseteq memory[r].all
      BY <1>3, <2>4, SearchHistory
    <2>6. ParentFacts \subseteq past.some /\ past.all \subseteq HouseFacts
      BY <1>3, <1>5, <2>5 DEF SearchInv
    <2>7. SearchKnows(rec, past)
      BY <2>3, <2>5, SearchKnowsMore
    <2>8. ASSUME NEW next, Reads(r, next) \/ Commits(r, next), SearchKnows(next, past), Teller(next),
                 next.op = "search"
          PROVE  \E some : SearchTurn(r, some)
      <3>1. Turns(r, next)
        BY <1>1, <2>8, StepsTurn DEF RequestsSound
      <3>2. ~next.saw
        BY <2>8 DEF Teller
      <3>3. searched' => searched
        OBVIOUS
      <3>4. SearchTurn(r, next)
        BY <1>3, <1>5, <2>3, <2>8, <3>1, <3>2, <3>3 DEF SearchTurn
      <3> QED
        BY <3>4
    <2>9. \A p : <<"parent", p>> \in past.all => p \in Parents /\ p \in Accounts
      BY <1>1, <2>6, TellingMeans
    <2>10. CASE ListParents(r)
      <3>1. CASE Parents = {}
        <4>1. SearchKnows(Told(r), past) /\ Teller(Told(r)) /\ Told(r).op = "search"
          BY <1>1, <1>5, <2>3, <2>9, <3>1, ToldKnows
        <4>2. Reads(r, Told(r))
          BY <2>10, <3>1 DEF ListParents
        <4> QED
          BY <2>8, <4>1, <4>2
      <3>2. CASE Parents # {}
        <4> DEFINE next == [rec EXCEPT !.rows = Parents, !.pc = Telling(r)]
        <4>1. Reads(r, next)
          BY <2>10, <3>2 DEF ListParents
        <4>2. /\ next.op = "search" /\ next.pc = "told?" /\ next.saw = rec.saw /\ next.rows = Parents
          BY <1>1, <1>5 DEF IsRequest, Fields, Telling
        <4> HIDE DEF next
        <4>3. Teller(next)
          BY <2>3, <4>2 DEF Teller, TellingPcs
        <4>4. \A p \in Parents : p \in Accounts /\ <<"parent", p>> \in past.some
          BY <2>6, TellingHolds
        <4>5. SearchKnows(next, past)
          BY <2>3, <2>9, <4>2, <4>4 DEF SearchKnows, TellingPcs
        <4> QED
          BY <2>8, <4>1, <4>2, <4>3, <4>5
      <3> QED
        BY <3>1, <3>2
    <2>11. ASSUME rec.pc \in {"told?", "insert notice"}, NEW p \in rec.rows,
                  Calm(past) => <<"told", p>> \in past.some, Reads(r, Rest(r, p)) \/ Commits(r, Rest(r, p))
           PROVE  \E some : SearchTurn(r, some)
      BY <1>1, <1>5, <2>3, <2>7, <2>8, <2>11, RestKnows
    <2>12. ASSUME rec.pc \in {"told?", "insert notice"}, NEW p \in rec.rows, Calm(past)
           PROVE  p \in Accounts /\ p \in Parents
      <3>1. p \in Accounts /\ <<"parent", p>> \in past.some
        BY <2>7, <2>12 DEF SearchKnows
      <3>2. <<"parent", p>> \in past.all
        BY <2>12, <3>1 DEF Calm
      <3> QED
        BY <2>9, <3>2
    <2>13. CASE LookForNotice(r)
      <3>1. PICK p \in rec.rows : Reads(r, IF <<p, "search">> \in notices THEN Rest(r, p)
                                           ELSE [rec EXCEPT !.on = p, !.pc = "insert notice"])
        BY <2>13 DEF LookForNotice
      <3>2. rec.pc = "told?"
        BY <2>13 DEF LookForNotice, At
      <3>3. CASE <<p, "search">> \in notices
        <4>1. Calm(past) => <<"told", p>> \in past.some
          BY <2>6, <2>12, <3>2, <3>3, TellingHolds
        <4> QED
          BY <2>11, <3>1, <3>2, <3>3, <4>1
      <3>4. CASE <<p, "search">> \notin notices
        <4> DEFINE next == [rec EXCEPT !.on = p, !.pc = "insert notice"]
        <4>1. Reads(r, next)
          BY <3>1, <3>4
        <4>2. /\ next.op = "search" /\ next.pc = "insert notice" /\ next.saw = rec.saw
              /\ next.rows = rec.rows
          BY <1>1, <1>5 DEF IsRequest, Fields
        <4> HIDE DEF next
        <4>3. Teller(next) /\ Teller(rec)
          BY <1>5, <2>2, <2>3, <4>2 DEF Teller, TellingPcs
        <4>4. SearchKnows(next, past)
          BY <2>3, <2>7, <3>2, <4>2, <4>3 DEF SearchKnows, TellingPcs
        <4> QED
          BY <2>8, <4>1, <4>2, <4>3, <4>4
      <3> QED
        BY <3>3, <3>4
    <2>14. CASE InsertOne(r) /\ At(r, "insert notice")
      <3>1. PICK p \in rec.rows : IF p \in Existing
                                  THEN notices' = notices \cup {<<p, Cause(r)>>} /\ Commits(r, Rest(r, p))
                                  ELSE UNCHANGED notices /\ Reads(r, Told(r))
        BY <2>14 DEF InsertOne
      <3>2. rec.pc = "insert notice"
        BY <2>14 DEF At
      <3>3. CASE p \in Existing
        <4>1. <<p, "search">> \in notices' /\ Commits(r, Rest(r, p))
          BY <1>5, <3>1, <3>3 DEF Cause
        <4>2. p \in Accounts
          BY <3>3 DEF Existing
        <4>3. <<"told", p>> \in ParentFacts'
          BY <4>1, <4>2 DEF ParentFacts
        <4> QED
          BY <2>5, <2>11, <3>2, <4>1, <4>3
      <3>4. CASE p \notin Existing
        <4>1. ~Calm(past)
          BY <2>12, <3>2, <3>4 DEF Parents
        <4>2. SearchKnows(Told(r), past) /\ Teller(Told(r)) /\ Told(r).op = "search"
          BY <1>1, <1>5, <2>3, <4>1, ToldKnows
        <4> QED
          BY <2>8, <3>1, <3>4, <4>2
      <3> QED
        BY <3>3, <3>4
    <2> QED
      BY <2>1, <2>10, <2>13, <2>14
  <1> QED
    BY <1>4, <1>5

LEMMA SearchesStart == Init => SearchInv
  BY DEF Init, SearchInv, New, PageOps, ListOps, GateOps

\* Requests that stay where they are have their histories grow.
LEMMA SearchesWait ==
  ASSUME RequestsSound, SearchInv, Remembers, UNCHANGED <<request, agenda, searched>>
  PROVE  SearchInv'
  <1>1. ASSUME NEW q \in Requests, request'[q].op = "search"
        PROVE  /\ SearchKnows(request'[q], memory'[q])
               /\ request'[q].pc \in PastLook /\ request'[q].saw => searched'
               /\ request'[q].pc # "answered" =>
                      ParentFacts' \subseteq memory'[q].some /\ memory'[q].all \subseteq HouseFacts'
    <2>1. SearchKnows(request[q], memory[q]) /\ (request[q].pc \in PastLook /\ request[q].saw => searched)
      BY <1>1 DEF SearchInv
    <2>2. CASE At(q, "answered")
      <3>1. memory'[q] = memory[q]
        BY <2>2, HistoryGrows
      <3> QED
        BY <2>1, <2>2, <3>1 DEF At
    <2>3. CASE ~At(q, "answered")
      <3>1. ~At(q, "new")
        BY <1>1 DEF RequestsSound, Sound, At, New
      <3>2. SearchKnows(request[q], memory'[q])
        BY <1>1, <2>1, <2>3, <3>1, SearchHistory, SearchKnowsMore
      <3> QED
        BY <1>1, <2>1, <2>3, <3>2, SearchHistory
    <2> QED
      BY <2>2, <2>3
  <1>2. /\ \A q \in Requests : request'[q].op \in PageOps => request'[q].op = agenda'[q]
        /\ searched' => \E q \in Requests : agenda'[q] = "search"
                            /\ (request'[q].pc = "done" \/ Teller(request'[q]))
    BY DEF SearchInv, At
  <1> QED
    BY <1>1, <1>2, SearchesAfter

\* A request that begins has asked nothing yet.
LEMMA EntrySearchTurn ==
  ASSUME RequestsSound, NEW r \in Requests, Begin(r)
  PROVE  (\E next : SearchTurn(r, next)) /\ UNCHANGED searched
  <1>1. PICK next : Turns(r, next) /\ (Entry(next) \/ next = Done)
    BY BeginTurns
  <1>2. At(r, "new") /\ ~At(r, "answered") /\ ~At(r, "done") /\ ~Teller(request[r])
    BY BeginsOnce DEF At, Teller, TellingPcs
  <1>3. UNCHANGED searched
    BY BeginRules DEF Publish, ruleVars
  <1>4. next.op \in PageOps => next.op = agenda[r]
    BY <1>1, PagesAreOnTheAgenda DEF Turns
  <1>5. CASE next = Done
    <2>1. next.op # "search"
      BY <1>5 DEF Done, New
    <2> QED
      BY <1>1, <1>2, <1>3, <1>4, <2>1 DEF SearchTurn
  <1>6. CASE Entry(next)
    <2>1. next.pc \notin PastLook \/ next.op # "search"
      BY <1>6 DEF Entry, EntryPcs, OwnOps, ListOps, PastLook, TellingPcs
    <2>2. next.op = "search" => SearchKnows(next, memory'[r])
      BY <2>1 DEF SearchKnows, PastLook, TellingPcs, Teller
    <2> QED
      BY <1>1, <1>2, <1>3, <1>4, <2>1, <2>2 DEF SearchTurn
  <1> QED
    BY <1>1, <1>3, <1>5, <1>6

LEMMA SearchGoesOn == HouseTyped /\ SearchInv /\ [Next]_vars => SearchInv'
  <1> SUFFICES ASSUME HouseTyped, SearchInv, [Next]_vars PROVE SearchInv'
    OBVIOUS
  <1>1. RulesTyped /\ RequestsSound
    BY DEF HouseTyped
  <1>2. CASE UNCHANGED vars
    <2>1. UNCHANGED <<ruleVars, accounts, notices, request, memory, agenda>>
      BY <1>2 DEF vars, accountVars
    <2>2. HouseFacts' = HouseFacts /\ ParentFacts' = ParentFacts /\ UNCHANGED searched
      BY <2>1 DEF HouseFacts, RuleFacts, ParentFacts, Parents, Existing, Granted, ruleVars, parentRules,
         ownRules
    <2> QED
      BY <2>1, <2>2, SearchesAfter DEF SearchInv, At
  <1>3. CASE Next
    <2> USE <1>3
    <2>1. Remembers /\ UNCHANGED agenda
      BY DEF Next
    <2>2. ASSUME NEW r \in Requests, NEW next, SearchTurn(r, next), searched => searched' PROVE SearchInv'
      BY <2>1, <2>2, SearchTurns
    <2>3. ASSUME NEW r \in Requests, NEW next, Turns(r, next), UNCHANGED searched,
                 next = Done \/ (next.op = request[r].op /\ next.op \notin PageOps /\ ~At(r, "done"))
          PROVE  SearchInv'
      BY <1>1, <2>2, <2>3, OtherSearchTurn
    <2>4. ASSUME NEW r \in Requests, Begin(r) PROVE SearchInv'
      BY <1>1, <2>2, <2>4, EntrySearchTurn
    <2>5. ASSUME NEW r \in Requests, CutOff(r) PROVE SearchInv'
      <3>1. UNCHANGED searched
        BY <2>5 DEF CutOff, ruleVars
      <3> QED
        BY <1>1, <2>3, <2>5, <3>1, FailsTurn
    <2>6. ASSUME NEW r \in Requests, FamilyStep(r, Named), Cascade PROVE SearchInv'
      <3>1. PICK next : Turns(r, next) /\ (next = Done \/ (next.op = request[r].op
                                           /\ \E pc : Follows(request[r].op, pc)))
        BY <1>1, <2>6, FamilyTurns DEF FamilyTurn, GoesOn
      <3>2. next = Done \/ (next.op = request[r].op /\ next.op \notin PageOps \cup {"none"})
        BY <3>1 DEF Follows, FamilyPcs, RoleOps, PageOps, ListOps, GateOps
      <3>3. At(r, "done") => request[r].op = "none"
        BY <1>1 DEF RequestsSound, Sound, At, Done, New
      <3>4. UNCHANGED searched
        BY <2>6 DEF Cascade
      <3> QED
        BY <2>3, <3>1, <3>2, <3>3, <3>4
    <2>7. ASSUME NEW r \in Requests, NoticeStep(r), UNCHANGED ruleVars PROVE SearchInv'
      <3>1. UNCHANGED searched
        BY <2>7 DEF ruleVars
      <3> QED
        BY <2>1, <2>2, <2>7, <3>1, NoticeSearchTurn
    <2>8. ASSUME NEW r \in Requests, RuleStep(r) PROVE SearchInv'
      <3>1. CASE LogSearch(r)
        BY <2>2, <3>1, LogSearchTurn
      <3>2. ASSUME ~LogSearch(r) PROVE UNCHANGED searched
        BY <2>8, <3>2 DEF RuleStep, RequireChild, AddBlocked, DeleteBlocked, AddVideo, DeleteVideo, AddChannel,
           DeleteChannel, EnsureSettingsRow, UpdateSettings, Hide, Like, Subscribe, Gate, ListAtOnce,
           EnforceChannelAccess, Search, LookForPrior, WatchHistory, LookupChannelIds,
           BackfillVideoChannelIds, UpNextFromChannel, UpNextFromNewVideos, UpNext, Extracted,
           EnsureDownloadsEnabled, InsertDownload, UpdateDownload, ruleVars, parentRules, ownRules
      <3>3. CASE LookForPrior(r)
        <4>1. UNCHANGED searched
          BY <3>3 DEF LookForPrior, ruleVars
        <4> QED
          BY <2>2, <3>3, <4>1, LookSearchTurn
      <3>4. CASE PageStep(r) /\ ~LogSearch(r) /\ ~LookForPrior(r)
        BY <2>2, <3>2, <3>4, GatedSearchTurn
      <3>5. CASE EndStep(r)
        <4>1. Turns(r, Done)
          BY <1>1, <3>5, EndsCommit, StepsTurn DEF RequestsSound
        <4> QED
          BY <2>3, <3>1, <3>2, <4>1
      <3>6. CASE RequireChild(r) \/ EnsureSettingsRow(r)
        <4>1. PICK next : Turns(r, next) /\ (next = Done \/ next.op = request[r].op)
          BY <1>1, <3>6, SettingsTurn DEF OtherTurn
        <4>2. request[r].op \notin PageOps /\ ~At(r, "done")
          BY <1>1, <3>6 DEF RequireChild, EnsureSettingsRow, At, RequestsSound, Sound, RuleSound, ParentOps,
             PageOps, ListOps, GateOps
        <4> QED
          BY <2>3, <3>1, <3>2, <4>1, <4>2
      <3> QED
        BY <2>8, <3>1, <3>3, <3>4, <3>5, <3>6 DEF RuleStep, PageStep, EndStep
    <2>9. ASSUME NEW r \in Requests, WatchStep(r) PROVE SearchInv'
      <3>1. request[r].op \notin PageOps /\ \E next : Turns(r, next) /\ (next = Done \/ next.op = request[r].op)
        BY <1>1, <2>9, WatchTurns DEF OtherTurn
      <3>2. ~At(r, "done") /\ UNCHANGED searched
        BY <2>9 DEF WatchStep, UpsertWatchHistory, ReadUsage, WriteUsage, At, ruleVars
      <3> QED
        BY <2>3, <3>1, <3>2
    <2>10. ASSUME UNCHANGED <<request, ruleVars>> PROVE SearchInv'
      <3>1. UNCHANGED searched
        BY <2>10 DEF ruleVars
      <3> QED
        BY <1>1, <2>1, <2>10, <3>1, SearchesWait
    <2> QED
      BY <2>4, <2>5, <2>6, <2>7, <2>8, <2>9, <2>10 DEF Next, Step, Expire, WindowOver
  <1> QED
    BY <1>2, <1>3

\* As long as no search for a term is cut off and the parents stay who they
\* are, the first search is told to every one of them, in whichever order the
\* searches look, log and tell: a search that finds another's row has been
\* overtaken by one that tells (routes/search.rs: child_search).
THEOREM ParentsHearOfSearches == Spec => []SearchIsAnnounced
  <1>1. HouseTyped /\ SearchInv => SearchIsAnnounced
    <2> DEFINE searches == {q \in Requests : agenda[q] = "search"}
    <2> SUFFICES ASSUME HouseTyped, SearchInv, NEW p \in Accounts, NEW q \in searches,
                        \A r \in searches : At(r, "answered")
                            /\ memory[r].some \cap {<<"parent", a>> : a \in Accounts}
                               = memory[r].all \cap {<<"parent", a>> : a \in Accounts},
                        \A r \in searches : <<"parent", p>> \in memory[r].all
                 PROVE  \E r \in searches : <<"told", p>> \in memory[r].some
      BY DEF SearchIsAnnounced
    <2>1. ASSUME NEW r \in searches
          PROVE  request[r].op = "search" /\ At(r, "answered") /\ Calm(memory[r])
      <3>1. At(r, "answered") /\ Sound(request[r])
        BY <2>1 DEF HouseTyped, RequestsSound
      <3>2. request[r].op = agenda[r]
        BY <3>1 DEF Sound, PageSound, SearchInv, At
      <3> QED
        BY <3>1, <3>2 DEF Calm
    <2>2. PICK r \in searches : Teller(request[r])
      <3>1. CASE Teller(request[q])
        BY <3>1
      <3>2. CASE ~Teller(request[q])
        <4>1. request[q].saw /\ request[q].pc \in PastLook
          BY <2>1, <3>2 DEF Teller, At, PastLook
        <4>2. searched
          BY <2>1, <4>1 DEF SearchInv
        <4>3. PICK r \in Requests : agenda[r] = "search" /\ (At(r, "done") \/ Teller(request[r]))
          BY <4>2 DEF SearchInv
        <4> QED
          BY <2>1, <4>3 DEF At
      <3> QED
        BY <3>1, <3>2
    <2>3. SearchKnows(request[r], memory[r])
      BY <2>1, <2>2 DEF SearchInv
    <2> QED
      BY <2>1, <2>2, <2>3 DEF SearchKnows, At
  <1> QED
    BY <1>1, SearchesStart, SearchGoesOn, HouseStaysTyped, PTL DEF Spec

-----------------------------------------------------------------------------
(* The last parent.                                                        *)

Born == \E a \in Accounts : accounts[a] # Unborn
Changes(rec) == rec.op \in RoleOps /\ rec.pc \in {"count", "update", "purge", "delete"}

\* What rec is about to do leaves a parent.
Spared(rec) == rec.on \notin Parents \/ rec.as = "parent" \/ \E p \in Parents : p # rec.on

\* Once there are accounts there is a parent, for no change of roles but one is
\* under way, and that one has found another parent or nothing to lose.
ParentInv ==
    /\ \A r \in Requests : request[r].op = "addMember" => Born
    /\ \A r \in Requests : Changing(r) => request[r].on \in Accounts /\ accounts[request[r].on] # Unborn
    /\ "overlap" \notin mishap =>
          /\ \A r, q \in Requests : Changing(r) /\ Changing(q) => r = q
          /\ Born => Parents # {}
          /\ \A r \in Requests : Changing(r) /\ ~At(r, "count") => Spared(request[r])

\* Accounts are added, but no role changes.
Gentle ==
    /\ \A a \in Accounts : accounts[a] # Unborn =>
          accounts'[a] # Unborn /\ (a \in Parents' <=> a \in Parents)
    /\ Born' => Born \/ Parents' # {}

LEMMA ParentsAreBorn == \A a \in Parents : a \in Accounts /\ accounts[a] # Unborn
  BY RowsAssumption DEF Parents, Existing

LEMMA UnchangedIsGentle ==
  ASSUME UNCHANGED accounts
  PROVE  Gentle
  BY DEF Gentle, Born, Parents, Existing

LEMMA InsertIsGentle ==
  ASSUME AccountsTyped, NEW r, NEW a \in Accounts, NEW role \in Roles, Inserts(r, a, role),
         role = "parent" \/ Born
  PROVE  Gentle
  <1>1. accounts[a] = Unborn /\ accounts' = [accounts EXCEPT ![a] = [role |-> role, pin |-> NoPin]]
    BY DEF Inserts, IsNext
  <1>2. [role |-> role, pin |-> NoPin] \in Rows
    BY DEF Rows
  <1>3. accounts'[a] = [role |-> role, pin |-> NoPin] /\ \A b \in Accounts : b # a => accounts'[b] = accounts[b]
    BY <1>1 DEF AccountsTyped
  <1>4. role = "parent" => a \in Parents'
    BY <1>2, <1>3 DEF Parents, Existing
  <1>5. \A b \in Accounts : b # a => (b \in Parents' <=> b \in Parents)
    BY <1>3 DEF Parents, Existing
  <1> QED
    BY <1>1, <1>3, <1>4, <1>5 DEF Gentle

LEMMA PinIsGentle ==
  ASSUME AccountsTyped, NEW r, request[r].pin \in Pins \cup {NoPin}, SetPinHash(r)
  PROVE  Gentle
  <1> DEFINE a == request[r].on
             pin == request[r].pin
  <1>1. CASE a \in Existing
    <2>1. accounts' = [accounts EXCEPT ![a].pin = pin]
      BY <1>1 DEF SetPinHash
    <2>2. a \in Accounts /\ accounts[a] \in Rows /\ [accounts[a] EXCEPT !.pin = pin] \in Rows
      BY <1>1 DEF Existing, Rows
    <2> HIDE DEF a, pin
    <2>3. accounts'[a] = [accounts[a] EXCEPT !.pin = pin] /\ \A b \in Accounts : b # a => accounts'[b] = accounts[b]
      BY <2>1, <2>2 DEF AccountsTyped
    <2>4. accounts'[a].role = accounts[a].role
      BY <2>2, <2>3 DEF Rows
    <2>5. accounts'[a] # Unborn
      BY <2>2, <2>3, RowsAssumption
    <2>6. \A b \in Accounts : b \in Parents' <=> b \in Parents
      BY <2>2, <2>3, <2>4 DEF Parents, Existing
    <2>7. Born
      BY <2>2, RowsAssumption DEF Born
    <2> QED
      BY <2>3, <2>5, <2>6, <2>7 DEF Gentle
  <1>2. CASE a \notin Existing
    BY <1>2, UnchangedIsGentle DEF SetPinHash
  <1> QED
    BY <1>1, <1>2

LEMMA LateIsIdle ==
  ASSUME RequestsSound, NEW q \in Requests, At(q, "usageWrite"),
         request'[q] = [request[q] EXCEPT !.stale = TRUE]
  PROVE  ~Changes(request'[q]) /\ request'[q].op # "addMember"
  <1>1. request'[q].op = request[q].op
    BY OvertakenIsSound DEF RequestsSound, At
  <1>2. request[q].op \in {"heartbeat", "progress"}
    BY DEF RequestsSound, Sound, WatchSound, At
  <1> QED
    BY <1>1, <1>2 DEF Changes, RoleOps

LEMMA ParentsStay ==
  ASSUME RequestsSound, ParentInv, Gentle, NEW r \in Requests, NEW next, Turns(r, next),
         mishap \subseteq mishap',
         next.op = "addMember" => Born,
         Changes(next) => /\ next.on \in Accounts /\ accounts[next.on] # Unborn
                          /\ "overlap" \notin mishap' =>
                                /\ \A q \in Requests \ {r} : ~Changing(q)
                                /\ next.pc # "count" => Spared(next)
  PROVE  ParentInv'
  <1>1. Born => Born'
    BY DEF Born, Gentle
  <1>2. ASSUME NEW q \in Requests \ {r}, Changes(request'[q]) \/ request'[q].op = "addMember"
        PROVE  request'[q] = request[q]
    BY <1>2, LateIsIdle DEF Turns
  <1>3. \A q \in Requests \ {r} : Changing(q)' => Changing(q) /\ request'[q] = request[q]
    BY <1>2 DEF Changing, Changes
  <1>4. Changing(r)' => Changes(next)
    BY DEF Turns, Changing, Changes
  <1>5. \A rec : rec.on \in Accounts /\ accounts[rec.on] # Unborn /\ Spared(rec) => Spared(rec)'
    BY ParentsAreBorn DEF Spared, Gentle
  <1>6. \A q \in Requests : request'[q].op = "addMember" => Born'
    BY <1>1, <1>2 DEF ParentInv, Turns
  <1>7. \A q \in Requests : Changing(q)' => request'[q].on \in Accounts /\ accounts'[request'[q].on] # Unborn
    BY <1>3, <1>4 DEF ParentInv, Turns, Gentle
  <1>8. ASSUME "overlap" \notin mishap'
        PROVE  /\ \A p, q \in Requests : Changing(p)' /\ Changing(q)' => p = q
               /\ Born' => Parents' # {}
               /\ \A q \in Requests : Changing(q)' /\ request'[q].pc # "count" => Spared(request[q])'
    <2>1. "overlap" \notin mishap
      BY <1>8
    <2>2. \A p, q \in Requests : Changing(p)' /\ Changing(q)' => p = q
      BY <1>3, <1>4, <1>8, <2>1 DEF ParentInv
    <2>3. Born' => Parents' # {}
      BY <2>1, ParentsAreBorn DEF ParentInv, Gentle
    <2>4. \A q \in Requests \ {r} : Changing(q)' /\ request'[q].pc # "count" => Spared(request[q])'
      <3> SUFFICES ASSUME NEW q \in Requests \ {r}, Changing(q)', request'[q].pc # "count"
                   PROVE  Spared(request[q])'
        OBVIOUS
      <3>1. Changing(q) /\ request'[q] = request[q]
        BY <1>3
      <3>2. Spared(request[q]) /\ request[q].on \in Accounts /\ accounts[request[q].on] # Unborn
        BY <2>1, <3>1 DEF ParentInv, At
      <3> QED
        BY <3>1, <3>2, ParentsAreBorn DEF Spared, Gentle
    <2>5. Changing(r)' /\ request'[r].pc # "count" => Spared(request[r])'
      <3> SUFFICES ASSUME Changing(r)', request'[r].pc # "count" PROVE Spared(request[r])'
        OBVIOUS
      <3>1. next = request'[r] /\ next.on \in Accounts /\ accounts[next.on] # Unborn /\ Spared(next)
        BY <1>4, <1>8 DEF Turns
      <3> QED
        BY <3>1, ParentsAreBorn DEF Spared, Gentle
    <2> QED
      BY <2>2, <2>3, <2>4, <2>5
  <1> QED
    BY <1>6, <1>7, <1>8 DEF ParentInv, At

LEMMA ParentsRemain ==
  ASSUME RequestsSound, ParentInv, NEW r \in Requests, Turns(r, Done), Changing(r),
         mishap \subseteq mishap',
         \A a \in Accounts : accounts[a] # Unborn <=> accounts'[a] # Unborn,
         "overlap" \notin mishap => Parents' # {}
  PROVE  ParentInv'
  <1>1. Born <=> Born'
    BY DEF Born
  <1>2. ~Changes(Done) /\ Done.op # "addMember"
    BY DEF Changes, Done, New, RoleOps
  <1>3. \A q \in Requests : Changing(q)' => q # r /\ Changing(q) /\ request'[q] = request[q]
    BY <1>2, LateIsIdle DEF Turns, Changing, Changes
  <1>4. \A q \in Requests : request'[q].op = "addMember" => Born'
    BY <1>1, <1>2, LateIsIdle DEF Turns, ParentInv
  <1>5. \A q \in Requests : Changing(q)' => request'[q].on \in Accounts /\ accounts'[request'[q].on] # Unborn
    BY <1>3 DEF ParentInv
  <1>6. "overlap" \notin mishap' => Parents' # {} /\ \A q \in Requests : ~Changing(q)'
    BY <1>3 DEF ParentInv
  <1> QED
    BY <1>4, <1>5, <1>6 DEF ParentInv

\* Those who may add a member are parents.
LEMMA ParentsAdd ==
  ASSUME RequestsSound, NEW r \in Requests, Begin(r), request'[r].op = "addMember"
  PROVE  \E b \in Browsers : LooksUp(b).role = "parent"
  <1>1. ASSUME NEW b, NEW rec, NEW audience, Begins(r, b, rec, audience), IsRequest(rec)
        PROVE  rec.op = "addMember" /\ (audience = "parent" => LooksUp(b).role = "parent")
    BY <1>1 DEF Begins, Reads, RequestsSound, IsRequest, Fields
  <1>2. ASSUME NEW op, NEW on, NEW as, NEW pin, NEW pc
        PROVE  IsRequest(Ask(op, on, as, pin, pc)) /\ Ask(op, on, as, pin, pc).op = op
    BY DEF Ask, New, IsRequest, Fields
  <1>4. ASSUME NEW b \in Browsers, BeginsFamily(r, b, agenda[r]) PROVE LooksUp(b).role = "parent"
    <2>1. ASSUME NEW pin, NEW current, BeginSetPin(r, b, pin, current) PROVE FALSE
      <3> DEFINE asked == Ask("setPin", Nobody, "none", pin, "findSelf")
                 rec == [asked EXCEPT !.saw = current]
      <3>1. IsRequest(asked) /\ asked.op = "setPin"
        BY <1>2
      <3> HIDE DEF asked
      <3>2. IsRequest(rec) /\ rec.op = "setPin"
        BY <3>1 DEF IsRequest, Fields
      <3> QED
        BY <1>1, <2>1, <3>2 DEF BeginSetPin, asked
    <2>2. ASSUME NEW role, NEW pin, BeginAddMember(r, b, role, pin) PROVE LooksUp(b).role = "parent"
      BY <1>1, <1>2, <2>2 DEF BeginAddMember
    <2>3. ASSUME NEW op, NEW on, NEW as, NEW pin, NEW pc, NEW audience,
                 Begins(r, b, Ask(op, on, as, pin, pc), audience), op # "addMember"
          PROVE  FALSE
      <3> DEFINE rec == Ask(op, on, as, pin, pc)
      <3>1. IsRequest(rec) /\ rec.op = op
        BY DEF Ask, New, IsRequest, Fields
      <3>2. Begins(r, b, rec, audience)
        BY <2>3
      <3> HIDE DEF rec
      <3> QED
        BY <1>1, <2>3, <3>1, <3>2
    <2> QED
      BY <1>4, <2>1, <2>2, <2>3 DEF BeginsFamily, BeginRegister, BeginComplete, BeginLogout, BeginSwitch,
         BeginUpdateMember, BeginDelete
  <1>5. ASSUME NEW b, BeginsRules(r, b, agenda[r]) PROVE FALSE
    <2>1. ASSUME NEW op, NEW on, NEW as, NEW pc, NEW audience, op # "addMember",
                 \/ Begins(r, b, [New EXCEPT !.op = op, !.on = on, !.as = as, !.pc = pc], audience)
                 \/ Begins(r, b, [New EXCEPT !.op = op, !.on = on, !.pc = pc], audience)
          PROVE  FALSE
      <3>1. PICK rec \in {[New EXCEPT !.op = op, !.on = on, !.as = as, !.pc = pc],
                          [New EXCEPT !.op = op, !.on = on, !.pc = pc]} : Begins(r, b, rec, audience)
        BY <2>1
      <3>2. IsRequest(rec) /\ rec.op = op
        BY <3>1 DEF New, IsRequest, Fields
      <3> QED
        BY <1>1, <2>1, <3>1, <3>2
    <2>3. ASSUME NEW op, NEW on, NEW as,
                 BeginRule(r, b, op, on, as) \/ BeginMark(r, b, op, on, as) \/ BeginPage(r, b, op, on)
                 \/ BeginDownload(r, b, op, on)
          PROVE  FALSE
      BY <2>1, <2>3 DEF BeginRule, BeginMark, BeginPage, BeginDownload, ParentOps, OwnOps, PageOps,
         ListOps, GateOps
    <2>2. ASSUME NEW c, NEW v, Publish(r, c, v) PROVE FALSE
      BY <2>2, StepsTurn DEF Publish, Turns, RequestsSound, Done, New
    <2> QED
      BY <1>5, <2>2, <2>3 DEF BeginsRules
  <1>6. ASSUME NEW b, BeginsWatch(r, b, agenda[r]) PROVE FALSE
    <2>1. PICK v \in Videos, told \in {"told", "untold"}, state \in {"started", "finished"}, n \in Elapsed :
              BeginWatch(r, b, agenda[r], v, told, state, n)
      BY <1>6, Zenon DEF BeginsWatch
    <2> DEFINE rec == [New EXCEPT !.op = agenda[r], !.on = v, !.as = told, !.saw = state, !.pin = n,
                                  !.pc = "watch history"]
    <2>2. IsRequest(rec) /\ rec.op = agenda[r]
      BY DEF IsRequest, New, Fields
    <2> QED
      BY <1>1, <2>1, <2>2 DEF BeginWatch
  <1>7. ASSUME NEW b, NEW cause, BeginDismiss(r, b, cause) PROVE FALSE
    <2> DEFINE rec == [New EXCEPT !.op = "dismiss", !.as = cause, !.pc = "dismiss"]
    <2>1. IsRequest(rec) /\ rec.op = "dismiss"
      BY DEF IsRequest, New, Fields
    <2> QED
      BY <1>1, <1>7, <2>1 DEF BeginDismiss
  <1> QED
    BY <1>4, <1>5, <1>6, <1>7 DEF Begin

\* A session that lives is somebody's.
Owned == \A k \in Keys : sessions[k].live => sessions[k].account # Nobody

LEMMA SomebodyIsBorn ==
  ASSUME AccountsTyped, Owned, NEW b \in Browsers, LooksUp(b).role = "parent"
  PROVE  Born
  <1>1. cookie[b] \in Keys /\ sessions[cookie[b]].live
    BY DEF LooksUp, AccountsTyped
  <1>2. sessions[cookie[b]].account \in Existing
    BY <1>1 DEF Owned, AccountsTyped
  <1> QED
    BY <1>2, RowsAssumption DEF Born, Existing

LEMMA StaysOwned ==
  ASSUME Owned, \A k \in Keys : sessions'[k].live => sessions'[k] = sessions[k] \/ sessions'[k].account # Nobody
  PROVE  Owned'
  BY DEF Owned

LEMMA HouseStaysOwned == HouseTyped /\ Owned /\ [Next]_vars => Owned'
  <1> SUFFICES ASSUME HouseTyped, Owned, [Next]_vars PROVE Owned'
    OBVIOUS
  <1>1. AccountsTyped /\ RequestsSound
    BY DEF HouseTyped
  <1>2. sessions \in [Keys -> SessionRows] /\ ~NoSession.live
    BY <1>1 DEF AccountsTyped, SessionRows, NoSession
  <1>3. UNCHANGED accountVars => Owned'
    BY DEF accountVars, Owned
  <1>4. ASSUME NEW r \in Requests, Begin(r) PROVE Owned'
    BY <1>2, <1>3, <1>4, BeginAccounts, StaysOwned DEF Tidies
  <1>5. ASSUME NEW r \in Requests, FamilyStep(r, Named) PROVE Owned'
    <2>1. CASE DropSession(r)
      BY <1>2, <2>1, StaysOwned DEF DropSession
    <2>2. CASE CreateSession(r)
      <3>1. r \in Keys
        BY DEF Keys
      <3>2. \/ UNCHANGED sessions
            \/ request[r].on \in Existing /\ sessions' = [sessions EXCEPT ![r] = [account |-> request[r].on, live |-> TRUE]]
        BY <2>2 DEF CreateSession
      <3>3. \A k \in Keys : sessions'[k] = sessions[k] \/ (sessions'[k].account \in Existing)
        BY <1>2, <3>1, <3>2
      <3> QED
        BY <3>3, StaysOwned, NobodyAssumption DEF Existing
    <2>3. CASE Purge(r)
      BY <1>2, <2>3, StaysOwned DEF Purge
    <2>4. CASE UNCHANGED sessions
      BY <2>4, StaysOwned
    <2> QED
      BY <1>5, <2>1, <2>2, <2>3, <2>4 DEF FamilyStep, InsertFirstAccount, InsertLocal, SetPinHash, HasFirstParent,
         Complete, FindTarget, ListParentPinHashes, Answer, FindSelf, FindMember, CountParents, Update, Delete,
         accountVars
  <1>6. ASSUME NEW k \in Keys, Expire(k) PROVE Owned'
    BY <1>2, <1>6, StaysOwned DEF Expire, SessionExpires, SessionRows
  <1>7. ASSUME NEW r \in Requests, NoticeStep(r) PROVE Owned'
    BY <1>1, <1>3, <1>7, NoticeAccountsTyped
  <1>8. ASSUME NEW r \in Requests, RuleStep(r) \/ WatchStep(r) \/ CutOff(r) PROVE Owned'
    BY <1>3, <1>8, RulesLeaveAccounts, WatchLeavesAccounts DEF CutOff, Fails
  <1> QED
    BY <1>3, <1>4, <1>5, <1>6, <1>7, <1>8 DEF Next, Step, WindowOver, vars

\* The handlers that do not touch roles.
PlainFamilyStep(r) ==
    \/ InsertFirstAccount(r) \/ InsertLocal(r) \/ SetPinHash(r) \/ HasFirstParent(r) \/ Complete(r)
    \/ FindTarget(r) \/ ListParentPinHashes(r) \/ DropSession(r) \/ CreateSession(r) \/ Answer(r)
    \/ FindSelf(r)

LEMMA PlainStepsAreGentle ==
  ASSUME HouseTyped, ParentInv, NEW r \in Requests, PlainFamilyStep(r)
  PROVE  Gentle /\ UNCHANGED mishap
  <1>1. AccountsTyped /\ Sound(request[r])
    BY DEF HouseTyped, RequestsSound
  <1>2. UNCHANGED mishap
    BY DEF PlainFamilyStep, InsertFirstAccount, InsertLocal, SetPinHash, HasFirstParent, Complete, FindTarget,
       ListParentPinHashes, DropSession, CreateSession, Answer, FindSelf, familyVars
  <1>3. CASE InsertFirstAccount(r)
    BY <1>1, <1>2, <1>3, InsertIsGentle, UnchangedIsGentle DEF InsertFirstAccount, Roles
  <1>4. CASE InsertLocal(r)
    <2>1. request[r].op = "addMember" /\ request[r].as \in Roles
      BY <1>1, <1>4 DEF InsertLocal, At, Sound, FamilySound
    <2>2. Born
      BY <2>1 DEF ParentInv
    <2> QED
      BY <1>1, <1>2, <1>4, <2>1, <2>2, InsertIsGentle DEF InsertLocal
  <1>5. CASE SetPinHash(r)
    <2>1. request[r].pin \in Pins \cup {NoPin}
      BY <1>1, <1>5 DEF SetPinHash, At, Sound, FamilySound
    <2> QED
      BY <1>1, <1>2, <1>5, <2>1, PinIsGentle
  <1>6. HasFirstParent(r) \/ Complete(r) \/ FindTarget(r) \/ ListParentPinHashes(r) \/ DropSession(r)
        \/ CreateSession(r) \/ Answer(r) \/ FindSelf(r) => UNCHANGED accounts
    BY DEF HasFirstParent, Complete, FindTarget, ListParentPinHashes, DropSession, CreateSession, Answer,
       FindSelf, accountVars
  <1> QED
    BY <1>2, <1>3, <1>4, <1>5, <1>6, UnchangedIsGentle DEF PlainFamilyStep

LEMMA PlainStepsKeepOps ==
  ASSUME RequestsSound, NEW r \in Requests, PlainFamilyStep(r), NEW next, Turns(r, next),
         next = Done \/ \E pc : GoesOn(request[r], next, pc)
  PROVE  ~Changes(next) /\ (next.op = "addMember" => request[r].op = "addMember")
  <1>1. Sound(request[r])
    BY DEF RequestsSound
  <1>2. CASE next = Done
    BY <1>2 DEF Done, New, Changes, RoleOps
  <1>3. CASE next # Done
    <2>1. next.op = request[r].op
      BY <1>3 DEF GoesOn
    <2>2. ~Complete(r)
      BY <1>3, StepsTurn DEF Complete, Turns, RequestsSound
    <2>3. request[r].op \notin RoleOps
      <3>1. InsertFirstAccount(r) \/ InsertLocal(r) \/ SetPinHash(r) \/ HasFirstParent(r)
            => request[r].op \in {"register", "addMember", "setPin", "complete"}
        BY <1>1 DEF InsertFirstAccount, InsertLocal, SetPinHash, HasFirstParent, At, Sound, FamilySound
      <3>2. FindTarget(r) \/ ListParentPinHashes(r) \/ DropSession(r) \/ CreateSession(r) \/ Answer(r) \/ FindSelf(r)
            => request[r].op \in {"switch", "logout", "register", "setPin"}
        BY <1>1 DEF FindTarget, ListParentPinHashes, DropSession, CreateSession, Answer, FindSelf, At, Sound,
           FamilySound
      <3> QED
        BY <2>2, <3>1, <3>2 DEF PlainFamilyStep, RoleOps
    <2> QED
      BY <2>1, <2>3 DEF Changes
  <1> QED
    BY <1>2, <1>3

\* The guard of the last parent looks at who is there.
LEMMA FindMemberSpares ==
  ASSUME HouseTyped, ParentInv, NEW r \in Requests, FindMember(r)
  PROVE  ParentInv'
  <1> DEFINE rec == request[r]
             saw == [rec EXCEPT !.saw = accounts[rec.on].role]
  <1>1. RequestsSound /\ IsRequest(rec) /\ rec.op \in RoleOps /\ Gentle
    BY RequestIsSound, UnchangedIsGentle DEF HouseTyped, FindMember, At, Sound, FamilySound, accountVars
  <1>2. mishap \subseteq mishap'
    BY DEF FindMember
  <1>3. ASSUME NEW pc PROVE LET next == [saw EXCEPT !.pc = pc]
                            IN next.op = rec.op /\ next.pc = pc /\ next.on = rec.on /\ next.as = rec.as
    BY <1>1 DEF IsRequest, Fields
  <1>4. CASE rec.on \notin Existing
    <2>1. Turns(r, Done)
      BY <1>1, <1>4, StepsTurn DEF FindMember, RequestsSound
    <2> QED
      BY <1>1, <1>2, <2>1, ParentsStay DEF Changes, Done, New, RoleOps
  <1>5. CASE rec.on \in Existing
    <2> DEFINE pc == IF accounts[rec.on].role = "parent" /\ rec.as # "parent" THEN "count" ELSE AfterGuard(rec.op)
               next == [saw EXCEPT !.pc = pc]
    <2>1. Turns(r, next)
      BY <1>1, <1>5, StepsTurn DEF FindMember, RequestsSound
    <2>2. next.op = rec.op /\ next.pc = pc /\ next.on = rec.on /\ next.as = rec.as
      BY <1>3
    <2>3. rec.on \in Accounts /\ accounts[rec.on] # Unborn
      BY <1>5, RowsAssumption DEF Existing
    <2>4. "overlap" \notin mishap' => \A q \in Requests \ {r} : ~Changing(q)
      BY <1>5 DEF FindMember
    <2>5. pc # "count" => rec.on \notin Parents \/ rec.as = "parent"
      BY DEF Parents
    <2> HIDE DEF pc, next
    <2>6. next.pc # "count" => Spared(next)
      BY <2>2, <2>5 DEF Spared
    <2>7. next.op # "addMember"
      BY <1>1, <2>2 DEF RoleOps
    <2> QED
      BY <1>1, <1>2, <2>1, <2>2, <2>3, <2>4, <2>6, <2>7, ParentsStay
  <1> QED
    BY <1>4, <1>5

LEMMA AtMostOne ==
  ASSUME NEW x, NEW S, S \subseteq {x}
  PROVE  Cardinality(S) <= 1
  <1>1. IsFiniteSet({x}) /\ Cardinality({x}) = 1
    BY FS_Singleton
  <1> HIDE DEF IsFiniteSet, Cardinality
  <1>2. Cardinality(S) <= Cardinality({x})
    BY <1>1, FS_Subset
  <1> QED
    BY <1>1, <1>2

LEMMA CountSpares ==
  ASSUME HouseTyped, ParentInv, NEW r \in Requests, CountParents(r)
  PROVE  ParentInv'
  <1> DEFINE rec == request[r]
             pc == AfterGuard(rec.op)
             next == [rec EXCEPT !.pc = pc]
  <1>1. RequestsSound /\ IsRequest(rec) /\ rec.op \in RoleOps /\ Gentle /\ UNCHANGED mishap
    BY RequestIsSound, UnchangedIsGentle DEF HouseTyped, CountParents, At, Sound, FamilySound, accountVars,
       familyVars
  <1>2. CASE Cardinality(Parents) <= 1
    <2>1. Turns(r, Done)
      BY <1>1, <1>2, StepsTurn DEF CountParents, RequestsSound
    <2> QED
      BY <1>1, <2>1, ParentsStay DEF Changes, Done, New, RoleOps
  <1>3. CASE ~(Cardinality(Parents) <= 1)
    <2>1. Turns(r, next)
      BY <1>1, <1>3, StepsTurn DEF CountParents, RequestsSound
    <2>2. next.op = rec.op /\ next.pc = pc /\ next.on = rec.on /\ next.as = rec.as
      BY <1>1, MovesOn DEF GoesOn
    <2>3. \E p \in Parents : p # rec.on
      <3> SUFFICES ASSUME Parents \subseteq {rec.on} PROVE FALSE
        OBVIOUS
      <3> QED
        BY <1>3, AtMostOne
    <2>4. Changing(r)
      BY <1>1 DEF Changing, CountParents, At
    <2> HIDE DEF next, pc
    <2> QED
      BY <1>1, <2>1, <2>2, <2>3, <2>4, ParentsStay DEF ParentInv, Spared, RoleOps
  <1> QED
    BY <1>2, <1>3

LEMMA PurgeSpares ==
  ASSUME HouseTyped, ParentInv, NEW r \in Requests, Purge(r)
  PROVE  ParentInv'
  <1> DEFINE rec == request[r]
             next == [rec EXCEPT !.pc = "delete"]
  <1>1. RequestsSound /\ IsRequest(rec) /\ rec.op = "deleteMember" /\ Gentle /\ UNCHANGED mishap
    BY RequestIsSound, UnchangedIsGentle DEF HouseTyped, Purge, At, Sound, FamilySound, accountVars, familyVars
  <1>2. Turns(r, next)
    BY <1>1, StepsTurn DEF Purge, RequestsSound
  <1>3. next.op = rec.op /\ next.pc = "delete" /\ next.on = rec.on /\ next.as = rec.as
    BY <1>1, MovesOn DEF GoesOn
  <1>4. Changing(r) /\ ~At(r, "count")
    BY <1>1 DEF Changing, Purge, At, RoleOps
  <1> HIDE DEF next
  <1> QED
    BY <1>1, <1>2, <1>3, <1>4, ParentsStay DEF ParentInv, Spared

LEMMA UpdateSpares ==
  ASSUME HouseTyped, ParentInv, NEW r \in Requests, Update(r)
  PROVE  ParentInv'
  <1> DEFINE a == request[r].on
             as == request[r].as
  <1>1. AccountsTyped /\ RequestsSound /\ request[r].op = "updateMember" /\ as \in Roles
    BY RequestIsSound DEF HouseTyped, Update, At, Sound, FamilySound
  <1>2. Turns(r, Done) /\ mishap \subseteq mishap'
    BY <1>1, StepsTurn DEF Update, RequestsSound
  <1>3. Changing(r) /\ ~At(r, "count")
    BY <1>1 DEF Changing, Update, At, RoleOps
  <1>4. CASE a \notin Existing
    <2>1. UNCHANGED accounts
      BY <1>4 DEF Update
    <2>2. "overlap" \notin mishap => Parents' # {}
      BY <1>3, <2>1 DEF ParentInv, Born, Parents, Existing
    <2> QED
      BY <1>1, <1>2, <1>3, <2>1, <2>2, ParentsRemain
  <1>5. CASE a \in Existing
    <2>1. accounts' = [accounts EXCEPT ![a].role = as]
      BY <1>5 DEF Update
    <2>2. a \in Accounts /\ accounts[a] \in Rows /\ [accounts[a] EXCEPT !.role = as] \in Rows
      BY <1>1, <1>5 DEF Existing, Rows
    <2> HIDE DEF a, as
    <2>3. accounts'[a] = [accounts[a] EXCEPT !.role = as] /\ \A b \in Accounts : b # a => accounts'[b] = accounts[b]
      BY <1>1, <2>1, <2>2 DEF AccountsTyped
    <2>4. accounts'[a].role = as
      BY <2>2, <2>3 DEF Rows
    <2>5. \A b \in Accounts : accounts[b] # Unborn <=> accounts'[b] # Unborn
      BY <2>2, <2>3, RowsAssumption
    <2>6. as = "parent" => a \in Parents'
      BY <2>2, <2>3, <2>4 DEF Parents, Existing
    <2>7. \A p \in Parents : p # a => p \in Parents'
      BY <2>3 DEF Parents, Existing
    <2>8. "overlap" \notin mishap => Parents' # {}
      <3> SUFFICES ASSUME "overlap" \notin mishap, as # "parent" PROVE Parents' # {}
        BY <2>6
      <3>1. Spared(request[r]) /\ Parents # {}
        BY <1>3, <2>2, RowsAssumption DEF ParentInv, Born
      <3> QED
        BY <2>7, <3>1 DEF Spared, a, as
    <2> QED
      BY <1>1, <1>2, <1>3, <2>5, <2>8, ParentsRemain
  <1> QED
    BY <1>4, <1>5

LEMMA DeleteSpares ==
  ASSUME HouseTyped, ParentInv, NEW r \in Requests, Delete(r, Named)
  PROVE  ParentInv'
  <1> DEFINE a == request[r].on
  <1>1. /\ AccountsTyped /\ RequestsSound /\ request[r].op \in {"deleteMember", "deleteAccount"}
        /\ request[r].as = "none" /\ UNCHANGED mishap
    BY RequestIsSound DEF HouseTyped, Delete, At, Sound, FamilySound, familyVars
  <1>2. Turns(r, Done)
    BY <1>1, StepsTurn DEF Delete, RequestsSound
  <1>3. Changing(r) /\ ~At(r, "count")
    BY <1>1 DEF Changing, Delete, At, RoleOps
  <1>4. CASE UNCHANGED accounts
    <2>1. "overlap" \notin mishap => Parents' # {}
      BY <1>3, <1>4 DEF ParentInv, Born, Parents, Existing
    <2> QED
      BY <1>1, <1>2, <1>3, <1>4, <2>1, ParentsRemain
  <1>5. CASE a \in Existing /\ accounts' = [accounts EXCEPT ![a] = Gone]
    <2>1. a \in Accounts /\ accounts[a] \in Rows
      BY <1>5 DEF Existing
    <2>2. accounts'[a] = Gone /\ \A b \in Accounts : b # a => accounts'[b] = accounts[b]
      BY <1>1, <1>5, <2>1 DEF AccountsTyped
    <2>3. \A b \in Accounts : accounts[b] # Unborn <=> accounts'[b] # Unborn
      BY <2>1, <2>2, RowsAssumption
    <2>4. \A p \in Parents : p # a => p \in Parents'
      BY <2>2 DEF Parents, Existing
    <2>5. "overlap" \notin mishap => Parents' # {}
      <3> SUFFICES ASSUME "overlap" \notin mishap PROVE Parents' # {}
        OBVIOUS
      <3>1. Spared(request[r]) /\ Parents # {}
        BY <1>3, <2>1, RowsAssumption DEF ParentInv, Born
      <3> QED
        BY <1>1, <2>4, <3>1 DEF Spared
    <2> QED
      BY <1>1, <1>2, <1>3, <2>3, <2>5, ParentsRemain
  <1> QED
    BY <1>4, <1>5 DEF Delete

LEMMA ParentStarts == Init => ParentInv /\ Owned
  <1> SUFFICES ASSUME Init PROVE ParentInv /\ Owned
    OBVIOUS
  <1>1. PICK start \in Starts : LET s == start[1] IN
          /\ accounts = s.accounts
          /\ sessions = [k \in Keys |-> IF k \in Browsers /\ s.signedIn[k] # Nobody
                                        THEN [account |-> s.signedIn[k], live |-> TRUE] ELSE NoSession]
    BY DEF Init
  <1>2. Possible(start[1])
    BY StartsAssumption
  <1>3. Born => Parents # {}
    BY <1>1, <1>2 DEF Possible, Born, Parents, Existing
  <1>4. Owned
    BY <1>1 DEF Owned, NoSession
  <1>5. \A r \in Requests : ~Changing(r) /\ request[r].op # "addMember"
    BY DEF Init, New, Changing, RoleOps
  <1> QED
    BY <1>3, <1>4, <1>5 DEF ParentInv

LEMMA ParentGoesOn == HouseTyped /\ Owned /\ ParentInv /\ [Next]_vars => ParentInv'
  <1> SUFFICES ASSUME HouseTyped, Owned, ParentInv, [Next]_vars PROVE ParentInv'
    OBVIOUS
  <1>1. AccountsTyped /\ RulesTyped /\ RequestsSound
    BY DEF HouseTyped
  <1>2. ~Changes(Done) /\ Done.op # "addMember"
    BY DEF Done, New, Changes, RoleOps
  <1>3. ASSUME NEW r \in Requests, NEW next, Turns(r, next), next.op = request[r].op \/ next = Done,
               next.pc \notin Reserved, UNCHANGED <<accounts, mishap>>
        PROVE  ParentInv'
    <2>1. ~Changes(next) /\ (next.op = "addMember" => Born)
      BY <1>2, <1>3 DEF Changes, FamilyPcs, Reserved, ParentInv
    <2> QED
      BY <1>1, <1>3, <2>1, ParentsStay, UnchangedIsGentle
  <1>4. Done.pc \notin Reserved
    BY DEF Done, New, FamilyPcs, Reserved
  <1>5. ASSUME NEW r \in Requests, OtherTurn(r), UNCHANGED <<accounts, mishap>> PROVE ParentInv'
    BY <1>3, <1>4, <1>5 DEF OtherTurn
  <1>6. ASSUME NEW r \in Requests, Begin(r) PROVE ParentInv'
    <2>1. UNCHANGED <<accounts, mishap>>
      BY <1>6, BeginAccounts
    <2>2. PICK next : Turns(r, next) /\ (Entry(next) \/ next = Done)
      BY <1>1, <1>6, BeginTurns
    <2>3. Entry(next) => ~Changes(next)
      BY DEF Entry, EntryPcs, OwnOps, ListOps, Changes
    <2>4. next.op = "addMember" => Born
      BY <1>1, <1>6, <2>2, ParentsAdd, SomebodyIsBorn DEF Turns
    <2> QED
      BY <1>1, <1>2, <2>1, <2>2, <2>3, <2>4, ParentsStay, UnchangedIsGentle
  <1>7. ASSUME NEW r \in Requests, CutOff(r) PROVE ParentInv'
    <2>1. UNCHANGED <<accounts, mishap>>
      BY <1>7 DEF CutOff, Fails, accountVars, familyVars
    <2> QED
      BY <1>1, <1>3, <1>4, <1>7, <2>1, FailsTurn
  <1>8. ASSUME NEW r \in Requests, FamilyStep(r, Named) PROVE ParentInv'
    <2>1. CASE PlainFamilyStep(r)
      <3>1. PICK next : Turns(r, next) /\ (next = Done \/ \E pc : GoesOn(request[r], next, pc))
        BY <1>1, <1>8, FamilyTurns DEF FamilyTurn
      <3>2. ~Changes(next) /\ (next.op = "addMember" => Born)
        BY <1>1, <2>1, <3>1, PlainStepsKeepOps DEF ParentInv
      <3> QED
        BY <1>1, <2>1, <3>1, <3>2, PlainStepsAreGentle, ParentsStay
    <2> QED
      BY <1>8, <2>1, FindMemberSpares, CountSpares, PurgeSpares, UpdateSpares, DeleteSpares
         DEF FamilyStep, PlainFamilyStep
  <1>9. ASSUME NEW r \in Requests, NoticeStep(r) /\ UNCHANGED familyVars PROVE ParentInv'
    BY <1>1, <1>5, <1>9, NoticeTurns, NoticeAccountsTyped DEF accountVars, familyVars
  <1>10. ASSUME NEW r \in Requests, RuleStep(r) /\ UNCHANGED familyVars PROVE ParentInv'
    BY <1>1, <1>5, <1>10, RuleTurns, RulesLeaveAccounts DEF accountVars, familyVars
  <1>11. ASSUME NEW r \in Requests, WatchStep(r) /\ UNCHANGED familyVars PROVE ParentInv'
    BY <1>1, <1>5, <1>11, WatchTurns, WatchLeavesAccounts DEF accountVars, familyVars
  <1>12. ASSUME UNCHANGED <<accounts, mishap, request>> PROVE ParentInv'
    BY <1>12 DEF ParentInv, Born, Changing, Spared, Parents, Existing, At
  <1> QED
    BY <1>6, <1>7, <1>8, <1>9, <1>10, <1>11, <1>12 DEF Next, Step, Expire, SessionExpires, WindowOver, vars,
       accountVars, familyVars

LEMMA HouseKeepsParents == Spec => [](HouseTyped /\ Owned /\ ParentInv)
  BY HouseStarts, ParentStarts, HouseGoesOn, HouseStaysOwned, ParentGoesOn, PTL DEF Spec

\* As long as no two changes of roles overlap, a household that has accounts
\* has a parent: nobody can delete or demote the last one, whatever else the
\* family does between the count and the change (routes/family.rs,
\* routes/accounts.rs).
THEOREM LastParentStays == Spec => []AParentRemains
  <1>1. ParentInv => AParentRemains
    BY DEF ParentInv, AParentRemains, Born
  <1> QED
    BY <1>1, HouseKeepsParents, PTL

-----------------------------------------------------------------------------
(* Who signs in.                                                           *)

ProvenBy(some) == "own" \in some \/ {"child", "parental"} \subseteq some \/ "first" \in some

\* What a request that opens a session has found out, and what it remembers of
\* the present.
LoginKnows(rec, some) ==
    /\ rec.op = "switch" =>
          /\ rec.pc \in {"dropSession", "createSession", "answer"} => ProvenBy(some)
          /\ rec.pc = "listHashes" => "child" \in some
    /\ rec.op = "register" =>
          (rec.pc \in {"setPin", "createSession", "answer"} => "first" \in some)

LoginRemembers(rec, some) ==
    /\ rec.op = "switch" => Credentials(rec.on, rec.pin) \subseteq some
    /\ rec.op = "register" => (Existing = {} => "first" \in some)

SessionInv ==
    \A r \in Requests :
        /\ LoginKnows(request[r], memory[r].some) /\ LoginRemembers(request[r], memory[r].some)
        /\ sessions[r].account # Nobody => ~At(r, "new") /\ ProvenBy(memory[r].some)

LEMMA LoginIsWatched ==
  ASSUME Remembers, RequestsSound, NEW r \in Requests, request'[r].op \in {"switch", "register"},
         ~At(r, "answered")
  PROVE  LoginRemembers(request[r], memory[r].some)'
  <1>1. FactsFor(request[r])' \subseteq memory'[r].some
    BY HistoryGrows DEF Watched
  <1>2. {"switch", "register"} \cap PageOps = {} /\ "search" \in PageOps
    BY DEF PageOps, ListOps, GateOps
  <1>3. CASE request'[r].op = "switch"
    <2>1. FactsFor(request[r])' = Credentials(request[r].on, request[r].pin)'
      BY <1>2, <1>3 DEF FactsFor
    <2> QED
      BY <1>1, <1>3, <2>1 DEF LoginRemembers
  <1>4. CASE request'[r].op = "register"
    <2>1. FactsFor(request[r])' = (IF Existing' = {} THEN {"first"} ELSE {})
      BY <1>2, <1>4 DEF FactsFor
    <2> QED
      BY <1>1, <1>4, <2>1 DEF LoginRemembers
  <1> QED
    BY <1>3, <1>4

LEMMA LoginsAreUnderWay ==
  ASSUME NEW rec, Sound(rec), rec.op \in {"switch", "register"}
  PROVE  rec.pc \notin {"new", "done", "answered"}
  <1>1. rec.op \notin PageOps
    BY DEF PageOps, ListOps, GateOps
  <1>2. rec.pc # "answered"
    BY <1>1 DEF Sound, PageSound
  <1>3. rec # New /\ rec # Done
    BY DEF New, Done
  <1> QED
    BY <1>2, <1>3 DEF Sound

\* The history of a request that has begun only grows.
LEMMA NothingIsForgotten ==
  ASSUME Remembers, NEW r \in Requests, ~At(r, "new")
  PROVE  memory[r].some \subseteq memory'[r].some
  BY HistoryGrows

LEMMA ProvenForGood ==
  ASSUME NEW some, NEW more, some \subseteq more
  PROVE  /\ ProvenBy(some) => ProvenBy(more)
         /\ \A rec : LoginKnows(rec, some) => LoginKnows(rec, more)
  BY DEF ProvenBy, LoginKnows

\* The sessions a step leaves: only r may have opened one.
Opens(r) ==
    /\ \A q \in Requests \ {r} : sessions'[q].account # Nobody => sessions[q].account # Nobody
    /\ sessions'[r].account # Nobody =>
          sessions[r].account # Nobody \/ (~At(r, "new") /\ ProvenBy(memory[r].some))

\* It is enough to look at the request that moves.
LEMMA LoginsStay ==
  ASSUME RequestsSound, SessionInv, Remembers, NEW r \in Requests, NEW next, Turns(r, next),
         next.pc = "new" => At(r, "new"), Opens(r),
         next.op \in {"switch", "register"} => ~At(r, "answered") /\ LoginKnows(next, memory'[r].some)
  PROVE  SessionInv'
  <1> SUFFICES ASSUME NEW q \in Requests
               PROVE  /\ LoginKnows(request'[q], memory'[q].some)
                      /\ LoginRemembers(request[q], memory[q].some)'
                      /\ sessions'[q].account # Nobody => request'[q].pc # "new" /\ ProvenBy(memory'[q].some)
    BY DEF SessionInv, LoginKnows, ProvenBy, At
  <1>1. CASE q = r
    <2>1. next = request'[r]
      BY DEF Turns
    <2>2. LoginKnows(next, memory'[r].some)
      BY DEF LoginKnows
    <2>3. LoginRemembers(request[r], memory[r].some)'
      BY <2>1, LoginIsWatched DEF LoginRemembers
    <2>4. sessions'[r].account # Nobody => ~At(r, "new") /\ ProvenBy(memory'[r].some)
      BY NothingIsForgotten, ProvenForGood DEF SessionInv, Opens
    <2> QED
      BY <1>1, <2>1, <2>2, <2>3, <2>4
  <1>2. CASE q # r
    <2>1. request'[q].pc = request[q].pc /\ (request'[q] = request[q] \/ request'[q].op \notin {"switch", "register"})
      <3>1. CASE request'[q] = request[q]
        BY <3>1
      <3>2. CASE At(q, "usageWrite") /\ request'[q] = [request[q] EXCEPT !.stale = TRUE]
        BY <3>2, OvertakenIsSound DEF RequestsSound, At
      <3> QED
        BY <1>2, <3>1, <3>2 DEF Turns
    <2>2. sessions'[q].account # Nobody => ~At(q, "new") /\ ProvenBy(memory[q].some)
      BY <1>2 DEF SessionInv, Opens
    <2>3. ~At(q, "new") => memory[q].some \subseteq memory'[q].some
      BY NothingIsForgotten
    <2>4. CASE request'[q].op \in {"switch", "register"}
      <3>1. request'[q] = request[q] /\ LoginKnows(request[q], memory[q].some)
        BY <2>1, <2>4 DEF SessionInv
      <3>2. ~At(q, "new") /\ ~At(q, "answered")
        BY <2>4, <3>1, LoginsAreUnderWay DEF RequestsSound, At
      <3>3. LoginKnows(request'[q], memory'[q].some)
        BY <2>3, <3>1, <3>2, ProvenForGood
      <3>4. LoginRemembers(request[q], memory[q].some)'
        BY <2>4, <3>2, LoginIsWatched
      <3> QED
        BY <2>1, <2>2, <2>3, <3>3, <3>4, ProvenForGood DEF At
    <2>5. CASE request'[q].op \notin {"switch", "register"}
      BY <2>1, <2>2, <2>3, <2>5, ProvenForGood DEF LoginKnows, LoginRemembers, At
    <2> QED
      BY <2>4, <2>5
  <1> QED
    BY <1>1, <1>2


\* Sessions may be dropped or run out; none is opened.
NoneOpened == \A k \in Keys : sessions'[k].account # Nobody => sessions'[k].account = sessions[k].account

LEMMA LoginsWait ==
  ASSUME RequestsSound, SessionInv, Remembers, UNCHANGED request, NoneOpened
  PROVE  SessionInv'
  <1> SUFFICES ASSUME NEW r \in Requests PROVE SessionInv'
    BY DEF SessionInv
  <1>1. Turns(r, request[r]) /\ Opens(r)
    BY DEF Turns, Opens, NoneOpened, Keys, RequestsSound
  <1>2. request[r].op \in {"switch", "register"} => ~At(r, "answered") /\ LoginKnows(request[r], memory'[r].some)
    BY LoginsAreUnderWay, NothingIsForgotten, ProvenForGood DEF SessionInv, RequestsSound, At
  <1> QED
    BY <1>1, <1>2, LoginsStay DEF At

\* A login ends, or goes on where it has nothing to know.
LEMMA LoginsRest ==
  ASSUME RequestsSound, SessionInv, Remembers, NEW r \in Requests, NEW next, Turns(r, next), NoneOpened,
         next = Done \/ (next.op = request[r].op /\ next.pc \notin Reserved)
  PROVE  SessionInv'
  <1>1. Opens(r)
    BY DEF Opens, NoneOpened, Keys
  <1>2. next.pc # "new"
    BY DEF Reserved, Done, New
  <1>3. ASSUME next.op \in {"switch", "register"}
        PROVE  ~At(r, "answered") /\ LoginKnows(next, memory'[r].some)
    <2>1. next.op = request[r].op /\ next.pc \notin Reserved
      BY <1>3 DEF Done, New
    <2> QED
      BY <1>3, <2>1, LoginsAreUnderWay DEF RequestsSound, At, LoginKnows, Reserved, FamilyPcs
  <1> QED
    BY <1>1, <1>2, <1>3, LoginsStay

LEMMA EndsLogin ==
  ASSUME RequestsSound, SessionInv, Remembers, NEW r \in Requests, NoneOpened,
         Reads(r, Done) \/ Commits(r, Done)
  PROVE  SessionInv'
  BY StepsTurn, LoginsRest DEF RequestsSound

\* A login goes on to another place of its handler.
LEMMA LoginGoesOn ==
  ASSUME RequestsSound, SessionInv, Remembers, NEW r \in Requests, NoneOpened, NEW pc, pc # "new",
         NEW next, GoesOn(request[r], next, pc), Turns(r, next), ~At(r, "new"),
         request[r].op = "switch" =>
            /\ pc \in {"dropSession", "createSession", "answer"} => ProvenBy(memory[r].some)
            /\ pc = "listHashes" => "child" \in memory[r].some,
         request[r].op = "register" =>
            (pc \in {"setPin", "createSession", "answer"} => "first" \in memory[r].some)
  PROVE  SessionInv'
  <1>1. next.op = request[r].op /\ next.pc = pc
    BY DEF GoesOn
  <1>2. Opens(r)
    BY DEF Opens, NoneOpened, Keys
  <1>3. LoginKnows(next, memory[r].some)
    BY <1>1 DEF LoginKnows
  <1>4. LoginKnows(next, memory'[r].some)
    BY <1>3, NothingIsForgotten, ProvenForGood
  <1>5. next.op \in {"switch", "register"} => ~At(r, "answered")
    BY <1>1, LoginsAreUnderWay, RequestIsSound DEF At
  <1> QED
    BY <1>1, <1>2, <1>4, <1>5, LoginsStay

LEMMA LoginStep ==
  ASSUME RequestsSound, SessionInv, Remembers, NEW r \in Requests, NoneOpened, NEW pc, pc # "new",
         NEW next, next = [request[r] EXCEPT !.pc = pc], Reads(r, next) \/ Commits(r, next), ~At(r, "new"),
         request[r].op = "switch" =>
            /\ pc \in {"dropSession", "createSession", "answer"} => ProvenBy(memory[r].some)
            /\ pc = "listHashes" => "child" \in memory[r].some,
         request[r].op = "register" =>
            (pc \in {"setPin", "createSession", "answer"} => "first" \in memory[r].some)
  PROVE  SessionInv'
  <1>1. GoesOn(request[r], next, pc)
    BY RequestIsSound, MovesOn
  <1>2. Turns(r, next)
    BY StepsTurn DEF RequestsSound
  <1> QED
    BY <1>1, <1>2, LoginGoesOn

\* Of a household member who asks for a profile, and of the first account.
LEMMA FirstIsKnown ==
  ASSUME HouseTyped, SessionInv, Remembers, NEW r \in Requests, InsertFirstAccount(r)
  PROVE  SessionInv'
  <1>1. RequestsSound /\ request[r].op = "register" /\ NoneOpened /\ ~At(r, "new")
    BY DEF HouseTyped, RequestsSound, Sound, FamilySound, InsertFirstAccount, At, NoneOpened
  <1>2. CASE Existing # {}
    BY <1>1, <1>2, EndsLogin DEF InsertFirstAccount
  <1>3. CASE Existing = {}
    <2>1. PICK a \in Accounts : Commits(r, [request[r] EXCEPT !.on = a, !.pc = "setPin"])
      BY <1>3 DEF InsertFirstAccount, Inserts
    <2> DEFINE next == [request[r] EXCEPT !.on = a, !.pc = "setPin"]
    <2>2. GoesOn(request[r], next, "setPin") /\ Turns(r, next)
      BY <1>1, <2>1, RequestIsSound, MovesTo, StepsTurn DEF RequestsSound
    <2>3. "first" \in memory[r].some
      BY <1>1, <1>3 DEF SessionInv, LoginRemembers
    <2> HIDE DEF next
    <2> QED
      BY <1>1, <2>2, <2>3, LoginGoesOn
  <1> QED
    BY <1>2, <1>3

LEMMA TargetIsKnown ==
  ASSUME HouseTyped, SessionInv, Remembers, NEW r \in Requests, FindTarget(r) \/ ListParentPinHashes(r)
  PROVE  SessionInv'
  <1> DEFINE a == request[r].on
             pin == request[r].pin
             some == memory[r].some
  <1>1. RequestsSound /\ request[r].op = "switch" /\ NoneOpened /\ ~At(r, "new")
    BY DEF HouseTyped, RequestsSound, Sound, FamilySound, FindTarget, ListParentPinHashes, At, NoneOpened,
       accountVars
  <1>2. Credentials(a, pin) \subseteq some
    BY <1>1 DEF SessionInv, LoginRemembers
  <1>3. WrongPin(r) => SessionInv'
    BY <1>1, LoginStep DEF WrongPin
  <1>4. RightPin(r) /\ ProvenBy(some) => SessionInv'
    BY <1>1, LoginStep DEF RightPin
  <1>5. Reads(r, [request[r] EXCEPT !.pc = "listHashes"]) /\ "child" \in some => SessionInv'
    BY <1>1, LoginStep
  <1>6. Reads(r, Done) => SessionInv'
    BY <1>1, EndsLogin
  <1>7. CASE FindTarget(r)
    <2>1. IsChildAccount(a) => "child" \in some
      BY <1>2 DEF Credentials
    <2>2. a \in Parents /\ accounts[a].pin = pin => ProvenBy(some)
      BY <1>2 DEF Credentials, ProvenBy
    <2>3. a \in Existing => accounts[a].role \in Roles
      BY DEF Existing, Rows
    <2> QED
      BY <1>3, <1>4, <1>5, <1>6, <1>7, <2>1, <2>2, <2>3 DEF FindTarget, IsChildAccount, Parents, Roles
  <1>8. CASE ListParentPinHashes(r)
    <2>1. pin \in ParentPins => "parental" \in some
      BY <1>2 DEF Credentials
    <2>2. "child" \in some
      BY <1>1, <1>8 DEF SessionInv, LoginKnows, ListParentPinHashes, At
    <2> QED
      BY <1>3, <1>4, <1>6, <1>8, <2>1, <2>2 DEF ListParentPinHashes, ProvenBy
  <1> QED
    BY <1>7, <1>8

LEMMA SessionsAreKnown ==
  ASSUME HouseTyped, SessionInv, Remembers, NEW r \in Requests, CreateSession(r)
  PROVE  SessionInv'
  <1>1. RequestsSound /\ AccountsTyped /\ request[r].op \in {"switch", "register"} /\ ~At(r, "new")
    BY DEF HouseTyped, RequestsSound, Sound, FamilySound, CreateSession, At
  <1>2. /\ request[r].op = "switch" => ProvenBy(memory[r].some)
        /\ request[r].op = "register" => "first" \in memory[r].some
    BY DEF SessionInv, LoginKnows, CreateSession, At
  <1>3. CASE request[r].on \notin Existing
    BY <1>1, <1>3, EndsLogin DEF CreateSession, NoneOpened
  <1>4. CASE request[r].on \in Existing
    <2> DEFINE next == [request[r] EXCEPT !.pc = "answer"]
    <2>1. Turns(r, next)
      BY <1>1, <1>4, StepsTurn DEF CreateSession, RequestsSound
    <2>2. next.op = request[r].op /\ next.pc = "answer"
      BY RequestIsSound, <1>1, MovesOn DEF GoesOn
    <2>3. ProvenBy(memory[r].some)
      BY <1>1, <1>2 DEF ProvenBy
    <2>4. Opens(r)
      <3>1. \A q \in Keys : q # r => sessions'[q] = sessions[q]
        BY <1>1, <1>4 DEF CreateSession, AccountsTyped
      <3> QED
        BY <1>1, <2>3, <3>1 DEF Opens, Keys
    <2>5. ~At(r, "answered") /\ memory[r].some \subseteq memory'[r].some
      BY <1>1, NothingIsForgotten DEF CreateSession, At
    <2>6. LoginKnows(next, memory[r].some)
      BY <1>2, <2>2 DEF LoginKnows
    <2>7. LoginKnows(next, memory'[r].some)
      BY <2>5, <2>6, ProvenForGood
    <2> HIDE DEF next
    <2> QED
      BY <1>1, <2>1, <2>2, <2>4, <2>5, <2>7, LoginsStay
  <1> QED
    BY <1>3, <1>4

LEMMA FamilyOpensNone ==
  ASSUME HouseTyped, NEW r \in Requests, FamilyStep(r, Named), ~CreateSession(r)
  PROVE  NoneOpened
  <1>1. sessions \in [Keys -> SessionRows]
    BY DEF HouseTyped, AccountsTyped, SessionRows
  <1>2. CASE DropSession(r)
    BY <1>1, <1>2, NoSessionTyped DEF DropSession, NoneOpened
  <1>3. CASE Purge(r)
    BY <1>1, <1>3, NoSessionTyped DEF Purge, NoneOpened
  <1> QED
    BY <1>2, <1>3 DEF FamilyStep, InsertFirstAccount, InsertLocal, SetPinHash, HasFirstParent,
       Complete, FindTarget, ListParentPinHashes, Answer, FindSelf, FindMember, CountParents, Update, Delete,
       accountVars, NoneOpened

LEMMA FamilyKnows ==
  ASSUME HouseTyped, SessionInv, Remembers, NEW r \in Requests, FamilyStep(r, Named)
  PROVE  SessionInv'
  <1>1. RequestsSound /\ Sound(request[r])
    BY DEF HouseTyped, RequestsSound
  <1>2. CASE CreateSession(r)
    BY <1>2, SessionsAreKnown
  <1>3. CASE request[r].op \notin {"switch", "register"} /\ ~CreateSession(r)
    <2>1. PICK next : /\ Turns(r, next)
                      /\ next = Done \/ \E pc : Follows(request[r].op, pc) /\ GoesOn(request[r], next, pc)
      BY <1>1, FamilyTurns DEF FamilyTurn
    <2>2. CASE next = Done
      BY <1>1, <1>3, <2>1, <2>2, FamilyOpensNone, LoginsRest
    <2>3. CASE next # Done
      <3>1. PICK pc : Follows(request[r].op, pc) /\ GoesOn(request[r], next, pc)
        BY <2>1, <2>3
      <3>2. pc # "new" /\ ~At(r, "new")
        BY <1>1, <3>1 DEF Follows, FamilyPcs, Sound, At, New, RoleOps
      <3> QED
        BY <1>1, <1>3, <2>1, <3>1, <3>2, FamilyOpensNone, LoginGoesOn
    <2> QED
      BY <2>2, <2>3
  <1>4. CASE request[r].op \in {"switch", "register"} /\ ~CreateSession(r)
    <2>1. NoneOpened /\ ~At(r, "new")
      BY <1>1, <1>4, FamilyOpensNone, LoginsAreUnderWay DEF At
    <2>2. CASE SetPinHash(r)
      <3>1. request[r].op = "register" => "first" \in memory[r].some
        BY <2>2 DEF SessionInv, LoginKnows, SetPinHash, At
      <3>2. request[r].op = "register"
        BY <1>1, <1>4, <2>2 DEF SetPinHash, At, Sound, FamilySound
      <3> QED
        BY <1>1, <2>1, <2>2, <3>1, <3>2, LoginStep DEF SetPinHash
    <2>3. CASE DropSession(r)
      <3>1. request[r].op = "switch"
        BY <1>1, <1>4, <2>3 DEF DropSession, At, Sound, FamilySound
      <3>2. ProvenBy(memory[r].some)
        BY <2>3, <3>1 DEF SessionInv, LoginKnows, DropSession, At
      <3> QED
        BY <1>1, <2>1, <2>3, <3>1, <3>2, LoginStep DEF DropSession
    <2>4. CASE Complete(r) \/ Answer(r)
      BY <1>1, <2>1, <2>4, EndsLogin DEF Complete, Answer
    <2>5. ~(InsertLocal(r) \/ HasFirstParent(r) \/ FindSelf(r) \/ FindMember(r) \/ CountParents(r) \/ Update(r)
            \/ Purge(r) \/ Delete(r, Named))
      BY <1>1, <1>4 DEF InsertLocal, HasFirstParent, FindSelf, FindMember, CountParents, Update, Purge, Delete, At,
         Sound, FamilySound, RoleOps
    <2> QED
      BY <1>4, <2>2, <2>3, <2>4, <2>5, FirstIsKnown, TargetIsKnown DEF FamilyStep
  <1> QED
    BY <1>2, <1>3, <1>4

LEMMA LoginsStart == Init => SessionInv
  <1> SUFFICES ASSUME Init, NEW r \in Requests
               PROVE  request[r] = New /\ sessions[r].account = Nobody
    BY DEF SessionInv, LoginKnows, LoginRemembers, New
  <1>1. r \in Keys /\ r \notin Browsers
    BY OpenersAssumption DEF Keys
  <1>2. PICK start \in Starts : LET s == start[1] IN
          sessions = [k \in Keys |-> IF k \in Browsers /\ s.signedIn[k] # Nobody
                                     THEN [account |-> s.signedIn[k], live |-> TRUE] ELSE NoSession]
    BY DEF Init
  <1> QED
    BY <1>1, <1>2 DEF Init, NoSession

LEMMA LoginsGoOn == HouseTyped /\ SessionInv /\ [Next]_vars => SessionInv'
  <1> SUFFICES ASSUME HouseTyped, SessionInv, [Next]_vars PROVE SessionInv'
    OBVIOUS
  <1>1. RulesTyped /\ RequestsSound /\ sessions \in [Keys -> SessionRows]
    BY DEF HouseTyped, AccountsTyped, SessionRows
  <1>2. CASE UNCHANGED vars
    <2>1. UNCHANGED <<accounts, sessions, request, memory>>
      BY <1>2 DEF vars, accountVars
    <2>2. Existing' = Existing /\ Parents' = Parents /\ ParentPins' = ParentPins
      BY <2>1 DEF Parents, ParentPins, Existing
    <2>3. \A a, pin : Credentials(a, pin)' = Credentials(a, pin)
      BY <2>1, <2>2 DEF Credentials, IsChildAccount
    <2> QED
      BY <2>1, <2>2, <2>3 DEF SessionInv, LoginKnows, LoginRemembers, ProvenBy, At
  <1>3. CASE Next
    <2> USE <1>3
    <2>1. Remembers
      BY DEF Next
    <2>2. UNCHANGED accountVars => NoneOpened
      BY DEF accountVars, NoneOpened
    <2>3. ASSUME NEW r \in Requests, OtherTurn(r), UNCHANGED accountVars PROVE SessionInv'
      BY <1>1, <2>1, <2>2, <2>3, LoginsRest DEF OtherTurn
    <2>4. ASSUME NEW r \in Requests, Begin(r) PROVE SessionInv'
      <3>1. NoneOpened
        BY <1>1, <2>2, <2>4, BeginAccounts, NoSessionTyped DEF Tidies, NoneOpened
      <3>2. PICK next : Turns(r, next) /\ (Entry(next) \/ next = Done)
        BY <1>1, <2>4, BeginTurns
      <3>3. CASE next = Done
        BY <1>1, <2>1, <3>1, <3>2, <3>3, LoginsRest
      <3>4. CASE Entry(next)
        <4>1. next.pc # "new" /\ \A some : LoginKnows(next, some)
          BY <3>4 DEF Entry, EntryPcs, OwnOps, ListOps, LoginKnows
        <4>2. ~At(r, "answered")
          BY <2>4, BeginsOnce DEF At
        <4>3. Opens(r)
          BY <3>1 DEF Opens, NoneOpened, Keys
        <4> QED
          BY <1>1, <2>1, <3>2, <4>1, <4>2, <4>3, LoginsStay
      <3> QED
        BY <3>2, <3>3, <3>4
    <2>5. ASSUME NEW r \in Requests, CutOff(r) PROVE SessionInv'
      BY <1>1, <2>1, <2>2, <2>5, FailsTurn, LoginsRest DEF CutOff, Fails
    <2>6. ASSUME NEW r \in Requests, FamilyStep(r, Named) PROVE SessionInv'
      BY <2>1, <2>6, FamilyKnows
    <2>7. ASSUME NEW r \in Requests, NoticeStep(r) PROVE SessionInv'
      BY <1>1, <2>3, <2>7, NoticeTurns, NoticeAccountsTyped DEF HouseTyped
    <2>8. ASSUME NEW r \in Requests, RuleStep(r) PROVE SessionInv'
      BY <1>1, <2>3, <2>8, RuleTurns, RulesLeaveAccounts
    <2>9. ASSUME NEW r \in Requests, WatchStep(r) PROVE SessionInv'
      BY <1>1, <2>3, <2>9, WatchTurns, WatchLeavesAccounts
    <2>10. ASSUME NEW k \in Keys, Expire(k) PROVE SessionInv'
      <3>1. NoneOpened
        BY <1>1, <2>10 DEF Expire, SessionExpires, SessionRows, NoneOpened
      <3> QED
        BY <1>1, <2>1, <2>10, <3>1, LoginsWait DEF Expire
    <2>11. ASSUME WindowOver PROVE SessionInv'
      BY <1>1, <2>1, <2>2, <2>11, LoginsWait DEF WindowOver
    <2> QED
      BY <2>4, <2>5, <2>6, <2>7, <2>8, <2>9, <2>10, <2>11 DEF Next, Step
  <1> QED
    BY <1>2, <1>3

LEMMA LoginsKeepKnowing == Spec => []SessionInv
  <1>1. HouseTyped /\ SessionInv /\ [Next]_vars => SessionInv'
    BY LoginsGoOn
  <1> QED
    BY <1>1, LoginsStart, HouseStaysTyped, PTL DEF Spec

\* A session is opened only to somebody who has proven to be a parent, at some
\* time during the request, by any interleaving with changes of roles and PINs
\* (routes/auth.rs: switch, register).
THEOREM NobodySignsInUnproven == Spec => []SessionsAreProven
  <1>1. SessionInv => SessionsAreProven
    BY DEF SessionInv, SessionsAreProven, Proven, ProvenBy
  <1> QED
    BY <1>1, LoginsKeepKnowing, PTL

-----------------------------------------------------------------------------
(* Induction over a set of numbers, and sums.                              *)

\* A set of numbers has a least.
LEMMA Least ==
  ASSUME NEW T \in SUBSET Nat, T # {}
  PROVE  \E x \in T : \A y \in T : x <= y
  <1> DEFINE R == OpToRel(<, Nat)
  <1>1. \E x \in T : \A y \in T : ~(<<y, x>> \in R)
    <2>1. IsWellFoundedOn(R, Nat)
      BY NatLessThanWellFounded
    <2> HIDE DEF R
    <2> QED
      BY <2>1, WFMin
  <1>2. \A x, y \in Nat : y < x => <<y, x>> \in R
    BY DEF OpToRel
  <1> HIDE DEF R
  <1>3. \A x, y \in Nat : ~(<<y, x>> \in R) => x <= y
    BY <1>2
  <1> QED
    BY <1>1, <1>3

\* A set that has 0, and with a number the next, has all of them.
LEMMA NatSetInduction ==
  ASSUME NEW S, 0 \in S, \A n \in Nat : n \in S => n + 1 \in S
  PROVE  Nat \subseteq S
  <1> SUFFICES ASSUME Nat \ S # {} PROVE FALSE
    OBVIOUS
  <1>1. PICK x \in Nat \ S : \A y \in Nat \ S : x <= y
    BY Least
  <1>2. x # 0 /\ x - 1 \in Nat /\ x - 1 \notin Nat \ S
    BY <1>1
  <1> QED
    BY <1>1, <1>2


\* f adds the numbers of w one after another.
Adds(f, w, m) == f = [n \in 0 .. m |-> IF n = 0 THEN 0 ELSE f[n - 1] + w[n]]

\* There is such a function: it is built number by number.
LEMMA SumsExist ==
  ASSUME NEW k \in Nat, NEW w \in [1 .. k -> Nat]
  PROVE  \E f \in [0 .. k -> Nat] : Adds(f, w, k)
  <1> DEFINE S == {m \in Nat : m <= k => \E f \in [0 .. m -> Nat] : Adds(f, w, m)}
  <1>1. 0 \in S
    <2> DEFINE f == [n \in 0 .. 0 |-> 0]
    <2>1. f \in [0 .. 0 -> Nat] /\ f = [n \in 0 .. 0 |-> IF n = 0 THEN 0 ELSE f[n - 1] + w[n]]
      OBVIOUS
    <2> QED
      BY <2>1 DEF Adds
  <1>2. ASSUME NEW m \in Nat, m \in S PROVE m + 1 \in S
    <2> SUFFICES ASSUME m + 1 <= k PROVE \E g \in [0 .. m + 1 -> Nat] : Adds(g, w, m + 1)
      OBVIOUS
    <2>1. PICK f \in [0 .. m -> Nat] : Adds(f, w, m)
      BY <1>2
    <2>2. f[m] + w[m + 1] \in Nat
      OBVIOUS
    <2> DEFINE g == [n \in 0 .. m + 1 |-> IF n = m + 1 THEN f[m] + w[m + 1] ELSE f[n]]
    <2>3. g \in [0 .. m + 1 -> Nat]
      BY <2>2
    <2>4. \A n \in 0 .. m : f[n] = IF n = 0 THEN 0 ELSE f[n - 1] + w[n]
      BY <2>1 DEF Adds
    <2>5. ASSUME NEW n \in 0 .. m + 1 PROVE g[n] = IF n = 0 THEN 0 ELSE g[n - 1] + w[n]
      <3>1. CASE n = m + 1
        BY <3>1
      <3>2. CASE n \in 0 .. m
        BY <3>2, <2>4
      <3> QED
        BY <3>1, <3>2
    <2>6. g = [n \in 0 .. m + 1 |-> IF n = 0 THEN 0 ELSE g[n - 1] + w[n]]
      <3>1. g = [n \in 0 .. m + 1 |-> g[n]]
        OBVIOUS
      <3> HIDE DEF g
      <3> QED
        BY <2>5, <3>1
    <2> QED
      BY <2>3, <2>6 DEF Adds
  <1>3. Nat \subseteq S
    <2> HIDE DEF S
    <2> QED
      BY <1>1, <1>2, NatSetInduction
  <1> QED
    BY <1>3

LEMMA SumsUnfold ==
  ASSUME NEW k \in Nat, NEW w, NEW f, Adds(f, w, k)
  PROVE  f[0] = 0 /\ \A n \in 1 .. k : f[n] = f[n - 1] + w[n]
  BY DEF Adds

-----------------------------------------------------------------------------
(* The screen time.                                                        *)

UsageRow == [video : Videos, seconds : Nat]

\* What each row adds to the screen time of v.
Shares(rows, v) == [n \in 1 .. Len(rows) |-> IF rows[n].video = v THEN rows[n].seconds ELSE 0]

\* SecondsOf, of any rows.
SumOf(rows, v) ==
    LET upTo[n \in 0 .. Len(rows)] ==
            IF n = 0 THEN 0
            ELSE upTo[n - 1] + (IF rows[n].video = v THEN rows[n].seconds ELSE 0)
    IN upTo[Len(rows)]

LEMMA RowsAddUp ==
  ASSUME NEW rows \in Seq(UsageRow), NEW v
  PROVE  \E f \in [0 .. Len(rows) -> Nat] : Adds(f, Shares(rows, v), Len(rows)) /\ SumOf(rows, v) = f[Len(rows)]
  <1> DEFINE Sums(f) == f = [n \in 0 .. Len(rows) |->
                                IF n = 0 THEN 0
                                ELSE f[n - 1] + (IF rows[n].video = v THEN rows[n].seconds ELSE 0)]
             sum == CHOOSE f : Sums(f)
  <1>1. Len(rows) \in Nat /\ Shares(rows, v) \in [1 .. Len(rows) -> Nat]
    <2>1. \A n \in 1 .. Len(rows) : rows[n] \in UsageRow
      OBVIOUS
    <2>2. \A row \in UsageRow : row.seconds \in Nat
      BY DEF UsageRow
    <2> QED
      BY <2>1, <2>2 DEF Shares
  <1>2. PICK f \in [0 .. Len(rows) -> Nat] : Adds(f, Shares(rows, v), Len(rows))
    BY <1>1, SumsExist
  <1>3. ASSUME NEW g PROVE Sums(g) <=> Adds(g, Shares(rows, v), Len(rows))
    <2>1. \A n \in 0 .. Len(rows) : n # 0 => n \in 1 .. Len(rows)
      BY <1>1
    <2>2. \A n \in 0 .. Len(rows) :
             (IF n = 0 THEN 0 ELSE g[n - 1] + (IF rows[n].video = v THEN rows[n].seconds ELSE 0))
             = (IF n = 0 THEN 0 ELSE g[n - 1] + Shares(rows, v)[n])
      BY <2>1, Zenon DEF Shares
    <2> QED
      BY <2>2, Zenon DEF Adds
  <1>4. Sums(sum)
    BY <1>2, <1>3
  <1>5. SumOf(rows, v) = sum[Len(rows)]
    BY DEF SumOf
  <1> HIDE DEF Sums, sum
  <1>6. Adds(sum, Shares(rows, v), Len(rows))
    BY <1>3, <1>4
  <1>7. sum \in [0 .. Len(rows) -> Nat]
    <2> DEFINE S == {n \in Nat : n <= Len(rows) => sum[n] \in Nat}
    <2>1. 0 \in S
      BY <1>1, <1>6, SumsUnfold
    <2>2. ASSUME NEW n \in Nat, n \in S PROVE n + 1 \in S
      <3> SUFFICES ASSUME n + 1 <= Len(rows) PROVE sum[n + 1] \in Nat
        OBVIOUS
      <3>1. n + 1 \in 1 .. Len(rows) /\ sum[n] \in Nat
        BY <1>1, <2>2
      <3>2. sum[n + 1] = sum[n] + Shares(rows, v)[n + 1]
        BY <1>1, <1>6, <3>1, SumsUnfold
      <3> QED
        BY <1>1, <3>1, <3>2
    <2>3. Nat \subseteq S
      <3> HIDE DEF S
      <3> QED
        BY <2>1, <2>2, NatSetInduction
    <2>4. sum = [n \in 0 .. Len(rows) |-> sum[n]]
      BY <1>6 DEF Adds
    <2> QED
      BY <1>1, <2>3, <2>4
  <1> QED
    BY <1>5, <1>6, <1>7

\* A row more: its seconds more.
LEMMA LastRowAdds ==
  ASSUME NEW rows \in Seq(UsageRow), NEW later \in Seq(UsageRow), NEW j \in Nat, j <= Len(rows),
         Len(later) = j + 1, \A n \in 1 .. j : later[n] = rows[n], NEW v
  PROVE  \E before \in Nat :
            /\ SumOf(later, v) = before + (IF later[j + 1].video = v THEN later[j + 1].seconds ELSE 0)
            /\ j = Len(rows) => before = SumOf(rows, v)
            /\ j + 1 = Len(rows) => SumOf(rows, v)
                     = before + (IF rows[j + 1].video = v THEN rows[j + 1].seconds ELSE 0)
  <1>1. PICK k \in Nat : k = Len(rows)
    OBVIOUS
  <1>2. PICK l \in Nat : l = j + 1 /\ l = Len(later)
    OBVIOUS
  <1>3. PICK w : w = Shares(rows, v)
    OBVIOUS
  <1>4. PICK u : u = Shares(later, v)
    OBVIOUS
  <1>5. PICK f : f \in [0 .. k -> Nat] /\ Adds(f, w, k) /\ SumOf(rows, v) = f[k]
    BY <1>1, <1>3, RowsAddUp
  <1>6. PICK g : g \in [0 .. l -> Nat] /\ Adds(g, u, l) /\ SumOf(later, v) = g[l]
    BY <1>2, <1>4, RowsAddUp
  <1>7. \A n \in 1 .. k : w[n] = IF rows[n].video = v THEN rows[n].seconds ELSE 0
    BY <1>1, <1>3 DEF Shares
  <1>8. \A n \in 1 .. l : u[n] = IF later[n].video = v THEN later[n].seconds ELSE 0
    BY <1>2, <1>4 DEF Shares
  <1>9. ASSUME NEW n \in 1 .. j PROVE w[n] = u[n]
    <2>1. n \in 1 .. k /\ n \in 1 .. l /\ later[n] = rows[n]
      BY <1>1, <1>3, <1>2, <1>4
    <2> QED
      BY <1>7, <1>8, <2>1
  <1>10. f[0] = 0 /\ \A n \in 1 .. k : f[n] = f[n - 1] + w[n]
    <2>1. Adds(f, w, k)
      BY <1>5
    <2> QED
      BY <2>1, SumsUnfold
  <1>11. g[0] = 0 /\ \A n \in 1 .. l : g[n] = g[n - 1] + u[n]
    <2>1. Adds(g, u, l)
      BY <1>6
    <2> QED
      BY <2>1, SumsUnfold
  <1>12. f[j] = g[j]
    <2> DEFINE S == {n \in Nat : n <= j => f[n] = g[n]}
    <2>1. 0 \in S
      BY <1>10, <1>11
    <2>2. ASSUME NEW n \in Nat, n \in S PROVE n + 1 \in S
      BY <1>1, <1>3, <1>2, <1>4, <1>9, <1>10, <1>11, <2>2
    <2>3. Nat \subseteq S
      <3> HIDE DEF S
      <3> QED
        BY <2>1, <2>2, NatSetInduction
    <2> QED
      BY <2>3
  <1>13. g[l] = g[j] + u[l] /\ g[j] \in Nat
    BY <1>2, <1>4, <1>6, <1>11
  <1>14. l = k => f[k] = f[j] + w[l]
    BY <1>2, <1>4, <1>10
  <1>15. SumOf(later, v) = g[j] + u[l] /\ g[j] \in Nat
    BY <1>6, <1>13
  <1>16. u[l] = IF later[j + 1].video = v THEN later[j + 1].seconds ELSE 0
    BY <1>2, <1>8
  <1>17. j = k => g[j] = SumOf(rows, v)
    BY <1>5, <1>12
  <1>18. l = k => SumOf(rows, v) = g[j] + w[l]
    BY <1>5, <1>12, <1>14
  <1>19. l = k => w[l] = IF rows[j + 1].video = v THEN rows[j + 1].seconds ELSE 0
    BY <1>1, <1>2, <1>7
  <1> QED
    BY <1>1, <1>2, <1>15, <1>16, <1>17, <1>18, <1>19

LEMMA SecondsAre ==
  ASSUME NEW v
  PROVE  SecondsOf(v) = SumOf(usage, v) /\ SecondsOf(v)' = SumOf(usage', v)
  BY DEF SecondsOf, SumOf

\* A heartbeat that is about to write, and has not been overtaken, has seen
\* the last row, or none of its video.
Beats(rec) ==
    rec.pc = "usageWrite" /\ ~rec.stale =>
        \/ rec.saw = 0 /\ rec.row = <<0>>
        \/ /\ Len(usage) > 0 /\ rec.saw = Len(usage) /\ rec.row = <<usage[rec.saw].seconds>>
           /\ usage[rec.saw].video = rec.on

UsageInv ==
    /\ usage \in Seq(UsageRow) /\ acked \in [Videos -> Nat]
    /\ AckedTimeCounted
    /\ \A r \in Requests : Beats(request[r])

LEMMA UsageStarts == Init => UsageInv
  <1> SUFFICES ASSUME Init PROVE UsageInv
    OBVIOUS
  <1>1. usage \in Seq(UsageRow)
    <2>1. PICK start \in Starts : usage = start[1].usage
      BY DEF Init
    <2>2. Possible(start[1])
      BY StartsAssumption
    <2> QED
      BY <2>1, <2>2 DEF Possible, UsageRow
  <1>2. \A v \in Videos : SecondsOf(v) \in Nat
    BY <1>1, SecondsAre, RowsAddUp
  <1>3. \A r \in Requests : Beats(request[r])
    BY DEF Init, Beats, New
  <1> QED
    BY <1>1, <1>2, <1>3 DEF Init, UsageInv, AckedTimeCounted

\* A step that leaves the table alone.
LEMMA UsageWaits ==
  ASSUME RequestsSound, UsageInv, UNCHANGED watchVars, NEW r \in Requests, NEW next, Turns(r, next),
         Beats(next)
  PROVE  UsageInv'
  <1>1. usage' = usage /\ acked' = acked
    BY DEF watchVars
  <1>2. AckedTimeCounted'
    BY <1>1 DEF UsageInv, AckedTimeCounted, SecondsOf
  <1>3. ASSUME NEW q \in Requests PROVE Beats(request[q])'
    <2>1. CASE request'[q] = next
      BY <1>1, <2>1 DEF Beats
    <2>2. CASE request'[q] = request[q]
      BY <1>1, <2>2 DEF Beats, UsageInv
    <2>3. CASE request'[q] = [request[q] EXCEPT !.stale = TRUE]
      <3>1. request'[q].stale = TRUE
        BY <2>3 DEF RequestsSound, Sound, IsRequest, Fields
      <3> QED
        BY <3>1 DEF Beats
    <2> QED
      BY <2>1, <2>2, <2>3 DEF Turns
  <1> QED
    BY <1>1, <1>2, <1>3 DEF UsageInv

LEMMA BeatsElsewhere ==
  ASSUME NEW rec, rec.pc # "usageWrite"
  PROVE  Beats(rec)
  BY DEF Beats

LEMMA DoneBeats == Beats(Done)
  BY DEF Beats, Done, New

LEMMA UsageIsRead ==
  ASSUME RequestsSound, UsageInv, NEW r \in Requests, ReadUsage(r)
  PROVE  UsageInv'
  <1> DEFINE next(i, seconds) == [request[r] EXCEPT !.saw = i, !.row = <<seconds>>, !.pc = "usageWrite",
                                                    !.stale = FALSE]
  <1>1. PICK i, seconds :
            /\ Reads(r, next(i, seconds))
            /\ \/ i = 0 /\ seconds = 0
               \/ /\ i = Len(usage) /\ Len(usage) > 0 /\ seconds = usage[i].seconds
                  /\ usage[i].video = request[r].on
    BY DEF ReadUsage
  <1>2. LET rec == next(i, seconds)
        IN rec.saw = i /\ rec.row = <<seconds>> /\ rec.on = request[r].on
    BY DEF RequestsSound, Sound, IsRequest, Fields
  <1>3. Turns(r, next(i, seconds))
    BY <1>1, StepsTurn DEF RequestsSound
  <1> HIDE DEF next
  <1>4. Beats(next(i, seconds))
    BY <1>1, <1>2 DEF Beats
  <1> QED
    BY <1>3, <1>4, UsageWaits DEF ReadUsage

LEMMA UsageIsWritten ==
  ASSUME RequestsSound, UsageInv, NEW r \in Requests, WriteUsage(r)
  PROVE  UsageInv'
  <1> DEFINE rec == request[r]
             v == rec.on
             n == Len(usage)
  <1>1. rec.on \in Videos /\ rec.pin \in Nat
    BY ElapsedAssumption DEF RequestsSound, Sound, WatchSound, WriteUsage, At
  <1>2. CASE rec.stale
    BY <1>2, DoneBeats, StepsTurn, UsageWaits DEF WriteUsage, RequestsSound
  <1>3. CASE ~rec.stale
    <2> DEFINE last == [video |-> v, seconds |-> rec.row[1] + rec.pin]
               j == IF rec.saw = 0 THEN n ELSE n - 1
               old(w) == IF rec.saw # 0 /\ usage[n].video = w THEN usage[n].seconds ELSE 0
    <2>1. /\ Writes(r)
          /\ \/ rec.saw = 0 /\ rec.row = <<0>>
             \/ n > 0 /\ rec.saw = n /\ rec.row = <<usage[n].seconds>> /\ usage[n].video = v
      BY <1>3 DEF WriteUsage, UsageInv, Beats, At
    <2>2. usage \in Seq(UsageRow) /\ n \in Nat /\ \A i \in 1 .. n : usage[i] \in UsageRow
      BY DEF UsageInv
    <2>3. last \in UsageRow /\ rec.row[1] \in Nat
      <3>1. \A row \in UsageRow : row.seconds \in Nat
        BY DEF UsageRow
      <3>2. rec.row[1] \in Nat
        BY <2>1, <2>2, <3>1
      <3> QED
        BY <1>1, <3>2 DEF UsageRow
    <2>4. /\ usage' \in Seq(UsageRow) /\ j \in Nat /\ j <= n /\ Len(usage') = j + 1
          /\ usage'[j + 1] = last /\ \A i \in 1 .. j : usage'[i] = usage[i]
      <3>1. CASE rec.saw = 0
        <4>1. usage' = Append(usage, last)
          BY <2>1, <3>1 DEF Writes
        <4> HIDE DEF last
        <4> QED
          BY <2>2, <2>3, <3>1, <4>1
      <3>2. CASE rec.saw # 0
        <4>1. usage' = [usage EXCEPT ![n] = [usage[n] EXCEPT !.seconds = rec.row[1] + rec.pin]]
          BY <2>1, <3>2 DEF Writes
        <4>2. [usage[n] EXCEPT !.seconds = rec.row[1] + rec.pin] = last
          <5>1. usage[n] \in UsageRow /\ usage[n].video = v
            BY <2>1, <2>2, <3>2
          <5> QED
            BY <5>1 DEF UsageRow
        <4>3. usage' = [usage EXCEPT ![n] = last]
          BY <4>1, <4>2
        <4> HIDE DEF last
        <4> QED
          BY <2>1, <2>2, <2>3, <3>2, <4>3
      <3> QED
        BY <3>1, <3>2
    <2>5. ASSUME NEW w \in Videos
          PROVE  SecondsOf(w)' = SecondsOf(w) + (IF w = v THEN rec.pin ELSE 0)
      <3>1. PICK before \in Nat :
               /\ SumOf(usage', w)
                  = before + (IF usage'[j + 1].video = w THEN usage'[j + 1].seconds ELSE 0)
               /\ j = n => before = SumOf(usage, w)
               /\ j + 1 = n => SumOf(usage, w)
                       = before + (IF usage[j + 1].video = w THEN usage[j + 1].seconds ELSE 0)
        <4> HIDE DEF last, j
        <4> QED
          BY <2>2, <2>4, LastRowAdds, SMTT(30)
      <3>2. usage'[j + 1] = last /\ last.video = v /\ last.seconds = rec.row[1] + rec.pin
        BY <2>4
      <3> HIDE DEF last
      <3>3. CASE rec.saw = 0
        BY <1>1, <2>1, <2>2, <3>1, <3>2, <3>3, SecondsAre
      <3>4. CASE rec.saw # 0
        <4>1. j + 1 = n /\ usage[n].video = v /\ rec.row[1] = usage[n].seconds
          BY <2>1, <2>2, <3>4
        <4> QED
          BY <1>1, <2>3, <3>1, <3>2, <4>1, SecondsAre
      <3> QED
        BY <3>3, <3>4
    <2>6. acked' \in [Videos -> Nat] /\ AckedTimeCounted'
      <3>1. acked' = [acked EXCEPT ![v] = @ + rec.pin] /\ acked \in [Videos -> Nat]
        BY <2>1 DEF Writes, UsageInv
      <3> QED
        BY <1>1, <2>5, <3>1 DEF UsageInv, AckedTimeCounted
    <2>7. ASSUME NEW q \in Requests PROVE Beats(request[q])'
      <3>1. Commits(r, Done)
        BY <2>1 DEF Writes
      <3>2. CASE q = r
        BY <3>1, <3>2 DEF Commits, Beats, Done, New
      <3>3. CASE q # r /\ At(q, "usageWrite")
        <4>1. request'[q] = [request[q] EXCEPT !.stale = TRUE]
          BY <3>1, <3>3 DEF Commits
        <4>2. request'[q].stale = TRUE
          BY <4>1 DEF RequestsSound, Sound, IsRequest, Fields
        <4> QED
          BY <4>2 DEF Beats
      <3>4. CASE q # r /\ ~At(q, "usageWrite")
        <4>1. request'[q] = request[q]
          BY <3>1, <3>4 DEF Commits
        <4> QED
          BY <3>4, <4>1 DEF Beats, At
      <3> QED
        BY <3>2, <3>3, <3>4
    <2> QED
      BY <2>4, <2>6, <2>7 DEF UsageInv
  <1> QED
    BY <1>2, <1>3

LEMMA PageStepOps ==
  ASSUME NEW r, Sound(request[r]), PageStep(r)
  PROVE  request[r].op \in PageOps
  <1>1. \/ request[r].pc \in ListOps \cup {"stream"} \cup Stages
        \/ request[r].pc \in {"downloads?", "insert download", "subscribed?", "uploads", "lookup", "write back",
                              "unwatched", "bucket", "prior?", "log search"}
    BY DEF PageStep, Gate, ListAtOnce, EnforceChannelAccess, Search, LookForPrior, LogSearch, WatchHistory,
     LookupChannelIds, BackfillVideoChannelIds, UpNextFromChannel, UpNextFromNewVideos, UpNext, Extracted,
     EnsureDownloadsEnabled, InsertDownload, At, Stages, ListOps
  <1> QED
    BY <1>1 DEF Sound, PageSound, PageOps, ListOps, GateOps

LEMMA UsageGoesOn == HouseTyped /\ UsageInv /\ [Next]_vars => UsageInv'
  <1> SUFFICES ASSUME HouseTyped, UsageInv, [Next]_vars PROVE UsageInv'
    OBVIOUS
  <1>1. RequestsSound /\ RulesTyped
    BY DEF HouseTyped
  \* Only heartbeats come by the place where a row is written.
  <1>2. ASSUME NEW r \in Requests, NEW next, Turns(r, next), Sound(next), UNCHANGED watchVars,
               next = Done \/ next.op \notin {"heartbeat", "progress"} \/ next.pc # "usageWrite"
        PROVE  UsageInv'
    BY <1>1, <1>2, DoneBeats, BeatsElsewhere, UsageWaits DEF Sound, WatchSound
  <1>3. ASSUME UNCHANGED <<request, watchVars>> PROVE UsageInv'
    BY <1>3 DEF UsageInv, AckedTimeCounted, SecondsOf, Beats, watchVars
  <1>4. ASSUME NEW r \in Requests, Begin(r) PROVE UsageInv'
    <2>1. PICK next : Turns(r, next) /\ (Entry(next) \/ next = Done)
      BY <1>1, <1>4, BeginTurns
    <2>2. next.pc # "usageWrite" /\ Sound(next)
      BY <2>1, FreshRequests DEF Entry, EntryPcs, OwnOps, ListOps, Done, New
    <2> QED
      BY <1>2, <1>4, <2>1, <2>2, BeginAccounts DEF watchVars
  <1>5. ASSUME NEW r \in Requests, CutOff(r) PROVE UsageInv'
    BY <1>1, <1>2, <1>5, FailsTurn, FreshRequests DEF CutOff
  <1>6. ASSUME NEW r \in Requests, FamilyStep(r, Named), UNCHANGED watchVars PROVE UsageInv'
    <2>1. PICK next : /\ Turns(r, next) /\ Sound(next)
                      /\ next = Done \/ \E pc : Follows(request[r].op, pc) /\ GoesOn(request[r], next, pc)
      BY <1>1, <1>6, FamilyTurns DEF FamilyTurn
    <2>2. next = Done \/ next.pc # "usageWrite"
      BY <2>1 DEF Follows, FamilyPcs, GoesOn
    <2> QED
      BY <1>2, <1>6, <2>1, <2>2
  <1>7. ASSUME NEW r \in Requests, NoticeStep(r), UNCHANGED watchVars PROVE UsageInv'
    <2>1. PICK next : Turns(r, next) /\ Sound(next) /\ (next = Done \/ next.op = request[r].op)
      BY <1>1, <1>7, NoticeTurns DEF OtherTurn
    <2>2. request[r].op \notin {"heartbeat", "progress"}
      BY <1>1, <1>7 DEF RequestsSound, Sound, NoticeSound, NoticeStep, CountRecent, ListParents, LookForNotice,
         InsertOne, Dismiss, At
    <2> QED
      BY <1>2, <1>7, <2>1, <2>2
  <1>8. ASSUME NEW r \in Requests, RuleStep(r), UNCHANGED watchVars PROVE UsageInv'
    <2>1. CASE PageStep(r)
      <3>1. PICK next : (Reads(r, next) \/ Commits(r, next)) /\ PageGoesOn(request[r], next)
        BY <1>1, <2>1, PagesMove DEF PageMove
      <3>2. Turns(r, next)
        BY <1>1, <3>1, StepsTurn DEF RequestsSound
      <3>3. Sound(next) /\ next.op \notin {"heartbeat", "progress"}
        BY <1>1, <2>1, <3>1, PageStepOps DEF PageGoesOn, RequestsSound, PageOps, ListOps, GateOps
      <3> QED
        BY <1>2, <1>8, <3>2, <3>3
    <2>2. CASE EndStep(r)
      BY <1>1, <1>2, <1>8, <2>2, EndsCommit, StepsTurn, FreshRequests DEF RequestsSound
    <2>3. CASE RequireChild(r) \/ EnsureSettingsRow(r)
      <3>1. PICK next : Turns(r, next) /\ Sound(next) /\ (next = Done \/ next.op = request[r].op)
        BY <1>1, <2>3, SettingsTurn DEF OtherTurn
      <3>2. request[r].op \notin {"heartbeat", "progress"}
        BY <1>1, <2>3 DEF RequireChild, EnsureSettingsRow, At, RequestsSound, Sound, RuleSound, ParentOps
      <3> QED
        BY <1>2, <1>8, <3>1, <3>2
    <2> QED
      BY <1>8, <2>1, <2>2, <2>3 DEF RuleStep, PageStep, EndStep
  <1>9. ASSUME NEW r \in Requests, UpsertWatchHistory(r) PROVE UsageInv'
    <2> DEFINE next == [request[r] EXCEPT !.pc = "usage"]
    <2>1. Reads(r, Done) \/ Commits(r, Done) \/ Commits(r, next)
      BY <1>9 DEF UpsertWatchHistory
    <2>2. next.pc = "usage"
      BY <1>1 DEF RequestsSound, Sound, IsRequest, Fields
    <2>3. Beats(next) /\ UNCHANGED watchVars
      BY <1>9, <2>2 DEF UpsertWatchHistory, Beats
    <2> HIDE DEF next
    <2> QED
      BY <1>1, <2>1, <2>3, DoneBeats, StepsTurn, UsageWaits DEF RequestsSound
  <1> QED
    BY <1>1, <1>3, <1>4, <1>5, <1>6, <1>7, <1>8, <1>9, UsageIsRead, UsageIsWritten
       DEF Next, Step, WatchStep, Expire, WindowOver, vars

\* The screen time of every video is what the acknowledged heartbeats add up
\* to, however many race: one whose snapshot has been overtaken writes nothing
\* (routes/usage.rs: upsert_usage_log).
THEOREM HeartbeatsAddUp == Spec => []AckedTimeCounted
  <1>1. UsageInv => AckedTimeCounted
    BY DEF UsageInv
  <1>2. HouseTyped /\ UsageInv /\ [Next]_vars => UsageInv'
    BY UsageGoesOn
  <1> QED
    BY <1>1, <1>2, UsageStarts, HouseStaysTyped, PTL DEF Spec
=============================================================================
