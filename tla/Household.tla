----------------------------- MODULE Household ------------------------------
(***************************************************************************)
(* The household at work: sign-ins and members (Family), the rules for the *)
(* child and the pages that ask them (ChildRules), heartbeats (WatchTime), *)
(* all requests of one server over one database.                           *)
(***************************************************************************)
EXTENDS Family, WatchTime

\* Pairs of a household to start from and what the requests will ask for;
\* bounded for the model.
CONSTANT Starts

VARIABLES
    agenda,  \* the operation of each request
    memory   \* history: what was true at some time, and all the time, of a request

vars == <<accountVars, request, notices, familyVars, ruleVars, watchVars, agenda, memory>>

\* The seconds of a video's rows, added up one row after another.
SecondsOf(v) ==
    LET upTo[n \in 0 .. Len(usage)] ==
            IF n = 0 THEN 0
            ELSE upTo[n - 1] + (IF usage[n].video = v THEN usage[n].seconds ELSE 0)
    IN upTo[Len(usage)]

Belongs(v, c) == c = TrueChannel[v] \/ <<c, v>> \in Uploads

\* What the tables can hold: there is a parent once there is an account, rows
\* name what exists, and a video somebody uses has a row.
Possible(s) ==
    LET existing == {a \in Accounts : s.accounts[a] \in Rows}
    IN /\ s.accounts \in [Accounts -> Rows \cup {Unborn, Gone}] /\ s.setUp \in BOOLEAN
       /\ (\E a \in Accounts : s.accounts[a] # Unborn) => \E a \in existing : s.accounts[a].role = "parent"
       /\ s.signedIn \in [Browsers -> existing \cup {Nobody}]
       /\ s.blocked \in [Videos -> Accounts \cup {Nobody}]
       /\ s.direct \in [Videos -> Accounts \cup {Nobody}]
       /\ s.granted \in [Channels -> Accounts \cup {Nobody}]
       /\ s.hidden \subseteq Videos /\ s.archive \subseteq Uploads
       /\ s.liked \in [Videos -> {"none", "live", "deleted"}]
       /\ s.subscribed \in [Channels -> {"none", "live", "deleted"}]
       /\ s.settings \in {"unset", "off", "on"}
       /\ s.channelOf \in [Videos -> Channels \cup {Nobody, Unborn}]
       /\ s.watched \in [Videos -> {"none", "started", "finished"}]
       /\ s.usage \in Seq([video : Videos, seconds : Nat])
       /\ \A v \in Videos :
             /\ s.channelOf[v] \in Channels => Belongs(v, s.channelOf[v])
             /\ s.channelOf[v] = Unborn =>
                   s.direct[v] = Nobody /\ s.watched[v] = "none" /\ \A c \in Channels : <<c, v>> \notin s.archive

ASSUME StartsAssumption == \A start \in Starts : Possible(start[1])

Init ==
    /\ request = [r \in Requests |-> New]
    /\ \E start \in Starts : LET s == start[1] IN
          /\ agenda = start[2]
          /\ accounts = s.accounts /\ setUp = s.setUp
          /\ sessions = [k \in Keys |-> IF k \in Browsers /\ s.signedIn[k] # Nobody
                                        THEN [account |-> s.signedIn[k], live |-> TRUE] ELSE NoSession]
          /\ cookie = [b \in Browsers |-> IF s.signedIn[b] # Nobody THEN b ELSE Nobody]
          /\ blocked = s.blocked /\ direct = s.direct /\ granted = s.granted
          /\ hidden = s.hidden /\ liked = s.liked /\ subscribed = s.subscribed
          /\ settings = s.settings /\ archive = s.archive /\ channelOf = s.channelOf
          /\ watched = s.watched /\ usage = s.usage
          /\ downloads = [v \in Videos |-> "none"]
    /\ notices = {} /\ searched = FALSE
    /\ failures = 0 /\ mishap = {}
    /\ acked = [v \in Videos |-> SecondsOf(v)]
    /\ memory = [r \in Requests |-> [some |-> {}, all |-> {}]]

-----------------------------------------------------------------------------
(* Steps.                                                                  *)

BeginsFamily(r, b, op) ==
    \/ op = "register" /\ \E pin \in Pins : BeginRegister(r, b, pin)
    \/ op = "complete" /\ BeginComplete(r, b)
    \/ op = "logout" /\ BeginLogout(r, b)
    \/ op = "switch" /\ \E a \in Accounts, pin \in Pins : BeginSwitch(r, b, a, pin)
    \/ op = "setPin" /\ \E pin, current \in Pins : BeginSetPin(r, b, pin, current)
    \/ op = "addMember" /\ \E role \in Roles, pin \in Pins : BeginAddMember(r, b, role, pin)
    \/ op = "updateMember" /\ \E a \in Accounts, role \in Roles : BeginUpdateMember(r, b, a, role)
    \/ op \in RoleOps /\ \E a \in Accounts : BeginDelete(r, b, a, op)

OnVideos == {"block", "unblock", "allowVideo", "dropVideo", "hide", "unhide", "like", "unlike"} \cup GateOps

BeginsRules(r, b, op) ==
    \/ \E on \in IF op \in OnVideos THEN Videos ELSE Channels :
          \/ op # "switchDownloads" /\ BeginRule(r, b, op, on, "none")
          \/ \E as \in {"told", "untold"} :
                (as = "told" => op \in {"hide", "like"}) /\ BeginMark(r, b, op, on, as)
          \/ op \notin ListOps \ {"channelPage", "upNextOf"} /\ BeginPage(r, b, op, on)
    \/ \E as \in {"on", "off"} : op = "switchDownloads" /\ BeginRule(r, b, op, Nobody, as)
    \/ op \in ListOps \ {"channelPage", "upNextOf"} /\ BeginPage(r, b, op, Nobody)
    \/ \E v \in Videos : BeginDownload(r, b, op, v)
    \/ \E row \in Uploads : op = "publish" /\ Publish(r, row[1], row[2])

BeginsWatch(r, b, op) ==
    \E v \in Videos, told \in {"told", "untold"}, state \in {"started", "finished"}, n \in Elapsed :
        BeginWatch(r, b, op, v, told, state, n)

Begin(r) ==
    \E b \in Browsers :
        \/ BeginsFamily(r, b, agenda[r]) /\ UNCHANGED <<notices, familyVars, ruleVars, watchVars>>
        \/ BeginsRules(r, b, agenda[r]) /\ UNCHANGED <<notices, familyVars, watchVars>>
        \/ BeginsWatch(r, b, agenda[r]) /\ UNCHANGED <<notices, familyVars>>
        \/ /\ agenda[r] = "dismiss"
           /\ \E cause \in {"pin", "search"} : BeginDismiss(r, b, cause)
           /\ UNCHANGED <<familyVars, ruleVars, watchVars>>

\* An agenda leaves out the request for what may happen to the others: one is
\* cut off between two statements, or a session runs out.
CutOff(r) ==
    /\ \E q \in Requests : agenda[q] = "cut"
    /\ Fails(r)
    /\ UNCHANGED <<notices, familyVars, ruleVars, watchVars>>

Expire(k) ==
    /\ \E q \in Requests : agenda[q] = "expire"
    /\ SessionExpires(k)
    /\ UNCHANGED <<request, notices, familyVars, ruleVars, watchVars>>

Step ==
    \/ \E r \in Requests :
          \/ Begin(r) \/ CutOff(r)
          \/ FamilyStep(r, Named) /\ Cascade /\ UNCHANGED <<notices, watchVars>>
          \/ NoticeStep(r) /\ UNCHANGED <<familyVars, ruleVars, watchVars>>
          \/ RuleStep(r) /\ UNCHANGED <<notices, familyVars, watchVars>>
          \/ WatchStep(r) /\ UNCHANGED <<notices, familyVars>>
    \/ \E k \in Keys : Expire(k)
    \/ WindowOver /\ UNCHANGED <<notices, ruleVars, watchVars>>

-----------------------------------------------------------------------------
(* What requests are held against: facts of the present, remembered for as *)
(* long as the request lasts.                                              *)

\* What speaks for somebody who asks for a profile with a PIN.
Credentials(a, pin) ==
    {fact \in {"own", "child", "parental"} :
        CASE fact = "own" -> a \in Parents /\ accounts[a].pin = pin
          [] fact = "child" -> IsChildAccount(a)
          [] fact = "parental" -> pin \in ParentPins}

RuleFacts ==
    {<<"open", v>> : v \in {w \in Videos : blocked[w] = Nobody}}
    \cup {<<"seen", v>> : v \in Videos \ hidden}
    \cup {<<"direct", v>> : v \in {w \in Videos : direct[w] # Nobody}}
    \cup {<<"granted", c>> : c \in Granted}
    \cup {<<"subscribed", c>> : c \in {d \in Channels : subscribed[d] = "live"}}
    \cup {<<"liked", v>> : v \in {w \in Videos : liked[w] = "live"}}
    \cup {<<watched[v], v>> : v \in Videos}
    \cup {<<"known", v>> : v \in {w \in Videos : channelOf[w] \in Channels}}
    \cup {<<"listed", row[1], row[2]>> : row \in archive}
    \cup {<<"downloads", settings>>}

\* Who is a parent, and who has been told of the search.
ParentFacts ==
    {<<"parent", p>> : p \in Parents}
    \cup {<<"told", p>> : p \in {q \in Accounts : <<q, "search">> \in notices}}

FactsFor(rec) ==
    CASE rec.op = "search" -> RuleFacts \cup ParentFacts
      [] rec.op \in PageOps \ {"search"} -> RuleFacts
      [] rec.op = "switch" -> Credentials(rec.on, rec.pin)
      [] rec.op = "register" -> IF Existing = {} THEN {"first"} ELSE {}

Remembers ==
    memory' = [r \in Requests |->
        IF request'[r].op \notin PageOps \cup {"switch", "register"} \/ At(r, "answered") THEN memory[r]
        ELSE LET facts == FactsFor(request[r])'
             IN IF At(r, "new") THEN [some |-> facts, all |-> facts]
                ELSE [some |-> memory[r].some \cup facts, all |-> memory[r].all \cap facts]]

Next == Step /\ Remembers /\ UNCHANGED agenda

Spec == Init /\ [][Next]_vars

-----------------------------------------------------------------------------
(* Types: what the tables hold, and that a request that has ended holds    *)
(* nothing.                                                                *)
TypeOK ==
    /\ AccountsTypeOK
    /\ blocked \in [Videos -> Accounts \cup {Nobody}]
    /\ direct \in [Videos -> Accounts \cup {Nobody}]
    /\ granted \in [Channels -> Accounts \cup {Nobody}]
    /\ hidden \subseteq Videos /\ archive \subseteq Uploads
    /\ liked \in [Videos -> {"none", "live", "deleted"}]
    /\ subscribed \in [Channels -> {"none", "live", "deleted"}]
    /\ settings \in {"unset", "off", "on"}
    /\ channelOf \in [Videos -> Channels \cup {Nobody, Unborn}]
    /\ watched \in [Videos -> {"none", "started", "finished"}]
    /\ downloads \in [Videos -> {"none", "pending", "complete", "deleted"}]
    /\ notices \subseteq Existing \X {"pin", "search"}
    /\ searched \in BOOLEAN
    /\ \A r \in Requests : request[r].pc = "done" => request[r] = Done

\* A session a request opened was opened to somebody who had proven to be a
\* parent: by the parent's own PIN for its profile, by any parent's for what
\* was a child's, by an empty household for the first account, each at some
\* time during the request (routes/auth.rs: switch, register).
Proven(r) ==
    LET some == memory[r].some
    IN "own" \in some \/ {"child", "parental"} \subseteq some \/ "first" \in some

SessionsAreProven == \A r \in Requests : sessions[r].account # Nobody => Proven(r)

\* A household that has had a parent keeps one, as long as no two changes of
\* roles overlap (routes/accounts.rs, routes/family.rs: the guard of the last
\* parent).
AParentRemains ==
    ("overlap" \notin mishap /\ \E a \in Accounts : accounts[a] # Unborn) => Parents # {}

\* Whatever a page shows or a gate lets through was, at some time during the
\* request, not blocked; at some time not hidden; and at some time granted: by
\* itself, by a channel it belongs to, or on the page of a channel by the
\* child's subscription.  A download needs the setting too (services/access.rs,
\* routes/feed.rs, search.rs, channels.rs, likes.rs, downloads.rs).
PagesRespectRules ==
    \A r \in Requests : At(r, "answered") =>
        \A v \in request[r].shown :
            LET some == memory[r].some
            IN /\ <<"open", v>> \in some /\ <<"seen", v>> \in some
               /\ \/ <<"direct", v>> \in some
                  \/ \E c \in Channels : Belongs(v, c) /\ <<"granted", c>> \in some
                  \/ request[r].op = "channelPage" /\ <<"subscribed", request[r].on>> \in some
               /\ request[r].op \in {"createDownload", "streamDownload"} => <<"downloads", "on">> \in some

\* What each page and gate is asked for.
Owed(r, v) ==
    LET all == memory[r].all
        op == request[r].op
        listed == <<"listed", TrueChannel[v], v>> \in all /\ <<"granted", TrueChannel[v]>> \in all
    IN CASE op = "stream" -> v = request[r].on
         [] op \in GateOps \ {"stream"} -> v = request[r].on /\ <<"downloads", "on">> \in all
         [] op \in {"newVideos", "upNext"} -> listed /\ (op = "upNext" => <<"none", v>> \in all)
         [] op \in {"channelPage", "upNextOf"} ->
                /\ request[r].on = TrueChannel[v] /\ listed
                /\ op = "upNextOf" => <<"none", v>> \in all
         [] op = "likes" -> <<"liked", v>> \in all
         [] op = "search" -> listed \/ <<"direct", v>> \in all \/ <<"started", v>> \in all
         [] OTHER -> <<Keep(op), v>> \in all

\* A video that was allowed all the time a request took is neither refused nor
\* missing from a page it belongs on.  A video that several channels list is
\* left out, and one the server knows no channel of is only allowed by itself
\* (routes/feed.rs: lookup_channel_ids_for_videos, up_next; search.rs;
\* services/access.rs).
NothingAllowedIsLost ==
    \A r \in Requests : At(r, "answered") =>
        \A v \in Videos :
            LET all == memory[r].all
                c == TrueChannel[v]
                known == \/ request[r].op \in GateOps \/ <<"known", v>> \in all
                         \/ request[r].op \notin {"search", "likes"} /\ <<"listed", c, v>> \in all
            IN ( /\ Owed(r, v)
                 /\ \A d \in Channels : <<d, v>> \in Uploads => d = c
                 /\ <<"open", v>> \in all /\ <<"seen", v>> \in all
                 /\ <<"direct", v>> \in all \/ (known /\ <<"granted", c>> \in all) )
               => v \in request[r].shown

\* The first search for a term is told to every parent there is, whichever of
\* two searches for it comes first, unless a search is cut off or the parents
\* change meanwhile: during one of the searches each of them has the notice
\* (routes/search.rs: child_search, "before writing the row").
SearchIsAnnounced ==
    LET searches == {r \in Requests : agenda[r] = "search"}
        parentsIn(facts) == facts \cap {<<"parent", p>> : p \in Accounts}
        calm(r) == parentsIn(memory[r].some) = parentsIn(memory[r].all)
    IN (\A r \in searches : At(r, "answered") /\ calm(r))
       => \A p \in Accounts :
             searches # {} /\ (\A r \in searches : <<"parent", p>> \in memory[r].all)
             => \E r \in searches : <<"told", p>> \in memory[r].some

\* The screen time of a video is what the acknowledged heartbeats add up to,
\* whichever way they race (routes/usage.rs: "so we never lose count if two
\* heartbeats race").
AckedTimeCounted == \A v \in Videos : SecondsOf(v) = acked[v]

=============================================================================
