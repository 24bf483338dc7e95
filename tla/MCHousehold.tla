---------------------------- MODULE MCHousehold -----------------------------
(* Households and agendas for Household. *)
EXTENDS Household, TLC

CONSTANTS v1, v2, r1, r2, r3, mom, dad, tablet, p1, p2

Parent(pin) == [role |-> "parent", pin |-> pin]
Child == [role |-> "child", pin |-> NoPin]

\* 2 is always the child of the rules; TrueChannel and Uploads: v2 is listed
\* by both channels.
TheKid == 2
OneEach == v1 :> 1 @@ v2 :> 1
AllUploads == {<<1, v1>>, <<1, v2>>, <<2, v2>>}

NoRules == [
    blocked |-> [v \in Videos |-> Nobody], direct |-> [v \in Videos |-> Nobody],
    granted |-> [c \in Channels |-> Nobody], hidden |-> {},
    liked |-> [v \in Videos |-> "none"], subscribed |-> [c \in Channels |-> "none"],
    settings |-> "unset", archive |-> {}, channelOf |-> [v \in Videos |-> Unborn],
    watched |-> [v \in Videos |-> "none"], usage |-> <<>>]

Household(as, signedIn) ==
    [accounts |-> as, setUp |-> as[1] # Unborn, signedIn |-> signedIn] @@ NoRules

Nowhere == [b \in Browsers |-> Nobody]
Fresh == Household([a \in Accounts |-> Unborn], Nowhere)
Home(third) ==
    Household([a \in Accounts |-> CASE a = 1 -> Parent(p1) [] a = 2 -> Child
                                    [] a = 3 -> third [] OTHER -> Unborn],
              mom :> 1 @@ dad :> (IF third = Parent(p2) THEN 3 ELSE Nobody) @@ tablet :> 2)
\* A child was made a parent, and the parent with the PIN one no longer.
Bare == [Home(Unborn) EXCEPT !.accounts[1].pin = NoPin]
Families == {Fresh, Home(Parent(p2)), Home(Child), Home(Unborn), Bare}

\* A household with rules, and one parent to change them.
AddedBy1(set, all) == [x \in all |-> IF x \in set THEN 1 ELSE Nobody]
Ruled(blk, dir, grant, hide, subs) ==
    [Home(Unborn) EXCEPT
        !.blocked = AddedBy1(blk, Videos), !.direct = AddedBy1(dir, Videos),
        !.granted = AddedBy1(grant, Channels), !.hidden = hide,
        !.subscribed = [c \in Channels |-> IF c \in subs THEN "live" ELSE "none"],
        !.liked = [v \in Videos |-> "live"], !.settings = "on", !.archive = AllUploads,
        !.channelOf = OneEach]
Ruleds ==
    {Ruled({}, {v1}, {}, {}, {}), Ruled({}, {}, {1}, {}, {}), Ruled({v1}, {}, {1}, {}, {}),
     Ruled({}, {v1}, {}, {v1}, {}), Ruled({}, {}, {}, {}, {1}), Ruled({v1}, {v1}, {1}, {v1}, {}),
     Ruled({}, {v2}, {1, 2}, {}, {})}

\* Watched before; `of` is the channel on record, `listed` what is listed of v1.
Watched(how, of, listed) ==
    [Ruled({}, {}, {1}, {}, {}) EXCEPT
        !.watched = v1 :> how @@ v2 :> "finished", !.channelOf = v1 :> of @@ v2 :> 1,
        !.archive = listed, !.usage = <<[video |-> v1, seconds |-> 1]>>]
Watcheds ==
    {Watched(how, of, listed) : how \in {"started", "finished"}, of \in {Nobody, 1},
                                listed \in {{}, {<<1, v1>>}}}

Three(a, b, c) == r1 :> a @@ r2 :> b @@ r3 :> c

FamilyAgendas ==
    {Three(a, b, "none") : a \in RoleOps, b \in RoleOps \cup {"setPin", "addMember"}}
    \cup {Three("deleteAccount", "switch", "expire")}
    \cup {Three("register", "register", "complete"), Three("register", "complete", "cut")}
    \cup {Three("switch", "logout", "expire")}
    \cup {Three("setPin", "dismiss", "deleteMember")}
    \cup {Three("search", "search", a) : a \in {"none", "cut", "updateMember", "dismiss"}}
    \cup {Three("switch", a, "none") : a \in {"switch", "addMember", "deleteMember"}}
    \cup {Three("deleteMember", a, "cut") : a \in {"addMember", "switch"}}
    \cup {Three(a, "deleteMember", "none") :
             a \in {"hide", "like", "block", "allowVideo", "allowChannel", "switchDownloads", "heartbeat"}}

PageAgendas ==
    {Three(a, b, "none") : a \in PageOps, b \in ParentOps \cup {"hide", "unhide", "publish"}}
    \cup {Three(a, "block", b) : a \in GateOps \cup {"search", "likes"}, b \in {"allowVideo", "allowChannel"}}
    \cup {Three("channelPage", a, "none") : a \in {"subscribe", "unsubscribe"}}
    \cup {Three("likes", a, "none") : a \in {"like", "unlike"}}
    \cup {Three("createDownload", a, b) : a \in {"finishDownload", "deleteDownload"}, b \in {"finishDownload"}}

WatchAgendas ==
    {Three(a, "publish", "progress") : a \in {"continueWatching", "watchAgain"}}
    \cup {Three("heartbeat", "heartbeat", "none")}

\* A promotion and a new PIN between the two reads of a switch.
Promotion == <<Home(Unborn), Three("switch", "updateMember", "setPin")>>

\* Agendas that go with the situation they are started from.
Starting == {Promotion} \cup (Families \X FamilyAgendas) \cup (Ruleds \X PageAgendas) \cup (Watcheds \X WatchAgendas)
=============================================================================
