------------------------------ MODULE Notices ------------------------------
(***************************************************************************)
(* Notifications to the parents (services/notifications.rs,                *)
(* routes/notifications.rs), as the handlers of wrong PINs and of searches *)
(* send them: a list of the parents, then a row for each, a statement a    *)
(* time.  Forwarding to other services has no effect here.                 *)
(***************************************************************************)
EXTENDS Accounts

VARIABLE notices  \* parent_notifications: pairs of a parent and a cause

\* What a request sends notifications about.
Cause(r) == IF request[r].op = "search" THEN "search" ELSE "pin"

\* Nothing that goes wrong here fails the request.
Told(r) == IF request[r].op = "search" THEN [request[r] EXCEPT !.rows = {}, !.pc = "answered"]
           ELSE Done

\* record_failed_pin: when rows enough are recent, not every failure is told.
CountRecent(r) ==
    /\ At(r, "recent?")
    /\ \E next \in {[request[r] EXCEPT !.pc = "parents"], Done} : Reads(r, next)
    /\ UNCHANGED <<accountVars, notices>>

\* broadcast tells them all, broadcast_once_within those not told before.
Telling(r) == IF request[r].op = "search" THEN "told?" ELSE "tell"

ListParents(r) ==
    /\ At(r, "parents")
    /\ Reads(r, IF Parents = {} THEN Told(r)
                ELSE [request[r] EXCEPT !.rows = Parents, !.pc = Telling(r)])
    /\ UNCHANGED <<accountVars, notices>>

Rest(r, p) == IF request[r].rows = {p} THEN Told(r)
              ELSE [request[r] EXCEPT !.rows = @ \ {p}, !.pc = Telling(r)]

LookForNotice(r) ==
    /\ At(r, "told?")
    /\ \E p \in request[r].rows :
          Reads(r, IF <<p, "search">> \in notices THEN Rest(r, p)
                   ELSE [request[r] EXCEPT !.on = p, !.pc = "insert notice"])
    /\ UNCHANGED <<accountVars, notices>>

\* The row of a parent that is gone is refused, and those after it not tried.
InsertOne(r) ==
    /\ \E p \in request[r].rows :
          /\ At(r, "tell") \/ (At(r, "insert notice") /\ p = request[r].on)
          /\ IF p \in Existing
             THEN notices' = notices \cup {<<p, Cause(r)>>} /\ Commits(r, Rest(r, p))
             ELSE UNCHANGED notices /\ Reads(r, Told(r))
    /\ UNCHANGED accountVars

\* A parent deletes its own.
BeginDismiss(r, b, cause) ==
    /\ Begins(r, b, [New EXCEPT !.op = "dismiss", !.as = cause, !.pc = "dismiss"], "parent")
    /\ UNCHANGED notices

Dismiss(r) ==
    /\ At(r, "dismiss")
    /\ notices' = notices \ {<<request[r].me, request[r].as>>}
    /\ Commits(r, Done)
    /\ UNCHANGED accountVars

NoticeStep(r) ==
    CountRecent(r) \/ ListParents(r) \/ LookForNotice(r) \/ InsertOne(r) \/ Dismiss(r)

=============================================================================
