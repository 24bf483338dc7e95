------------------------------- MODULE Family -------------------------------
(***************************************************************************)
(* Who is in the household and who is signed in: registration, the switch  *)
(* between profiles, PINs and members (routes/auth.rs, routes/accounts.rs, *)
(* routes/family.rs, routes/setup.rs).                                     *)
(*                                                                         *)
(* A PIN stands for its Argon2 hash; one that is_valid_pin rejects is like *)
(* one that matches nobody's.                                              *)
(***************************************************************************)
EXTENDS Notices

CONSTANT MaxFailures  \* THROTTLE_MAX_FAILURES

VARIABLES
    failures,  \* failed switches of the peer inside THROTTLE_WINDOW
    mishap     \* history: what the promises below do not survive

familyVars == <<failures, mishap>>

RoleOps == {"updateMember", "deleteMember", "deleteAccount"}

\* Mutant: sessions do not count.
NamedOnly(a, others) == a \in others

\* An account that rows of other tables refer to cannot be deleted; `others`
\* are those that the household's other tables name.
Referenced(a, others) ==
    a \in others \/ SessionsOf(a) # {} \/ \E notice \in notices : notice[1] = a

Ask(op, on, as, pin, pc) ==
    [New EXCEPT !.op = op, !.on = on, !.as = as, !.pin = pin, !.pc = pc]

BeginRegister(r, b, pin) ==
    Begins(r, b, Ask("register", Nobody, "parent", pin, "insertFirst"), "anyone")
BeginComplete(r, b) ==
    Begins(r, b, Ask("complete", Nobody, "none", NoPin, "hasParent"), "anyone")
BeginLogout(r, b) ==
    Begins(r, b, Ask("logout", Nobody, "none", NoPin, "dropSession"), "user")
\* Too many failures, and the peer is turned away before any lookup.
BeginSwitch(r, b, a, pin) ==
    /\ failures < MaxFailures
    /\ Begins(r, b, Ask("switch", a, "none", pin, "findTarget"), "anyone")
\* pin is the new one; `saw` carries current_pin.
BeginSetPin(r, b, pin, current) ==
    Begins(r, b, [Ask("setPin", Nobody, "none", pin, "findSelf") EXCEPT !.saw = current], "user")
BeginAddMember(r, b, role, pin) ==
    Begins(r, b, Ask("addMember", Nobody, role, IF role = "parent" THEN pin ELSE NoPin, "insert"),
           "parent")
BeginUpdateMember(r, b, a, role) ==
    Begins(r, b, Ask("updateMember", a, role, NoPin, "findMember"), "parent")
BeginDelete(r, b, a, op) ==
    /\ op \in {"deleteMember", "deleteAccount"}
    /\ Begins(r, b, Ask(op, a, "none", NoPin, "findMember"), "parent")

-----------------------------------------------------------------------------
(* Registration and members: a row first, its PIN by another statement.    *)

Inserts(r, a, role) ==
    /\ IsNext(a)
    /\ accounts' = [accounts EXCEPT ![a] = [role |-> role, pin |-> NoPin]]
    /\ Commits(r, IF role = "parent" THEN [request[r] EXCEPT !.on = a, !.pc = "setPin"] ELSE Done)

\* INSERT ... WHERE NOT EXISTS: only into an empty table.
InsertFirstAccount(r) ==
    /\ At(r, "insertFirst")
    /\ IF Existing = {} THEN \E a \in Accounts : Inserts(r, a, "parent")
                        ELSE Reads(r, Done) /\ UNCHANGED accounts
    /\ UNCHANGED <<sessions, cookie, setUp, familyVars>>

InsertLocal(r) ==
    /\ At(r, "insert")
    /\ \E a \in Accounts : Inserts(r, a, request[r].as)
    /\ UNCHANGED <<sessions, cookie, setUp, familyVars>>

\* An UPDATE that finds no row is no error.
SetPinHash(r) ==
    /\ At(r, "setPin")
    /\ accounts' = IF request[r].on \in Existing
                   THEN [accounts EXCEPT ![request[r].on].pin = request[r].pin] ELSE accounts
    /\ Commits(r, IF request[r].op = "register" THEN [request[r] EXCEPT !.pc = "createSession"]
                  ELSE Done)
    /\ UNCHANGED <<sessions, cookie, setUp, familyVars>>

HasFirstParent(r) ==
    /\ At(r, "hasParent")
    /\ Reads(r, IF Parents # {} THEN [request[r] EXCEPT !.pc = "complete"] ELSE Done)
    /\ UNCHANGED <<accountVars, familyVars>>

Complete(r) ==
    /\ At(r, "complete")
    /\ setUp' = TRUE
    /\ Commits(r, Done)
    /\ UNCHANGED <<accounts, sessions, cookie, familyVars>>

-----------------------------------------------------------------------------
(* Sessions and PINs.                                                      *)

WrongPin(r) == failures' = failures + 1 /\ Reads(r, [request[r] EXCEPT !.pc = "recent?"])
RightPin(r) == UNCHANGED failures /\ Reads(r, [request[r] EXCEPT !.pc = "dropSession"])

\* Mutant: any parent's PIN opens a parent's profile.
FindAnyParent(r) ==
    /\ At(r, "findTarget")
    /\ IF request[r].on \notin Existing THEN Reads(r, Done) /\ UNCHANGED failures
       ELSE IF request[r].pin \in ParentPins THEN RightPin(r) ELSE WrongPin(r)
    /\ UNCHANGED <<accountVars, mishap>>

\* A parent answers with the PIN of the row just read.
FindTarget(r) ==
    LET a == request[r].on
    IN /\ At(r, "findTarget")
       /\ IF a \notin Existing THEN Reads(r, Done) /\ UNCHANGED failures
          ELSE IF accounts[a].role = "child"
          THEN Reads(r, [request[r] EXCEPT !.pc = "listHashes"]) /\ UNCHANGED failures
          ELSE IF accounts[a].pin = NoPin THEN Reads(r, Done) /\ UNCHANGED failures
          ELSE IF accounts[a].pin = request[r].pin THEN RightPin(r) ELSE WrongPin(r)
       /\ UNCHANGED <<accountVars, mishap>>

\* For a child's profile any parent may answer.
ListParentPinHashes(r) ==
    /\ At(r, "listHashes")
    /\ IF ParentPins = {} THEN Reads(r, Done) /\ UNCHANGED failures
       ELSE IF request[r].pin \in ParentPins THEN RightPin(r) ELSE WrongPin(r)
    /\ UNCHANGED <<accountVars, mishap>>

DropSession(r) ==
    LET k == request[r].key
        drop == [request[r] EXCEPT !.pc = IF request[r].op = "logout" THEN "answer"
                                          ELSE "createSession"]
    IN /\ At(r, "dropSession")
       /\ IF k = Nobody THEN Reads(r, drop) /\ UNCHANGED sessions
          ELSE Commits(r, drop) /\ sessions' = [sessions EXCEPT ![k] = NoSession]
       /\ UNCHANGED <<accounts, cookie, setUp, familyVars>>

\* The foreign key asks only that the account be there.
CreateSession(r) ==
    LET a == request[r].on
    IN /\ At(r, "createSession")
       /\ IF a \in Existing
          THEN /\ sessions' = [sessions EXCEPT ![r] = [account |-> a, live |-> TRUE]]
               /\ Commits(r, [request[r] EXCEPT !.pc = "answer"])
          ELSE Reads(r, Done) /\ UNCHANGED sessions
       /\ UNCHANGED <<accounts, cookie, setUp, familyVars>>

\* The answer sets the cookie, or clears it.
Answer(r) ==
    /\ At(r, "answer")
    /\ cookie' = [cookie EXCEPT ![request[r].browser] =
                     IF request[r].op = "logout" THEN Nobody ELSE r]
    /\ Reads(r, Done)
    /\ UNCHANGED <<accounts, sessions, setUp, familyVars>>

\* A PIN that is set is changed only by those who know it.
FindSelf(r) ==
    LET a == request[r].me
    IN /\ At(r, "findSelf")
       /\ Reads(r, IF a \notin Existing THEN Done
                   ELSE IF accounts[a].pin \in {NoPin, request[r].saw}
                   THEN [request[r] EXCEPT !.on = a, !.pc = "setPin"]
                   ELSE [request[r] EXCEPT !.pc = "recent?"])
       /\ UNCHANGED <<accountVars, familyVars>>

-----------------------------------------------------------------------------
(* Roles and departures.  The guard of the last parent counts, and acts    *)
(* on what it counted in a statement of its own.                           *)

AfterGuard(op) == CASE op = "updateMember" -> "update"
                    [] op = "deleteMember" -> "purge"
                    [] op = "deleteAccount" -> "delete"

Changing(r) == request[r].op \in RoleOps /\ request[r].pc \in {"count", "update", "purge", "delete"}

FindMember(r) ==
    LET a == request[r].on
        rec == [request[r] EXCEPT !.saw = accounts[a].role]
        loses == accounts[a].role = "parent" /\ request[r].as # "parent"
    IN /\ At(r, "findMember")
       /\ Reads(r, IF a \notin Existing THEN Done
                   ELSE IF loses THEN [rec EXCEPT !.pc = "count"]
                   ELSE [rec EXCEPT !.pc = AfterGuard(request[r].op)])
       /\ mishap' = IF a \in Existing /\ \E q \in Requests \ {r} : Changing(q)
                    THEN mishap \cup {"overlap"} ELSE mishap
       /\ UNCHANGED <<accountVars, failures>>

\* Mutant: one parent is one too few.
CountAnyParent(r) ==
    /\ At(r, "count")
    /\ Reads(r, IF Cardinality(Parents) < 1 THEN Done
                ELSE [request[r] EXCEPT !.pc = AfterGuard(request[r].op)])
    /\ UNCHANGED <<accountVars, familyVars>>

\* parent_count <= 1: the last parent stays one.
CountParents(r) ==
    /\ At(r, "count")
    /\ Reads(r, IF Cardinality(Parents) <= 1 THEN Done
                ELSE [request[r] EXCEPT !.pc = AfterGuard(request[r].op)])
    /\ UNCHANGED <<accountVars, familyVars>>

\* A child that becomes a parent has no PIN yet.
Update(r) ==
    LET a == request[r].on
    IN /\ At(r, "update")
       /\ accounts' = IF a \in Existing THEN [accounts EXCEPT ![a].role = request[r].as] ELSE accounts
       /\ mishap' = IF a \in Existing /\ request[r].as = "parent" /\ accounts[a].pin = NoPin
                    THEN mishap \cup {"bare"} ELSE mishap
       /\ Commits(r, Done)
       /\ UNCHANGED <<sessions, cookie, setUp, failures>>

\* delete_member drops the sessions, before it knows whether the account can go.
Purge(r) ==
    /\ At(r, "purge")
    /\ sessions' = [k \in Keys |-> IF sessions[k].account = request[r].on THEN NoSession
                                   ELSE sessions[k]]
    /\ Commits(r, [request[r] EXCEPT !.pc = "delete"])
    /\ UNCHANGED <<accounts, cookie, setUp, familyVars>>

Delete(r, others) ==
    LET a == request[r].on
    IN /\ At(r, "delete")
       /\ IF a \in Existing /\ ~Referenced(a, others)
          THEN accounts' = [accounts EXCEPT ![a] = Gone] /\ Commits(r, Done)
          ELSE UNCHANGED accounts /\ Reads(r, Done)
       /\ UNCHANGED <<sessions, cookie, setUp, familyVars>>

\* A minute passes.
WindowOver ==
    /\ failures > 0
    /\ failures' = 0
    /\ UNCHANGED <<accountVars, request, mishap>>

FamilyStep(r, others) ==
    \/ InsertFirstAccount(r) \/ InsertLocal(r) \/ SetPinHash(r) \/ HasFirstParent(r) \/ Complete(r)
    \/ FindTarget(r) \/ ListParentPinHashes(r) \/ DropSession(r) \/ CreateSession(r) \/ Answer(r)
    \/ FindSelf(r) \/ FindMember(r) \/ CountParents(r) \/ Update(r) \/ Purge(r) \/ Delete(r, others)

=============================================================================
