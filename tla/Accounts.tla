------------------------------ MODULE Accounts ------------------------------
(***************************************************************************)
(* What every request to the server meets first: the accounts of the       *)
(* household, the sessions of its browsers, and the session middleware     *)
(* (models/account.rs, models/session.rs, middleware/auth.rs,              *)
(* middleware/account_type.rs, middleware/setup_redirect.rs).              *)
(*                                                                         *)
(* A request runs from one database call to the next; between two of its   *)
(* steps any other request may take one.  Each is made once.               *)
(***************************************************************************)
EXTENDS Naturals, FiniteSets

CONSTANTS
    Accounts,   \* ids of accounts, in the order they are given out
    Pins,       \* PINs
    NoPin,      \* pin_hash is NULL
    Unborn,     \* the id has not been given out
    Gone,       \* the account has been deleted
    Nobody,     \* no account, no session
    Requests,   \* the requests that are made
    Browsers    \* those who make them; a browser keeps one cookie

ASSUME AccountsAssumption == Accounts \subseteq Nat
ASSUME NobodyAssumption == Nobody \notin Accounts
ASSUME OpenersAssumption == Requests \cap Browsers = {}
ASSUME PinAssumption == NoPin \notin Pins

Roles == {"parent", "child"}
Rows == [role : Roles, pin : Pins \cup {NoPin}]

ASSUME RowsAssumption == {Unborn, Gone} \cap Rows = {} /\ Unborn # Gone

\* A session is known by the request, or the browser, that opened it.
Keys == Requests \cup Browsers
NoSession == [account |-> Nobody, live |-> FALSE]

VARIABLES
    accounts,   \* the rows of `accounts`
    sessions,   \* the rows of `sessions`; live: not expired
    cookie,     \* the session each browser presents
    setUp,      \* app_config: setup_complete
    request     \* the requests

accountVars == <<accounts, sessions, cookie, setUp>>

Existing == {a \in Accounts : accounts[a] \in Rows}
Parents == {a \in Existing : accounts[a].role = "parent"}
ParentPins == {accounts[a].pin : a \in Parents} \ {NoPin}
IsChildAccount(a) == a \in Existing /\ accounts[a].role = "child"

\* AUTOINCREMENT: the next id, larger than any before.
IsNext(a) == accounts[a] = Unborn /\ \A b \in Accounts : accounts[b] = Unborn => a <= b

\* sessions of an account, expired ones included.
SessionsOf(a) == {k \in Keys : sessions[k].account = a}

\* A request: what it asks for, where it is, what the middleware found out
\* (key, me, role), its arguments (on, as, pin), what it has read (saw, rows,
\* row), what it will answer (shown), and whether its read snapshot has been
\* overtaken by a commit (stale).
New == [op |-> "none", pc |-> "new", browser |-> Nobody, key |-> Nobody, me |-> Nobody,
        role |-> "none", on |-> Nobody, as |-> "none", pin |-> NoPin, saw |-> "none",
        rows |-> {}, row |-> <<>>, shown |-> {}, stale |-> FALSE]
Done == [New EXCEPT !.pc = "done"]

At(r, pc) == request[r].pc = pc

\* The request is at an await of its handler.
Busy(r) == request[r].pc \notin {"new", "done", "answered"}

\* A step that only reads, and one that commits a write: a transaction that
\* has read before the commit can no longer write (SQLITE_BUSY_SNAPSHOT).
Reads(r, next) == request' = [request EXCEPT ![r] = next]
Commits(r, next) ==
    request' = [q \in Requests |->
        IF q = r THEN next
        ELSE IF At(q, "usageWrite") THEN [request[q] EXCEPT !.stale = TRUE]
        ELSE request[q]]

-----------------------------------------------------------------------------
(* The middleware.                                                         *)

\* session_layer: the account behind a live session.
LooksUp(b) ==
    IF cookie[b] # Nobody /\ sessions[cookie[b]].live
    THEN LET a == sessions[cookie[b]].account
         IN [key |-> cookie[b], me |-> a, role |-> accounts[a].role]
    ELSE [key |-> Nobody, me |-> Nobody, role |-> "none"]

\* An expired row is deleted, and a cookie without a session cleared.
Tidies(b) ==
    /\ sessions' = IF cookie[b] = Nobody \/ sessions[cookie[b]].live THEN sessions
                   ELSE [sessions EXCEPT ![cookie[b]] = NoSession]
    /\ cookie' = IF LooksUp(b).me = Nobody THEN [cookie EXCEPT ![b] = Nobody] ELSE cookie

\* The request reaches its handler.  One that require_parent, require_child,
\* the extractor or setup_redirect turns away changes nothing, and is not made.
Begins(r, b, rec, audience) ==
    LET found == LooksUp(b)
    IN /\ At(r, "new")
       /\ audience = "anyone" \/ found.role = audience \/ (audience = "user" /\ found.me # Nobody)
       /\ audience \in Roles => setUp
       /\ Tidies(b)
       /\ Reads(r, [rec EXCEPT !.browser = b, !.key = found.key, !.me = found.me,
                               !.role = found.role])
       /\ UNCHANGED <<accounts, setUp>>

\* Seven days pass.
SessionExpires(k) ==
    /\ sessions[k].live
    /\ sessions' = [sessions EXCEPT ![k].live = FALSE]
    /\ UNCHANGED <<accounts, cookie, setUp>>

\* A statement of the handler fails, or the client is gone: no step follows.
Fails(r) ==
    /\ Busy(r)
    /\ Reads(r, Done)
    /\ UNCHANGED accountVars

\* The last conjunct is the foreign key: deleting an account leaves no session.
AccountsTypeOK ==
    /\ accounts \in [Accounts -> Rows \cup {Unborn, Gone}]
    /\ sessions \in [Keys -> [account : Accounts \cup {Nobody}, live : BOOLEAN]]
    /\ cookie \in [Browsers -> Keys \cup {Nobody}]
    /\ setUp \in BOOLEAN
    /\ DOMAIN request = Requests
    /\ \A k \in Keys : sessions[k].account \in Existing \cup {Nobody}

=============================================================================
