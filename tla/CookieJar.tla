----------------------------- MODULE CookieJar -----------------------------
(***************************************************************************)
(* The yt-dlp cookie jar of services/ytdlp.rs.  It lives twice: in a row   *)
(* of app_config, which the metadata cache's fingerprint hashes, and in    *)
(* the file cookies.txt, which yt-dlp reads and, on a copy, rotates.       *)
(*                                                                         *)
(* replace_cookies changes file and row one after the other, between two   *)
(* advances of a generation counter.  A yt-dlp run derives things from the *)
(* jar (a rotated jar to write back, the verdict that the session is       *)
(* SABR-only) and publishes them only if the generation has not moved.     *)
(*                                                                         *)
(* A jar stands for a login: the rotated rewrite of a jar is that jar.     *)
(***************************************************************************)
EXTENDS Naturals

CONSTANTS
    Jars,       \* the jars a parent may upload
    NoJar,      \* no cookies stored, no cookie file, a logged-out run
    Replacers,  \* concurrent cookie uploads and removals
    Runs,       \* concurrent yt-dlp extractions
    Nobody,     \* the holder of COOKIE_FILE_LOCK when it is free
    Failed,     \* the outcome of an extraction without a result
    MaxGen      \* bound: the generation the counter may reach

ASSUME JarsAssumption == NoJar \notin Jars /\ Failed \notin Jars \cup {NoJar}
ASSUME ActorsAssumption ==
    Replacers \cap Runs = {} /\ Nobody \notin Replacers \cup Runs
ASSUME BoundAssumption == MaxGen \in Nat

VARIABLES
    row,      \* app_config's ytdlp_cookies
    file,     \* cookies.txt
    gen,      \* the cookie generation
    verdict,  \* the jar found SABR-only, or NoJar when there is no verdict
    holder,   \* who holds COOKIE_FILE_LOCK
    change,   \* each replace_cookies call
    run       \* each extraction

jarVars == <<row, file, gen, verdict, holder, change, run>>

Jar == Jars \cup {NoJar}

ChangePC == {"idle", "lock", "write", "commit", "restore", "forget"}
IdleChange == [pc |-> "idle", new |-> NoJar, prev |-> NoJar]

\* A run notes the generation it starts with (since), the generation at the
\* time it stages the jar (staged) and the jar it copied; "bare" is what a
\* logged-out first run came to, and result the login that got the URLs.
RunPC == {"idle", "stage", "copy", "cookieRun", "persist", "rename", "bareRetry",
          "bareFirst", "done"}
IdleRun == [pc |-> "idle", since |-> 0, staged |-> 0, jar |-> NoJar, bare |-> "none",
            usable |-> FALSE, result |-> NoJar]

JarInit ==
    /\ row \in Jar
    /\ file = row
    /\ gen = 0
    /\ verdict = NoJar
    /\ holder = Nobody
    /\ change = [c \in Replacers |-> IdleChange]
    /\ run = [x \in Runs |-> IdleRun]

-----------------------------------------------------------------------------
(* replace_cookies.                                                        *)

ChangeAt(c, label) == change[c].pc = label
ChangeTo(c, label) == change' = [change EXCEPT ![c].pc = label]
EndChange(c) == change' = [change EXCEPT ![c] = IdleChange] /\ holder' = Nobody

\* An upload of a jar, or a removal.
ChangeStart(c, new) ==
    /\ ChangeAt(c, "idle")
    /\ change' = [change EXCEPT ![c] = [IdleChange EXCEPT !.pc = "lock", !.new = new]]
    /\ UNCHANGED <<row, file, gen, verdict, holder, run>>

\* begin_cookie_change and forget_sabr_only_session.
NewGeneration == gen' = gen + 1 /\ verdict' = NoJar

\* The stored jar again: the row stays, a missing file is derived from it.
ChangeNothing(c) ==
    /\ ChangeAt(c, "lock")
    /\ holder = Nobody
    /\ change[c].new = row
    /\ file' = IF file = NoJar THEN row ELSE file
    /\ verdict' = NoJar
    /\ change' = [change EXCEPT ![c] = IdleChange]
    /\ UNCHANGED <<row, gen, holder, run>>

\* The stored jar cannot be read, or the missing file not be written.
ChangeRefused(c) ==
    /\ ChangeAt(c, "lock")
    /\ holder = Nobody
    /\ change' = [change EXCEPT ![c] = IdleChange]
    /\ UNCHANGED <<row, file, gen, verdict, holder, run>>

\* Mutant: COOKIE_FILE_LOCK is not taken.
ChangeBeginUnlocked(c) ==
    /\ ChangeAt(c, "lock")
    /\ change[c].new # row
    /\ gen + 2 <= MaxGen
    /\ NewGeneration
    /\ change' = [change EXCEPT ![c].pc = "write", ![c].prev = row]
    /\ UNCHANGED <<row, file, holder, run>>

\* With the lock held, the previous jar is read and the bracket opened.
ChangeBegin(c) ==
    /\ ChangeAt(c, "lock")
    /\ holder = Nobody
    /\ change[c].new # row
    /\ gen + 2 <= MaxGen
    /\ holder' = c
    /\ NewGeneration
    /\ change' = [change EXCEPT ![c].pc = "write", ![c].prev = row]
    /\ UNCHANGED <<row, file, run>>

\* Mutant: the row first, for the database is the source of truth.
WriteFileAndRow(c) ==
    /\ ChangeAt(c, "write")
    /\ row' = change[c].new
    /\ file' \in {file, change[c].new}
    /\ ChangeTo(c, "forget")
    /\ UNCHANGED <<gen, verdict, holder, run>>

\* The file is written first; if that fails nothing has changed.
WriteFile(c) ==
    /\ ChangeAt(c, "write")
    /\ \/ file' = change[c].new /\ ChangeTo(c, "commit")
       \/ UNCHANGED file /\ ChangeTo(c, "forget")
    /\ UNCHANGED <<row, gen, verdict, holder, run>>

CommitRow(c) ==
    /\ ChangeAt(c, "commit")
    /\ \/ row' = change[c].new /\ ChangeTo(c, "forget")
       \/ UNCHANGED row /\ ChangeTo(c, "restore")
    /\ UNCHANGED <<file, gen, verdict, holder, run>>

RestoreFile(c) ==
    /\ ChangeAt(c, "restore")
    /\ file' = change[c].prev
    /\ ChangeTo(c, "forget")
    /\ UNCHANGED <<row, gen, verdict, holder, run>>

\* Mutant: the bracket is opened but never closed.
ForgetVerdictOnly(c) ==
    /\ ChangeAt(c, "forget")
    /\ verdict' = NoJar
    /\ EndChange(c)
    /\ UNCHANGED <<row, file, gen, run>>

\* The bracket is closed and the lock released.
Forget(c) ==
    /\ ChangeAt(c, "forget")
    /\ NewGeneration
    /\ EndChange(c)
    /\ UNCHANGED <<row, file, run>>

-----------------------------------------------------------------------------
(* extract: up to two runs of yt-dlp.                                      *)

RunAt(x, label) == run[x].pc = label
RunBecomes(x, locals) == run' = [run EXCEPT ![x] = locals]
RunTo(x, label) == RunBecomes(x, [run[x] EXCEPT !.pc = label])
RunEnds(x, result) == RunBecomes(x, [run[x] EXCEPT !.pc = "done", !.result = result])

\* With a verdict on record the cookies are not tried first.
Extract(x) ==
    /\ RunAt(x, "idle")
    /\ RunBecomes(x, [IdleRun EXCEPT !.pc = IF verdict # NoJar THEN "bareFirst" ELSE "stage",
                                     !.since = gen])
    /\ UNCHANGED <<row, file, gen, verdict, holder, change>>

\* append_youtube_args_with: the generation is noted before the jar is copied.
Stage(x) ==
    /\ RunAt(x, "stage")
    /\ RunBecomes(x, [run[x] EXCEPT !.pc = "copy", !.staged = gen])
    /\ UNCHANGED <<row, file, gen, verdict, holder, change>>

\* After a logged-out first run the cookies are tried just this once.
Last(local) == local.bare # "none"
Fallback(local) == IF local.bare = "empty" THEN NoJar ELSE Failed

\* Without a file, or when it cannot be copied, the run is logged out; as a
\* follow-up of a logged-out run it then is not made at all.
CopyJar(x) ==
    /\ RunAt(x, "copy")
    /\ \E jar \in {file, NoJar} :
          \/ /\ jar # NoJar \/ ~Last(run[x])
             /\ RunBecomes(x, [run[x] EXCEPT !.pc = "cookieRun", !.jar = jar])
          \/ /\ jar = NoJar /\ Last(run[x])
             /\ RunEnds(x, Fallback(run[x]))
    /\ UNCHANGED <<row, file, gen, verdict, holder, change>>

\* Where an extraction goes once a cookie run has come back: usable formats,
\* a logged-out run and a follow-up run settle it, else it is retried.  Of
\* two results without usable formats the first is kept.
Settled(local) == local.usable \/ local.jar = NoJar \/ Last(local)
Kept(local) == IF ~local.usable /\ local.bare = "empty" THEN NoJar ELSE local.jar
Settle(local) ==
    IF Settled(local) THEN [local EXCEPT !.pc = "done", !.result = Kept(local)]
    ELSE [local EXCEPT !.pc = "bareRetry"]

\* yt-dlp fails or times out, or comes back with a result and a rewritten
\* jar; a rewrite that dropped a cookie is not written back.
CookieRun(x) ==
    /\ RunAt(x, "cookieRun")
    /\ \/ RunEnds(x, Fallback(run[x]))
       \/ \E usable \in BOOLEAN :
             LET local == [run[x] EXCEPT !.usable = usable]
             IN  \/ run[x].jar # NoJar /\ RunBecomes(x, [local EXCEPT !.pc = "persist"])
                 \/ RunBecomes(x, Settle(local))
    /\ UNCHANGED <<row, file, gen, verdict, holder, change>>

\* Mutant: the jar is written back whatever happened meanwhile.
PersistLockUnchecked(x) ==
    /\ RunAt(x, "persist")
    /\ holder = Nobody
    /\ RunTo(x, "rename") /\ holder' = x
    /\ UNCHANGED <<row, file, gen, verdict, change>>

\* persist_cookies_if_safe: under the lock, and only in the generation the
\* jar was staged in.
PersistLock(x) ==
    /\ RunAt(x, "persist")
    /\ holder = Nobody
    /\ IF gen = run[x].staged THEN RunTo(x, "rename") /\ holder' = x
                              ELSE RunBecomes(x, Settle(run[x])) /\ UNCHANGED holder
    /\ UNCHANGED <<row, file, gen, verdict, change>>

PersistRename(x) ==
    /\ RunAt(x, "rename")
    /\ file' \in {file, run[x].jar}
    /\ holder' = Nobody
    /\ RunBecomes(x, Settle(run[x]))
    /\ UNCHANGED <<row, gen, verdict, change>>

\* Mutant: a verdict is recorded against the jar of the day.
BareRetryUnchecked(x) ==
    /\ RunAt(x, "bareRetry")
    /\ RunEnds(x, NoJar)
    /\ verdict' = run[x].jar
    /\ UNCHANGED <<row, file, gen, holder, change>>

\* The logged-out retry.  If it does better the session is remembered as
\* SABR-only, unless the cookies changed since the extraction began.
BareRetry(x) ==
    /\ RunAt(x, "bareRetry")
    /\ \/ /\ RunEnds(x, NoJar)
          /\ verdict' = IF gen = run[x].since THEN run[x].jar ELSE verdict
       \/ RunEnds(x, run[x].jar) /\ UNCHANGED verdict
    /\ UNCHANGED <<row, file, gen, holder, change>>

\* extract_logged_out_then_cookies: a logged-out run that does not do drops
\* the verdict and tries the cookies once.
BareFirst(x) ==
    /\ RunAt(x, "bareFirst")
    /\ \/ RunEnds(x, NoJar) /\ UNCHANGED verdict
       \/ /\ \E bare \in {"empty", "failed"} :
                 RunBecomes(x, [run[x] EXCEPT !.pc = "stage", !.bare = bare])
          /\ verdict' = NoJar
    /\ UNCHANGED <<row, file, gen, holder, change>>

RunOver(x) ==
    /\ RunAt(x, "done")
    /\ RunBecomes(x, IdleRun)
    /\ UNCHANGED <<row, file, gen, verdict, holder, change>>

-----------------------------------------------------------------------------
\* The verdict's hour is over.
ExpireVerdict ==
    /\ verdict # NoJar
    /\ verdict' = NoJar
    /\ UNCHANGED <<row, file, gen, holder, change, run>>

\* The file goes missing (operator cleanup, volume restore).
LoseFile ==
    /\ file' = NoJar
    /\ UNCHANGED <<row, gen, verdict, holder, change, run>>

ChangeStep(c) ==
    \/ ChangeNothing(c) \/ ChangeRefused(c) \/ ChangeBegin(c) \/ WriteFile(c)
    \/ CommitRow(c) \/ RestoreFile(c) \/ Forget(c)

RunStep(x) ==
    \/ Stage(x) \/ CopyJar(x) \/ CookieRun(x) \/ PersistLock(x) \/ PersistRename(x)
    \/ BareRetry(x) \/ BareFirst(x)

JarNext ==
    \/ \E c \in Replacers : (\E new \in Jar : ChangeStart(c, new)) \/ ChangeStep(c)
    \/ \E x \in Runs : Extract(x) \/ RunStep(x) \/ RunOver(x)
    \/ ExpireVerdict \/ LoseFile

JarSpec == JarInit /\ [][JarNext]_jarVars

-----------------------------------------------------------------------------
(* Faults; not part of JarNext.                                            *)

\* The client of an upload disconnects: the handler is dropped at the await
\* it has reached, and the lock guard with it.  The blocking task that
\* writes the file is not stopped (that it may end later is left out).
ChangeCancelled(c) ==
    /\ \/ ChangeAt(c, "write") /\ file' = change[c].new
       \/ ChangeAt(c, "commit") /\ UNCHANGED file
       \/ ChangeAt(c, "restore") /\ file' = change[c].prev
    /\ EndChange(c)
    /\ UNCHANGED <<row, gen, verdict, run>>

\* The row could not be written, and now the file cannot be put back.
RestoreFails(c) ==
    /\ ChangeAt(c, "restore")
    /\ ChangeTo(c, "forget")
    /\ UNCHANGED <<row, file, gen, verdict, holder, run>>

\* The process stops and starts again: a jar in the row is written to the
\* file, but without one the file is left alone.
Restart ==
    /\ file' \in IF row # NoJar THEN {row} ELSE {file}
    /\ gen' = 0
    /\ verdict' = NoJar
    /\ holder' = Nobody
    /\ change' = [c \in Replacers |-> IdleChange]
    /\ run' = [x \in Runs |-> IdleRun]
    /\ UNCHANGED row

Fault == Restart \/ \E c \in Replacers : RestoreFails(c) \/ ChangeCancelled(c)
FaultySpec == JarInit /\ [][JarNext \/ Fault]_jarVars

-----------------------------------------------------------------------------
ChangeType == [pc: ChangePC, new: Jar, prev: Jar]
RunType == [pc: RunPC, since: Nat, staged: Nat, jar: Jar, bare: {"none", "empty", "failed"},
            usable: BOOLEAN, result: Jar \cup {Failed}]

\* A replacement from its first look at the row on, and the rename of a
\* rotated jar.
Replacing(c) == change[c].pc \in {"write", "commit", "restore", "forget"}
Changing == \E c \in Replacers : Replacing(c)

\* Types, and the lock: whoever is in a section it protects holds it.
JarTypeOK ==
    /\ row \in Jar
    /\ file \in Jar
    /\ gen \in 0 .. MaxGen
    /\ verdict \in Jar
    /\ holder \in Replacers \cup Runs \cup {Nobody}
    /\ change \in [Replacers -> ChangeType]
    /\ run \in [Runs -> RunType]
    /\ \A c \in Replacers : Replacing(c) <=> holder = c
    /\ \A x \in Runs : RunAt(x, "rename") <=> holder = x

\* "The two must agree or the cache can file yt-dlp output under a
\* fingerprint for a different jar": while no replacement is under way, the
\* file holds the jar of the row or is missing, whatever old runs write back.
\* One step may fail; that the restore after it fails too is RestoreFails.
JarsAgree == ~Changing => file \in {row, NoJar}

\* "it will be re-derived from the database at next startup": whatever was
\* left behind, after a restart the two agree.
StartupReconciles == [][Restart => JarsAgree']_jarVars

\* What an extraction learned of a jar is never held against another: a
\* verdict on record is about the stored jar.
VerdictIsCurrent == ~Changing => verdict \in {row, NoJar}

\* The result of an extraction that no cookie change overlapped, which is
\* what the metadata cache files under the row, was got with the row's jar
\* or logged out.
ResultFitsRow ==
    \A x \in Runs :
        RunAt(x, "done") /\ run[x].since = gen /\ ~Changing
            => run[x].result \in {row, NoJar, Failed}
=============================================================================
