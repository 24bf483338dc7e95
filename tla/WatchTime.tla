----------------------------- MODULE WatchTime ------------------------------
(***************************************************************************)
(* Heartbeats and positions from the player (routes/usage.rs): the watch   *)
(* history and the screen time of the child.                               *)
(***************************************************************************)
EXTENDS ChildRules, Sequences

CONSTANTS
    Elapsed,   \* seconds between heartbeats, after the clamp
    MaxUsage   \* rows of usage_log, bounded for the model

ASSUME ElapsedAssumption == Elapsed \subseteq Nat \ {0} /\ MaxUsage \in Nat

VARIABLES
    usage,  \* usage_log: [video, seconds]
    acked   \* history: the seconds acknowledged, by video

watchVars == <<usage, acked>>

\* heartbeat and progress; on is the video, as says whether the player tells
\* its channel and how far it is, pin holds the seconds elapsed.
BeginWatch(r, b, op, v, told, state, elapsed) ==
    /\ op \in {"heartbeat", "progress"}
    /\ Begins(r, b, [New EXCEPT !.op = op, !.on = v, !.as = told, !.saw = state, !.pin = elapsed,
                                !.pc = "watch history"], "child")
    /\ request'[r].me = Kid
    /\ UNCHANGED <<ruleVars, watchVars>>

\* One transaction: the video's row, then its place in the history.
UpsertWatchHistory(r) ==
    LET v == request[r].on
    IN /\ At(r, "watch history")
       /\ IF Kid \in Existing
          THEN /\ channelOf' = Seed(v, TellsChannel(r))
               /\ watched' = [watched EXCEPT ![v] = request[r].saw]
               /\ Commits(r, IF request[r].op = "heartbeat" THEN [request[r] EXCEPT !.pc = "usage"]
                             ELSE Done)
          ELSE Reads(r, Done) /\ UNCHANGED <<channelOf, watched>>
       /\ UNCHANGED <<accountVars, parentRules, ownRules, downloads, searched, watchVars>>

\* The last row, if it is of this video and recent enough, is to be extended.
ReadUsage(r) ==
    LET n == Len(usage)
        next(i, seconds) == [request[r] EXCEPT !.saw = i, !.row = <<seconds>>, !.pc = "usageWrite",
                                               !.stale = FALSE]
    IN /\ At(r, "usage")
       /\ \/ Reads(r, next(0, 0))
          \/ n > 0 /\ usage[n].video = request[r].on /\ Reads(r, next(n, usage[n].seconds))
       /\ UNCHANGED <<accountVars, ruleVars, watchVars>>

Writes(r) ==
    LET rec == request[r]
        seconds == rec.row[1] + rec.pin
    IN /\ usage' = IF rec.saw = 0 THEN Append(usage, [video |-> rec.on, seconds |-> seconds])
                   ELSE [usage EXCEPT ![rec.saw].seconds = seconds]
       /\ acked' = [acked EXCEPT ![rec.on] = @ + rec.pin]
       /\ Commits(r, Done)

\* Mutant: what was read is written whatever has been committed since.
WriteBlindly(r) ==
    /\ At(r, "usageWrite")
    /\ Len(usage) < MaxUsage
    /\ Writes(r)
    /\ UNCHANGED <<accountVars, ruleVars>>

\* A deferred transaction whose snapshot has been overtaken cannot write: the
\* heartbeat fails, and its seconds are lost.  (The child has a watch history,
\* and cannot have been deleted.)
WriteUsage(r) ==
    /\ At(r, "usageWrite")
    /\ Len(usage) < MaxUsage
    /\ IF request[r].stale
       THEN Reads(r, Done) /\ UNCHANGED watchVars
       ELSE Writes(r)
    /\ UNCHANGED <<accountVars, ruleVars>>

WatchStep(r) == UpsertWatchHistory(r) \/ ReadUsage(r) \/ WriteUsage(r)

=============================================================================
