-------------------------- MODULE CookieJarProofs --------------------------
(***************************************************************************)
(* Proofs about CookieJar, for any sets of jars, uploads and runs.         *)
(*                                                                         *)
(* JarsAgree is not inductive.  What carries it is the bracket: whatever   *)
(* a run knows of the jar it knows as of a generation, and no replacement  *)
(* that touches file or row lets the generation stand still.               *)
(***************************************************************************)
EXTENDS CookieJar, TLAPS

\* Where a replacement stands between file and row.
PhaseOK(c) ==
    /\ change[c].pc \in {"write", "commit", "restore"} => change[c].prev = row
    /\ change[c].pc \in {"write", "forget"} => file \in {row, NoJar}
    /\ change[c].pc = "commit" => file \in {change[c].new, NoJar}
    /\ Replacing(c) => gen < MaxGen

\* What a run with these locals knows.
HoldsJar(local) == local.pc \in {"cookieRun", "persist", "rename", "bareRetry"}
Knows(local) ==
    /\ local.since <= gen /\ local.staged <= gen
    /\ HoldsJar(local) \/ local.pc = "copy" => local.since <= local.staged
    /\ HoldsJar(local) /\ local.staged = gen /\ ~Changing => local.jar \in {row, NoJar}
    /\ local.pc = "rename" => local.staged = gen
    /\ local.pc = "done" /\ local.since = gen /\ ~Changing
         => local.result \in {row, NoJar, Failed}

JarInv ==
    /\ JarTypeOK
    /\ \A c \in Replacers : PhaseOK(c)
    /\ \A x \in Runs : Knows(run[x])
    /\ JarsAgree
    /\ VerdictIsCurrent

-----------------------------------------------------------------------------
(* The lock.                                                               *)

\* While somebody else holds the lock, or nobody, no replacement is under way.
LEMMA HeldByOther ==
  ASSUME JarInv, holder \notin Replacers
  PROVE  ~Changing
  BY DEF JarInv, JarTypeOK, Changing

LEMMA FreeLock ==
  ASSUME JarInv, holder = Nobody
  PROVE  ~Changing /\ \A x \in Runs : run[x].pc # "rename"
  BY ActorsAssumption, HeldByOther DEF JarInv, JarTypeOK, RunAt

-----------------------------------------------------------------------------
(* Steps of a run.                                                         *)

\* A step of one run that leaves the jar, the lock and the replacements
\* alone, and ends in locals that know nothing wrong.
LEMMA RunKeepsInv ==
  ASSUME JarInv, NEW x \in Runs, NEW local \in RunType,
         RunBecomes(x, local), Knows(local),
         run[x].pc # "rename", local.pc # "rename",
         UNCHANGED <<row, file, gen, holder, change>>,
         verdict' \in Jar, ~Changing => verdict' \in {row, NoJar}
  PROVE  JarInv'
  <1>1. run' = [run EXCEPT ![x] = local] /\ run \in [Runs -> RunType]
    BY DEF RunBecomes, JarInv, JarTypeOK
  <1>2. run'[x] = local /\ \A y \in Runs \ {x} : run'[y] = run[y]
    BY <1>1
  <1>3. Changing' = Changing /\ \A c \in Replacers : Replacing(c)' = Replacing(c)
    BY DEF Changing, Replacing
  <1>4. \A y \in Runs : Knows(run[y])'
    <2> TAKE y \in Runs
    <2>1. CASE y = x
      BY <2>1, <1>2, <1>3 DEF Knows, HoldsJar
    <2>2. CASE y # x
      <3>1. Knows(run[y])
        BY DEF JarInv
      <3> QED
        BY <2>2, <3>1, <1>2, <1>3 DEF Knows, HoldsJar
    <2> QED
      BY <2>1, <2>2
  <1>5. JarTypeOK'
    <2>1. run' \in [Runs -> RunType]
      BY <1>1
    <2>2. \A y \in Runs : RunAt(y, "rename")' <=> holder' = y
      <3> TAKE y \in Runs
      <3>1. RunAt(y, "rename") <=> holder = y
        BY DEF JarInv, JarTypeOK
      <3> QED
        BY <3>1, <1>2 DEF RunAt
    <2> QED
      BY <2>1, <2>2, <1>3 DEF JarInv, JarTypeOK
  <1>6. \A c \in Replacers : PhaseOK(c)'
    BY <1>3 DEF JarInv, PhaseOK
  <1>7. JarsAgree' /\ VerdictIsCurrent'
    BY <1>3 DEF JarInv, JarsAgree, VerdictIsCurrent
  <1> QED
    BY <1>4, <1>5, <1>6, <1>7 DEF JarInv

\* Settling keeps what a run knows: with the result goes the jar it used, or none.
LEMMA SettleKnows ==
  ASSUME NEW local \in RunType, Knows(local), HoldsJar(local),
         gen \in Nat
  PROVE  Settle(local) \in RunType /\ Knows(Settle(local)) /\ Settle(local).pc # "rename"
  <1>1. CASE Settled(local)
    <2> DEFINE settled == [local EXCEPT !.pc = "done", !.result = Kept(local)]
    <2>0. Kept(local) \in {local.jar, NoJar} /\ Kept(local) \in Jar
      BY DEF Kept, RunType, Jar
    <2>1. settled \in RunType
      BY <2>0 DEF RunType, RunPC
    <2>2. /\ settled.pc = "done" /\ settled.result = Kept(local)
          /\ settled.since = local.since /\ settled.staged = local.staged
      BY DEF RunType
    <2>3. local.since \in Nat /\ local.staged \in Nat
      BY DEF RunType
    <2>4. local.since = gen => local.staged = gen
      BY <2>3 DEF Knows
    <2>5. Knows(settled)
      BY <2>0, <2>2, <2>4 DEF Knows, HoldsJar
    <2>6. Settle(local) = settled
      BY <1>1 DEF Settle
    <2> QED
      BY <2>1, <2>2, <2>5, <2>6
  <1>2. CASE ~Settled(local)
    <2> DEFINE retried == [local EXCEPT !.pc = "bareRetry"]
    <2>1. retried \in RunType
      BY DEF RunType, RunPC
    <2>2. /\ retried.pc = "bareRetry" /\ retried.jar = local.jar
          /\ retried.since = local.since /\ retried.staged = local.staged
      BY DEF RunType
    <2>3. Knows(retried)
      BY <2>2 DEF Knows, HoldsJar
    <2>4. Settle(local) = retried
      BY <1>2 DEF Settle
    <2> QED
      BY <2>1, <2>2, <2>3, <2>4
  <1> QED
    BY <1>1, <1>2

\* A run that ends knows nothing wrong if its result is right.
LEMMA EndKnows ==
  ASSUME NEW local \in RunType, Knows(local),
         NEW result \in Jar \cup {Failed},
         local.since = gen /\ ~Changing => result \in {row, NoJar, Failed}
  PROVE  /\ [local EXCEPT !.pc = "done", !.result = result] \in RunType
         /\ Knows([local EXCEPT !.pc = "done", !.result = result])
         /\ [local EXCEPT !.pc = "done", !.result = result].pc # "rename"
  <1> DEFINE over == [local EXCEPT !.pc = "done", !.result = result]
  <1>1. over \in RunType
    BY DEF RunType, RunPC
  <1>2. /\ over.pc = "done" /\ over.result = result
        /\ over.since = local.since /\ over.staged = local.staged
    BY DEF RunType
  <1>3. Knows(over)
    BY <1>2 DEF Knows, HoldsJar
  <1> QED
    BY <1>1, <1>2, <1>3

\* What the invariant says of a run and of the verdict.
LEMMA RunFacts ==
  ASSUME JarInv, NEW x \in Runs
  PROVE  /\ run[x] \in RunType /\ Knows(run[x]) /\ gen \in Nat
         /\ run[x].since \in Nat /\ run[x].staged \in Nat /\ run[x].jar \in Jar
         /\ verdict \in Jar /\ (~Changing => verdict \in {row, NoJar})
         /\ file \in Jar /\ (~Changing => file \in {row, NoJar})
  BY DEF JarInv, JarTypeOK, RunType, VerdictIsCurrent, JarsAgree, Jar

LEMMA ExtractKeepsInv ==
  ASSUME JarInv, NEW x \in Runs, Extract(x)
  PROVE  JarInv'
  <1> DEFINE label == IF verdict # NoJar THEN "bareFirst" ELSE "stage"
             local == [IdleRun EXCEPT !.pc = label, !.since = gen]
  <1>1. label \in {"bareFirst", "stage"}
    OBVIOUS
  <1>2. local \in RunType /\ local.pc = label /\ local.since = gen /\ local.staged = 0
    BY <1>1, RunFacts DEF IdleRun, RunType, RunPC, Jar
  <1>3. Knows(local)
    BY <1>1, <1>2, RunFacts DEF Knows, HoldsJar
  <1>4. RunBecomes(x, local) /\ run[x].pc # "rename"
    BY DEF Extract, RunAt
  <1> HIDE DEF local
  <1> QED
    BY <1>1, <1>2, <1>3, <1>4, RunFacts, RunKeepsInv DEF Extract

LEMMA StageKeepsInv ==
  ASSUME JarInv, NEW x \in Runs, Stage(x)
  PROVE  JarInv'
  <1> DEFINE local == [run[x] EXCEPT !.pc = "copy", !.staged = gen]
  <1>1. /\ local \in RunType /\ local.pc = "copy"
        /\ local.since = run[x].since /\ local.staged = gen
    BY RunFacts DEF RunType, RunPC
  <1>2. Knows(local)
    BY <1>1, RunFacts DEF Knows, HoldsJar
  <1>3. RunBecomes(x, local) /\ run[x].pc # "rename"
    BY DEF Stage, RunAt
  <1> HIDE DEF local
  <1> QED
    BY <1>1, <1>2, <1>3, RunFacts, RunKeepsInv DEF Stage

\* The jar is copied in the generation noted, or the generation has moved.
LEMMA CopyJarKeepsInv ==
  ASSUME JarInv, NEW x \in Runs, CopyJar(x)
  PROVE  JarInv'
  <1>1. run[x].pc = "copy" /\ UNCHANGED <<row, file, gen, verdict, holder, change>>
    BY DEF CopyJar, RunAt
  <1>2. PICK jar \in {file, NoJar} :
          \/ RunBecomes(x, [run[x] EXCEPT !.pc = "cookieRun", !.jar = jar])
          \/ \E result \in {NoJar, Failed} : RunEnds(x, result)
    BY DEF CopyJar, Fallback
  <1>3. CASE RunBecomes(x, [run[x] EXCEPT !.pc = "cookieRun", !.jar = jar])
    <2> DEFINE local == [run[x] EXCEPT !.pc = "cookieRun", !.jar = jar]
    <2>1. /\ local \in RunType /\ local.pc = "cookieRun" /\ local.jar = jar
          /\ local.since = run[x].since /\ local.staged = run[x].staged
      BY RunFacts DEF RunType, RunPC, Jar
    <2>2. Knows(local)
      BY <1>1, <1>2, <2>1, RunFacts DEF Knows, HoldsJar
    <2>3. RunBecomes(x, local)
      BY <1>3
    <2> HIDE DEF local
    <2> QED
      BY <1>1, <2>1, <2>2, <2>3, RunFacts, RunKeepsInv
  <1>4. ASSUME NEW result \in {NoJar, Failed}, RunEnds(x, result)
        PROVE  JarInv'
    <2> DEFINE local == [run[x] EXCEPT !.pc = "done", !.result = result]
    <2>1. local \in RunType /\ Knows(local) /\ local.pc # "rename"
      BY RunFacts, EndKnows DEF Jar
    <2>2. RunBecomes(x, local)
      BY <1>4 DEF RunEnds
    <2> HIDE DEF local
    <2> QED
      BY <1>1, <2>1, <2>2, RunFacts, RunKeepsInv
  <1> QED
    BY <1>2, <1>3, <1>4

LEMMA CookieRunKeepsInv ==
  ASSUME JarInv, NEW x \in Runs, CookieRun(x)
  PROVE  JarInv'
  <1>1. run[x].pc = "cookieRun" /\ UNCHANGED <<row, file, gen, verdict, holder, change>>
    BY DEF CookieRun, RunAt
  <1>2. CASE RunEnds(x, Fallback(run[x]))
    <2> DEFINE local == [run[x] EXCEPT !.pc = "done", !.result = Fallback(run[x])]
    <2>0. Fallback(run[x]) \in {NoJar, Failed}
      BY DEF Fallback
    <2>1. local \in RunType /\ Knows(local) /\ local.pc # "rename"
      BY <2>0, RunFacts, EndKnows DEF Jar
    <2>2. RunBecomes(x, local)
      BY <1>2 DEF RunEnds
    <2> HIDE DEF local
    <2> QED
      BY <1>1, <2>1, <2>2, RunFacts, RunKeepsInv
  <1>3. ASSUME NEW usable \in BOOLEAN,
               \/ RunBecomes(x, [[run[x] EXCEPT !.usable = usable] EXCEPT !.pc = "persist"])
               \/ RunBecomes(x, Settle([run[x] EXCEPT !.usable = usable]))
        PROVE  JarInv'
    <2> DEFINE local == [run[x] EXCEPT !.usable = usable]
               next  == [local EXCEPT !.pc = "persist"]
    <2>1. /\ local \in RunType /\ local.pc = "cookieRun" /\ local.jar = run[x].jar
          /\ local.since = run[x].since /\ local.staged = run[x].staged
      BY <1>1, RunFacts DEF RunType
    <2>2. Knows(local) /\ HoldsJar(local)
      BY <1>1, <2>1, RunFacts DEF Knows, HoldsJar
    <2>3. Settle(local) \in RunType /\ Knows(Settle(local)) /\ Settle(local).pc # "rename"
      BY <2>1, <2>2, RunFacts, SettleKnows
    <2>4. /\ next \in RunType /\ next.pc = "persist" /\ next.jar = run[x].jar
          /\ next.since = run[x].since /\ next.staged = run[x].staged
      BY RunFacts DEF RunType, RunPC
    <2>5. Knows(next)
      BY <1>1, <2>4, RunFacts DEF Knows, HoldsJar
    <2>6. RunBecomes(x, next) \/ RunBecomes(x, Settle(local))
      BY <1>3
    <2> HIDE DEF next, local
    <2> QED
      BY <1>1, <2>3, <2>4, <2>5, <2>6, RunFacts, RunKeepsInv
  <1> QED
    BY <1>2, <1>3 DEF CookieRun

LEMMA BareRetryKeepsInv ==
  ASSUME JarInv, NEW x \in Runs, BareRetry(x)
  PROVE  JarInv'
  <1>1. run[x].pc = "bareRetry" /\ UNCHANGED <<row, file, gen, holder, change>>
    BY DEF BareRetry, RunAt
  <1>2. run[x].since = gen /\ ~Changing => run[x].jar \in {row, NoJar}
    BY <1>1, RunFacts DEF Knows, HoldsJar
  <1>3. PICK result \in {NoJar, run[x].jar} : RunEnds(x, result)
    BY DEF BareRetry
  <1>4. verdict' \in {verdict, run[x].jar}
        /\ (verdict' # verdict => run[x].since = gen /\ verdict' = run[x].jar)
    BY DEF BareRetry
  <1> DEFINE local == [run[x] EXCEPT !.pc = "done", !.result = result]
  <1>5. local \in RunType /\ Knows(local) /\ local.pc # "rename"
    BY <1>2, <1>3, RunFacts, EndKnows DEF Jar
  <1>6. RunBecomes(x, local)
    BY <1>3 DEF RunEnds
  <1>7. verdict' \in Jar /\ (~Changing => verdict' \in {row, NoJar})
    BY <1>2, <1>4, RunFacts
  <1> HIDE DEF local
  <1> QED
    BY <1>1, <1>5, <1>6, <1>7, RunKeepsInv

LEMMA BareFirstKeepsInv ==
  ASSUME JarInv, NEW x \in Runs, BareFirst(x)
  PROVE  JarInv'
  <1>1. run[x].pc = "bareFirst" /\ UNCHANGED <<row, file, gen, holder, change>>
    BY DEF BareFirst, RunAt
  <1>2. verdict' \in {verdict, NoJar} /\ NoJar \in Jar
    BY DEF BareFirst, Jar
  <1>3. CASE RunEnds(x, NoJar)
    <2> DEFINE local == [run[x] EXCEPT !.pc = "done", !.result = NoJar]
    <2>1. local \in RunType /\ Knows(local) /\ local.pc # "rename"
      BY <1>2, RunFacts, EndKnows
    <2>2. RunBecomes(x, local)
      BY <1>3 DEF RunEnds
    <2> HIDE DEF local
    <2> QED
      BY <1>1, <1>2, <2>1, <2>2, RunFacts, RunKeepsInv
  <1>4. ASSUME NEW bare \in {"empty", "failed"},
               RunBecomes(x, [run[x] EXCEPT !.pc = "stage", !.bare = bare])
        PROVE  JarInv'
    <2> DEFINE local == [run[x] EXCEPT !.pc = "stage", !.bare = bare]
    <2>1. /\ local \in RunType /\ local.pc = "stage"
          /\ local.since = run[x].since /\ local.staged = run[x].staged
      BY RunFacts DEF RunType, RunPC
    <2>2. Knows(local)
      BY <2>1, RunFacts DEF Knows, HoldsJar
    <2>3. RunBecomes(x, local)
      BY <1>4
    <2> HIDE DEF local
    <2> QED
      BY <1>1, <1>2, <2>1, <2>2, <2>3, RunFacts, RunKeepsInv
  <1> QED
    BY <1>3, <1>4 DEF BareFirst

LEMMA RunOverKeepsInv ==
  ASSUME JarInv, NEW x \in Runs, RunOver(x)
  PROVE  JarInv'
  <1>1. IdleRun \in RunType /\ IdleRun.pc = "idle" /\ IdleRun.since = 0 /\ IdleRun.staged = 0
    BY DEF IdleRun, RunType, RunPC, Jar
  <1>2. Knows(IdleRun)
    BY <1>1, RunFacts DEF Knows, HoldsJar
  <1> QED
    BY <1>1, <1>2, RunFacts, RunKeepsInv DEF RunOver, RunAt

\* The lock is taken by a run only in the generation its jar was staged in.
LEMMA PersistLockKeepsInv ==
  ASSUME JarInv, NEW x \in Runs, PersistLock(x)
  PROVE  JarInv'
  <1>1. /\ run[x].pc = "persist" /\ holder = Nobody
        /\ UNCHANGED <<row, file, gen, verdict, change>>
    BY DEF PersistLock, RunAt
  <1>2. CASE gen # run[x].staged
    <2>1. HoldsJar(run[x])
      BY <1>1 DEF HoldsJar
    <2>2. /\ Settle(run[x]) \in RunType /\ Knows(Settle(run[x]))
          /\ Settle(run[x]).pc # "rename"
      BY <2>1, RunFacts, SettleKnows
    <2>3. RunBecomes(x, Settle(run[x])) /\ UNCHANGED holder
      BY <1>2 DEF PersistLock
    <2> QED
      BY <1>1, <2>2, <2>3, RunFacts, RunKeepsInv
  <1>3. CASE gen = run[x].staged
    <2> DEFINE local == [run[x] EXCEPT !.pc = "rename"]
    <2>1. holder' = x /\ run' = [run EXCEPT ![x] = local]
      BY <1>3 DEF PersistLock, RunTo, RunBecomes
    <2>2. /\ local \in RunType /\ local.pc = "rename" /\ local.jar = run[x].jar
          /\ local.since = run[x].since /\ local.staged = run[x].staged
      BY RunFacts DEF RunType, RunPC
    <2> HIDE DEF local
    <2>3. run \in [Runs -> RunType]
      BY DEF JarInv, JarTypeOK
    <2>4. run'[x] = local /\ \A y \in Runs \ {x} : run'[y] = run[y]
      BY <2>1, <2>3
    <2>5. ~Changing /\ Changing' = Changing
      BY <1>1, FreeLock DEF Changing, Replacing
    <2>6. \A y \in Runs : Knows(run[y])'
      <3> TAKE y \in Runs
      <3>1. Knows(run[y])
        BY RunFacts
      <3>2. CASE y = x
        BY <1>1, <1>3, <2>2, <2>4, <2>5, <3>1, <3>2 DEF Knows, HoldsJar
      <3>3. CASE y # x
        BY <1>1, <2>4, <2>5, <3>1, <3>3 DEF Knows, HoldsJar
      <3> QED
        BY <3>2, <3>3
    <2>7. JarTypeOK'
      <3>1. run' \in [Runs -> RunType]
        BY <2>1, <2>2, <2>3
      <3>2. \A y \in Runs : RunAt(y, "rename")' <=> holder' = y
        BY <1>1, <2>1, <2>2, <2>4, FreeLock DEF RunAt
      <3>3. \A c \in Replacers : Replacing(c)' <=> holder' = c
        BY <1>1, <2>1, <2>5, ActorsAssumption DEF Changing, Replacing
      <3> QED
        BY <1>1, <2>1, <3>1, <3>2, <3>3 DEF JarInv, JarTypeOK
    <2>8. \A c \in Replacers : PhaseOK(c)'
      BY <1>1 DEF JarInv, PhaseOK, Replacing
    <2>9. JarsAgree' /\ VerdictIsCurrent'
      BY <1>1, <2>5, RunFacts DEF JarsAgree, VerdictIsCurrent
    <2> QED
      BY <2>6, <2>7, <2>8, <2>9 DEF JarInv
  <1> QED
    BY <1>2, <1>3

\* What is written back is the stored jar, rotated.
LEMMA PersistRenameKeepsInv ==
  ASSUME JarInv, NEW x \in Runs, PersistRename(x)
  PROVE  JarInv'
  <1>1. /\ run[x].pc = "rename" /\ holder' = Nobody /\ file' \in {file, run[x].jar}
        /\ UNCHANGED <<row, gen, verdict, change>>
        /\ run' = [run EXCEPT ![x] = Settle(run[x])]
    BY DEF PersistRename, RunAt, RunBecomes
  <1>2. holder = x
    BY <1>1 DEF JarInv, JarTypeOK, RunAt
  <1>3. ~Changing /\ Changing' = Changing
    BY <1>1, <1>2, HeldByOther, ActorsAssumption DEF Changing, Replacing
  <1>4. run[x].jar \in {row, NoJar}
    BY <1>1, <1>3, RunFacts DEF Knows, HoldsJar
  <1>5. HoldsJar(run[x])
    BY <1>1 DEF HoldsJar
  <1>6. /\ Settle(run[x]) \in RunType /\ Knows(Settle(run[x]))
        /\ Settle(run[x]).pc # "rename"
    BY <1>5, RunFacts, SettleKnows
  <1>7. run \in [Runs -> RunType]
    BY DEF JarInv, JarTypeOK
  <1>8. run'[x] = Settle(run[x]) /\ \A y \in Runs \ {x} : run'[y] = run[y]
    BY <1>1, <1>7
  <1>9. \A y \in Runs : Knows(run[y])'
    <2> TAKE y \in Runs
    <2>1. CASE y = x
      BY <1>1, <1>3, <1>6, <1>8, <2>1 DEF Knows, HoldsJar
    <2>2. CASE y # x
      BY <1>1, <1>3, <1>8, <2>2, RunFacts DEF Knows, HoldsJar
    <2> QED
      BY <2>1, <2>2
  <1>10. JarTypeOK'
    <2>1. run' \in [Runs -> RunType] /\ file' \in Jar
      BY <1>1, <1>6, <1>7, RunFacts
    <2>2. \A y \in Runs : RunAt(y, "rename")' <=> holder' = y
      <3> TAKE y \in Runs
      <3>1. RunAt(y, "rename") <=> holder = y
        BY DEF JarInv, JarTypeOK
      <3>2. holder' # y
        BY <1>1, ActorsAssumption
      <3>3. run'[y].pc # "rename"
        BY <1>2, <1>6, <1>8, <3>1 DEF RunAt
      <3> QED
        BY <3>2, <3>3 DEF RunAt
    <2>3. \A c \in Replacers : Replacing(c)' <=> holder' = c
      BY <1>1, <1>3, ActorsAssumption DEF Changing, Replacing
    <2> QED
      BY <1>1, <2>1, <2>2, <2>3 DEF JarInv, JarTypeOK
  <1>11. \A c \in Replacers : PhaseOK(c)'
    BY <1>1, <1>3 DEF JarInv, PhaseOK, Changing, Replacing
  <1>12. JarsAgree' /\ VerdictIsCurrent'
    BY <1>1, <1>3, <1>4, RunFacts DEF JarsAgree, VerdictIsCurrent
  <1> QED
    BY <1>9, <1>10, <1>11, <1>12 DEF JarInv

-----------------------------------------------------------------------------
(* Steps of a replacement.                                                 *)

\* Runs know nothing wrong as long as the generation moves, a replacement is
\* under way, or the row stays.
LEMMA RunsStillKnow ==
  ASSUME JarInv, UNCHANGED run, gen' \in Nat, gen' >= gen,
         gen' # gen => holder \notin Runs,
         gen' # gen \/ Changing' \/ (row' = row /\ ~Changing)
  PROVE  \A x \in Runs : Knows(run[x])'
  <1> TAKE x \in Runs
  <1>1. Knows(run[x]) /\ gen \in Nat /\ run[x].since \in Nat /\ run[x].staged \in Nat
    BY RunFacts
  <1>2. CASE gen' # gen
    <2>1. run[x].pc # "rename"
      BY <1>2 DEF JarInv, JarTypeOK, RunAt
    <2>2. /\ run[x].since <= gen' /\ run[x].staged <= gen'
          /\ run[x].since # gen' /\ run[x].staged # gen'
      BY <1>1, <1>2 DEF Knows
    <2>3. HoldsJar(run[x]) \/ run[x].pc = "copy" => run[x].since <= run[x].staged
      BY <1>1 DEF Knows
    <2> QED
      BY <2>1, <2>2, <2>3 DEF Knows, HoldsJar
  <1>3. CASE gen' = gen
    BY <1>1, <1>3 DEF Knows, HoldsJar
  <1> QED
    BY <1>2, <1>3

\* The step of one replacement, from locals to locals, keeps the types and
\* the other replacements where the lock is respected.
LEMMA ChangeKeepsTypes ==
  ASSUME JarInv, NEW c \in Replacers, NEW local \in ChangeType,
         change' = [change EXCEPT ![c] = local], UNCHANGED run,
         holder \in {c, Nobody},
         holder' = IF local.pc \in {"write", "commit", "restore", "forget"} THEN c ELSE Nobody,
         row' \in Jar, file' \in Jar, verdict' \in Jar, gen' \in 0 .. MaxGen
  PROVE  /\ JarTypeOK'
         /\ change'[c] = local
         /\ \A d \in Replacers \ {c} : PhaseOK(d)'
         /\ Changing' <=> local.pc \in {"write", "commit", "restore", "forget"}
         /\ Changing <=> Replacing(c)
  <1>1. change \in [Replacers -> ChangeType]
    BY DEF JarInv, JarTypeOK
  <1>2. change'[c] = local /\ \A d \in Replacers \ {c} : change'[d] = change[d]
    BY <1>1
  <1>3. \A d \in Replacers \ {c} : ~Replacing(d) /\ ~Replacing(d)'
    <2> TAKE d \in Replacers \ {c}
    <2>1. ~Replacing(d)
      BY ActorsAssumption DEF JarInv, JarTypeOK
    <2> QED
      BY <1>2, <2>1 DEF Replacing
  <1>4. \A d \in Replacers \ {c} : PhaseOK(d)'
    BY <1>3 DEF PhaseOK, Replacing
  <1>5. /\ Changing' <=> local.pc \in {"write", "commit", "restore", "forget"}
        /\ Changing <=> Replacing(c)
    BY <1>2, <1>3 DEF Changing, Replacing
  <1>6. JarTypeOK'
    <2>1. change' \in [Replacers -> ChangeType] /\ run' \in [Runs -> RunType]
      BY <1>1 DEF JarInv, JarTypeOK
    <2>2. \A d \in Replacers : Replacing(d)' <=> holder' = d
      <3> TAKE d \in Replacers
      <3>1. CASE d = c
        BY <3>1, <1>2, ActorsAssumption DEF Replacing
      <3>2. CASE d # c
        BY <3>2, <1>3, ActorsAssumption
      <3> QED
        BY <3>1, <3>2
    <2>3. \A x \in Runs : RunAt(x, "rename")' <=> holder' = x
      <3> TAKE x \in Runs
      <3>1. holder # x /\ holder' # x
        BY ActorsAssumption
      <3> QED
        BY <3>1 DEF JarInv, JarTypeOK, RunAt
    <2> QED
      BY <2>1, <2>2, <2>3 DEF JarTypeOK
  <1> QED
    BY <1>2, <1>4, <1>5, <1>6

\* What the invariant says of a replacement.
LEMMA ChangeFacts ==
  ASSUME JarInv, NEW c \in Replacers
  PROVE  /\ change[c] \in ChangeType /\ change \in [Replacers -> ChangeType]
         /\ change[c].new \in Jar /\ change[c].prev \in Jar /\ PhaseOK(c)
         /\ row \in Jar /\ file \in Jar /\ verdict \in Jar /\ NoJar \in Jar
         /\ gen \in 0 .. MaxGen /\ gen \in Nat /\ MaxGen \in Nat
         /\ Replacing(c) <=> holder = c
  BY BoundAssumption DEF JarInv, JarTypeOK, ChangeType, Jar

LEMMA ChangeStartKeepsInv ==
  ASSUME JarInv, NEW c \in Replacers, NEW new \in Jar, ChangeStart(c, new)
  PROVE  JarInv'
  <1> DEFINE local == [IdleChange EXCEPT !.pc = "lock", !.new = new]
  <1>1. local \in ChangeType /\ local.pc = "lock"
    BY DEF IdleChange, ChangeType, ChangePC, Jar
  <1>2. /\ change' = [change EXCEPT ![c] = local] /\ change[c].pc = "idle"
        /\ UNCHANGED <<row, file, gen, verdict, holder, run>>
    BY DEF ChangeStart, ChangeAt
  <1> HIDE DEF local
  <1>3. change'[c] = local /\ \A d \in Replacers \ {c} : change'[d] = change[d]
    BY <1>2, ChangeFacts
  <1>4. \A d \in Replacers : Replacing(d)' = Replacing(d) /\ (Replacing(d) => d # c)
    BY <1>1, <1>2, <1>3 DEF Replacing
  <1>5. Changing' = Changing
    BY <1>4 DEF Changing
  <1>6. \A d \in Replacers : PhaseOK(d)'
    <2> TAKE d \in Replacers
    <2>1. CASE d = c
      BY <2>1, <1>1, <1>3 DEF PhaseOK, Replacing
    <2>2. CASE d # c
      BY <2>2, <1>2, <1>3, ChangeFacts DEF PhaseOK, Replacing
    <2> QED
      BY <2>1, <2>2
  <1>7. JarTypeOK'
    <2>1. change' \in [Replacers -> ChangeType]
      BY <1>1, <1>2, ChangeFacts
    <2>2. \A x \in Runs : RunAt(x, "rename")' <=> holder' = x
      BY <1>2 DEF JarInv, JarTypeOK, RunAt
    <2>3. \A d \in Replacers : Replacing(d)' <=> holder' = d
      BY <1>2, <1>4 DEF JarInv, JarTypeOK
    <2> QED
      BY <1>2, <2>1, <2>2, <2>3 DEF JarInv, JarTypeOK
  <1>8. \A x \in Runs : Knows(run[x])'
    BY <1>2, <1>5 DEF JarInv, Knows, HoldsJar
  <1>9. JarsAgree' /\ VerdictIsCurrent'
    BY <1>2, <1>5 DEF JarInv, JarsAgree, VerdictIsCurrent
  <1> QED
    BY <1>6, <1>7, <1>8, <1>9 DEF JarInv

LEMMA ChangeNothingKeepsInv ==
  ASSUME JarInv, NEW c \in Replacers, ChangeNothing(c) \/ ChangeRefused(c)
  PROVE  JarInv'
  <1>1. /\ change[c].pc = "lock" /\ holder = Nobody /\ verdict' \in {verdict, NoJar}
        /\ change' = [change EXCEPT ![c] = IdleChange]
        /\ UNCHANGED <<row, gen, holder, run>>
    BY DEF ChangeNothing, ChangeRefused, ChangeAt
  <1>2. file' \in {file, row}
    BY DEF ChangeNothing, ChangeRefused
  <1>3. IdleChange \in ChangeType /\ IdleChange.pc = "idle"
    BY DEF IdleChange, ChangeType, ChangePC, Jar
  <1>4. ~Changing
    BY <1>1, FreeLock
  <1>5. /\ JarTypeOK' /\ change'[c] = IdleChange /\ ~Changing'
        /\ \A d \in Replacers \ {c} : PhaseOK(d)'
    BY <1>1, <1>2, <1>3, ChangeFacts, ChangeKeepsTypes
  <1>6. PhaseOK(c)'
    BY <1>3, <1>5 DEF PhaseOK, Replacing
  <1>7. \A x \in Runs : Knows(run[x])'
    BY <1>1, <1>4, ChangeFacts, RunsStillKnow
  <1>8. JarsAgree' /\ VerdictIsCurrent'
    BY <1>1, <1>2, <1>4 DEF JarInv, JarsAgree, VerdictIsCurrent
  <1> QED
    BY <1>5, <1>6, <1>7, <1>8 DEF JarInv

\* The bracket opens: from here on nothing a run knows is current.
LEMMA ChangeBeginKeepsInv ==
  ASSUME JarInv, NEW c \in Replacers, ChangeBegin(c)
  PROVE  JarInv'
  <1> DEFINE local == [[change[c] EXCEPT !.pc = "write"] EXCEPT !.prev = row]
  <1>1. /\ change[c].pc = "lock" /\ holder = Nobody /\ holder' = c
        /\ gen' = gen + 1 /\ gen + 2 <= MaxGen /\ verdict' = NoJar
        /\ UNCHANGED <<row, file, run>>
    BY DEF ChangeBegin, ChangeAt, NewGeneration
  <1>2. change' = [change EXCEPT ![c] = local]
    <2>1. change' = [change EXCEPT ![c].pc = "write", ![c].prev = row]
      BY DEF ChangeBegin
    <2> QED
      BY <2>1, ChangeFacts
  <1>3. local \in ChangeType /\ local.pc = "write" /\ local.prev = row
    BY ChangeFacts DEF ChangeType, ChangePC
  <1> HIDE DEF local
  <1>4. ~Changing
    BY <1>1, FreeLock
  <1>5. gen' \in 0 .. MaxGen /\ gen' \in Nat /\ gen' > gen /\ gen' < MaxGen
    BY <1>1, ChangeFacts
  <1>6. /\ JarTypeOK' /\ change'[c] = local /\ Changing'
        /\ \A d \in Replacers \ {c} : PhaseOK(d)'
    BY <1>1, <1>2, <1>3, <1>5, ChangeFacts, ChangeKeepsTypes
  <1>7. PhaseOK(c)'
    BY <1>1, <1>3, <1>4, <1>5, <1>6 DEF PhaseOK, Replacing, JarInv, JarsAgree
  <1>8. \A x \in Runs : Knows(run[x])'
    <2>1. holder \notin Runs
      BY <1>1, ActorsAssumption
    <2> QED
      BY <1>1, <1>5, <2>1, ChangeFacts, RunsStillKnow
  <1>9. JarsAgree' /\ VerdictIsCurrent'
    BY <1>6 DEF JarsAgree, VerdictIsCurrent
  <1> QED
    BY <1>6, <1>7, <1>8, <1>9 DEF JarInv

\* Inside the bracket, one more write of file or row, after which the
\* replacement stands where it says.
LEMMA InsideBracket ==
  ASSUME JarInv, NEW c \in Replacers, NEW label \in {"commit", "restore", "forget"},
         Replacing(c), ChangeTo(c, label),
         UNCHANGED <<gen, verdict, holder, run>>, row' \in Jar, file' \in Jar,
         label = "restore" => change[c].prev = row',
         label = "commit" => change[c].prev = row' /\ file' \in {change[c].new, NoJar},
         label = "forget" => file' \in {row', NoJar}
  PROVE  JarInv'
  <1> DEFINE local == [change[c] EXCEPT !.pc = label]
  <1>1. change' = [change EXCEPT ![c] = local]
    BY ChangeFacts DEF ChangeTo
  <1>2. /\ local \in ChangeType /\ local.pc = label
        /\ local.prev = change[c].prev /\ local.new = change[c].new
    BY ChangeFacts DEF ChangeType, ChangePC
  <1> HIDE DEF local
  <1>3. holder = c /\ Changing
    BY ChangeFacts DEF Changing
  <1>4. /\ JarTypeOK' /\ change'[c] = local /\ Changing'
        /\ \A d \in Replacers \ {c} : PhaseOK(d)'
    BY <1>1, <1>2, <1>3, ChangeFacts, ChangeKeepsTypes
  <1>5. PhaseOK(c)'
    BY <1>2, <1>4, ChangeFacts DEF PhaseOK, Replacing
  <1>6. \A x \in Runs : Knows(run[x])'
    BY <1>4, ChangeFacts, RunsStillKnow
  <1>7. JarsAgree' /\ VerdictIsCurrent'
    BY <1>4 DEF JarsAgree, VerdictIsCurrent
  <1> QED
    BY <1>4, <1>5, <1>6, <1>7 DEF JarInv

LEMMA WriteFileKeepsInv ==
  ASSUME JarInv, NEW c \in Replacers, WriteFile(c)
  PROVE  JarInv'
  <1>1. change[c].pc = "write" /\ UNCHANGED <<row, gen, verdict, holder, run>> /\ Replacing(c)
    BY DEF WriteFile, ChangeAt, Replacing
  <1>2. CASE file' = change[c].new /\ ChangeTo(c, "commit")
    BY <1>1, <1>2, ChangeFacts, InsideBracket DEF PhaseOK
  <1>3. CASE UNCHANGED file /\ ChangeTo(c, "forget")
    BY <1>1, <1>3, ChangeFacts, InsideBracket DEF PhaseOK
  <1> QED
    BY <1>2, <1>3 DEF WriteFile

LEMMA CommitRowKeepsInv ==
  ASSUME JarInv, NEW c \in Replacers, CommitRow(c)
  PROVE  JarInv'
  <1>1. change[c].pc = "commit" /\ UNCHANGED <<file, gen, verdict, holder, run>> /\ Replacing(c)
    BY DEF CommitRow, ChangeAt, Replacing
  <1>2. CASE row' = change[c].new /\ ChangeTo(c, "forget")
    BY <1>1, <1>2, ChangeFacts, InsideBracket DEF PhaseOK
  <1>3. CASE UNCHANGED row /\ ChangeTo(c, "restore")
    BY <1>1, <1>3, ChangeFacts, InsideBracket DEF PhaseOK
  <1> QED
    BY <1>2, <1>3 DEF CommitRow

LEMMA RestoreFileKeepsInv ==
  ASSUME JarInv, NEW c \in Replacers, RestoreFile(c)
  PROVE  JarInv'
  BY ChangeFacts, InsideBracket DEF RestoreFile, ChangeAt, Replacing, PhaseOK

\* The bracket closes over a file that agrees with the row, and again
\* nothing a run knows is current.
LEMMA ForgetKeepsInv ==
  ASSUME JarInv, NEW c \in Replacers, Forget(c)
  PROVE  JarInv'
  <1>1. /\ change[c].pc = "forget" /\ holder' = Nobody /\ gen' = gen + 1 /\ verdict' = NoJar
        /\ change' = [change EXCEPT ![c] = IdleChange]
        /\ UNCHANGED <<row, file, run>>
    BY DEF Forget, ChangeAt, NewGeneration, EndChange
  <1>2. IdleChange \in ChangeType /\ IdleChange.pc = "idle"
    BY DEF IdleChange, ChangeType, ChangePC, Jar
  <1>3. Replacing(c) /\ holder = c
    BY <1>1, ChangeFacts DEF Replacing
  <1>4. file \in {row, NoJar} /\ gen < MaxGen
    BY <1>1, <1>3, ChangeFacts DEF PhaseOK
  <1>5. gen' \in 0 .. MaxGen /\ gen' \in Nat /\ gen' > gen
    BY <1>1, <1>4, ChangeFacts
  <1>6. /\ JarTypeOK' /\ change'[c] = IdleChange /\ ~Changing'
        /\ \A d \in Replacers \ {c} : PhaseOK(d)'
    BY <1>1, <1>2, <1>3, <1>5, ChangeFacts, ChangeKeepsTypes
  <1>7. PhaseOK(c)'
    BY <1>2, <1>6 DEF PhaseOK, Replacing
  <1>8. \A x \in Runs : Knows(run[x])'
    <2>1. holder \notin Runs
      BY <1>3, ActorsAssumption
    <2> QED
      BY <1>1, <1>5, <2>1, ChangeFacts, RunsStillKnow
  <1>9. JarsAgree' /\ VerdictIsCurrent'
    BY <1>1, <1>4 DEF JarsAgree, VerdictIsCurrent
  <1> QED
    BY <1>6, <1>7, <1>8, <1>9 DEF JarInv

-----------------------------------------------------------------------------
(* The theorems.                                                           *)

LEMMA ElsewhereKeepsInv ==
  ASSUME JarInv, ExpireVerdict \/ LoseFile \/ UNCHANGED jarVars
  PROVE  JarInv'
  <1>1. /\ UNCHANGED <<row, gen, holder, change, run>>
        /\ verdict' \in {verdict, NoJar} /\ file' \in {file, NoJar} /\ NoJar \in Jar
    BY DEF ExpireVerdict, LoseFile, jarVars, Jar
  <1>2. Changing' = Changing /\ \A c \in Replacers : Replacing(c)' = Replacing(c)
    BY <1>1 DEF Changing, Replacing
  <1>3. JarTypeOK'
    <2>1. \A x \in Runs : RunAt(x, "rename")' <=> holder' = x
      BY <1>1 DEF JarInv, JarTypeOK, RunAt
    <2> QED
      BY <1>1, <1>2, <2>1 DEF JarInv, JarTypeOK
  <1>4. \A c \in Replacers : PhaseOK(c)'
    BY <1>1, <1>2 DEF JarInv, PhaseOK
  <1>5. \A x \in Runs : Knows(run[x])'
    BY <1>1, <1>2 DEF JarInv, Knows, HoldsJar
  <1>6. JarsAgree' /\ VerdictIsCurrent'
    BY <1>1, <1>2 DEF JarInv, JarsAgree, VerdictIsCurrent
  <1> QED
    BY <1>3, <1>4, <1>5, <1>6 DEF JarInv

LEMMA InitJarInv == JarInit => JarInv
  <1> SUFFICES ASSUME JarInit PROVE JarInv
    OBVIOUS
  <1>1. /\ row \in Jar /\ file = row /\ gen = 0 /\ verdict = NoJar /\ holder = Nobody
        /\ change = [c \in Replacers |-> IdleChange] /\ run = [x \in Runs |-> IdleRun]
    BY DEF JarInit
  <1>2. IdleChange \in ChangeType /\ IdleChange.pc = "idle"
    BY DEF IdleChange, ChangeType, ChangePC, Jar
  <1>3. IdleRun \in RunType /\ IdleRun.pc = "idle" /\ IdleRun.since = 0 /\ IdleRun.staged = 0
    BY DEF IdleRun, RunType, RunPC, Jar
  <1>4. JarTypeOK
    BY <1>1, <1>2, <1>3, ActorsAssumption, BoundAssumption DEF JarTypeOK, Jar, Replacing, RunAt
  <1>5. \A c \in Replacers : PhaseOK(c)
    BY <1>1, <1>2 DEF PhaseOK, Replacing
  <1>6. \A x \in Runs : Knows(run[x])
    BY <1>1, <1>3 DEF Knows, HoldsJar
  <1> QED
    BY <1>1, <1>4, <1>5, <1>6 DEF JarInv, JarsAgree, VerdictIsCurrent

LEMMA NextJarInv == JarInv /\ [JarNext]_jarVars => JarInv'
  <1> SUFFICES ASSUME JarInv, [JarNext]_jarVars PROVE JarInv'
    OBVIOUS
  <1>1. ASSUME NEW c \in Replacers, (\E new \in Jar : ChangeStart(c, new)) \/ ChangeStep(c)
        PROVE  JarInv'
    BY <1>1, ChangeStartKeepsInv, ChangeNothingKeepsInv, ChangeBeginKeepsInv, WriteFileKeepsInv,
       CommitRowKeepsInv, RestoreFileKeepsInv, ForgetKeepsInv DEF ChangeStep
  <1>2. ASSUME NEW x \in Runs, Extract(x) \/ RunStep(x) \/ RunOver(x)
        PROVE  JarInv'
    BY <1>2, ExtractKeepsInv, StageKeepsInv, CopyJarKeepsInv, CookieRunKeepsInv,
       PersistLockKeepsInv, PersistRenameKeepsInv, BareRetryKeepsInv, BareFirstKeepsInv,
       RunOverKeepsInv DEF RunStep
  <1> QED
    BY <1>1, <1>2, ElsewhereKeepsInv DEF JarNext

LEMMA JarInvariance == JarSpec => []JarInv
  BY InitJarInv, NextJarInv, PTL DEF JarSpec

\* Types, and the discipline of COOKIE_FILE_LOCK: at most one upload or
\* write-back is between its lock and unlock.
THEOREM JarTypeCorrect == JarSpec => []JarTypeOK
  <1>1. JarInv => JarTypeOK
    BY DEF JarInv
  <1> QED
    BY <1>1, JarInvariance, PTL

\* Outside a replacement yt-dlp reads the stored jar or none, for any number
\* of concurrent uploads and of runs that write rotated jars back.
THEOREM JarsStayTogether == JarSpec => []JarsAgree
  <1>1. JarInv => JarsAgree
    BY DEF JarInv
  <1> QED
    BY <1>1, JarInvariance, PTL

\* A verdict on record is about the stored jar.
THEOREM VerdictsAreCurrent == JarSpec => []VerdictIsCurrent
  <1>1. JarInv => VerdictIsCurrent
    BY DEF JarInv
  <1> QED
    BY <1>1, JarInvariance, PTL

\* What an extraction no cookie change overlapped has got was got with the
\* stored jar or logged out.
THEOREM ResultsFitTheRow == JarSpec => []ResultFitsRow
  <1>1. JarInv => ResultFitsRow
    BY DEF JarInv, Knows, ResultFitsRow, RunAt
  <1> QED
    BY <1>1, JarInvariance, PTL

-----------------------------------------------------------------------------
(* Faults.  File and row may come apart, and a bracket may stay open; what *)
(* stays is the lock, that whoever knows a generation knows one that has   *)
(* been, and that a replacement whose row is written has written its file. *)

\* What is true of a run, and of a replacement, whatever has failed.
Dated(local) ==
    /\ local.since <= gen /\ local.staged <= gen
    /\ HoldsJar(local) \/ local.pc = "copy" => local.since <= local.staged
    /\ local.pc = "rename" => local.staged = gen

InStep(c) ==
    /\ Replacing(c) => gen < MaxGen
    /\ change[c].pc \in {"write", "commit", "restore"} => change[c].new # row
    /\ change[c].pc = "commit" => file \in {change[c].new, NoJar}
    /\ change[c].pc = "forget" /\ change[c].new = row => file \in {row, NoJar}

FaultInv ==
    /\ JarTypeOK
    /\ \A c \in Replacers : InStep(c)
    /\ \A x \in Runs : Dated(run[x])

LEMMA FaultFacts ==
  ASSUME FaultInv
  PROVE  /\ row \in Jar /\ file \in Jar /\ verdict \in Jar /\ NoJar \in Jar
         /\ gen \in 0 .. MaxGen /\ gen \in Nat /\ MaxGen \in Nat
         /\ run \in [Runs -> RunType] /\ change \in [Replacers -> ChangeType]
         /\ \A x \in Runs : /\ run[x] \in RunType /\ Dated(run[x])
                            /\ run[x].since \in Nat /\ run[x].staged \in Nat /\ run[x].jar \in Jar
                            /\ (RunAt(x, "rename") <=> holder = x)
         /\ \A c \in Replacers : /\ change[c] \in ChangeType /\ InStep(c)
                                 /\ change[c].new \in Jar /\ change[c].prev \in Jar
                                 /\ (Replacing(c) <=> holder = c)
  BY BoundAssumption DEF FaultInv, JarTypeOK, ChangeType, RunType, Jar

\* A step of one run: its locals are dated rightly, and file and lock change
\* only if it has the lock.
LEMMA RunStaysInStep ==
  ASSUME FaultInv, NEW x \in Runs, NEW local \in RunType, RunBecomes(x, local), Dated(local),
         UNCHANGED <<row, gen, change>>, file' \in Jar, verdict' \in Jar,
         file' = file \/ holder = x,
         IF local.pc = "rename" THEN holder' = x /\ holder \in {x, Nobody}
         ELSE holder' = IF holder = x THEN Nobody ELSE holder
  PROVE  FaultInv'
  <1>1. run' \in [Runs -> RunType] /\ run'[x] = local /\ \A y \in Runs \ {x} : run'[y] = run[y]
    BY FaultFacts DEF RunBecomes
  <1>2. \A y \in Runs : RunAt(y, "rename")' <=> holder' = y
    <2> TAKE y \in Runs
    <2>1. CASE y = x
      BY <1>1, <2>1, ActorsAssumption DEF RunAt
    <2>2. CASE y # x
      <3>1. RunAt(y, "rename")' <=> RunAt(y, "rename")
        BY <1>1, <2>2 DEF RunAt
      <3>2. holder' = y <=> holder = y
        BY <2>2, ActorsAssumption
      <3> QED
        BY <3>1, <3>2, FaultFacts
    <2> QED
      BY <2>1, <2>2
  <1>3. ASSUME NEW c \in Replacers PROVE (Replacing(c)' <=> holder' = c) /\ InStep(c)'
    <2>1. holder' = c <=> holder = c
      BY <1>3, ActorsAssumption
    <2>2. Replacing(c)' = Replacing(c) /\ (Replacing(c) => file' = file)
      BY <1>3, FaultFacts, ActorsAssumption DEF Replacing
    <2> QED
      BY <1>3, <2>1, <2>2, FaultFacts DEF InStep, Replacing
  <1>4. \A y \in Runs : Dated(run[y])'
    BY <1>1, FaultFacts DEF Dated, HoldsJar
  <1>5. holder' \in Replacers \cup Runs \cup {Nobody}
    BY DEF FaultInv, JarTypeOK
  <1> QED
    BY <1>1, <1>2, <1>3, <1>4, <1>5, FaultFacts DEF FaultInv, JarTypeOK

\* A step of one run without the lock, which keeps its dates.
LEMMA RunMoves ==
  ASSUME FaultInv, NEW x \in Runs, NEW local \in RunType, RunBecomes(x, local),
         local.since = run[x].since, local.staged = run[x].staged,
         HoldsJar(local) => HoldsJar(run[x]) \/ run[x].pc = "copy",
         local.pc \notin {"copy", "rename"}, run[x].pc # "rename",
         UNCHANGED <<row, file, gen, holder, change>>, verdict' \in Jar
  PROVE  FaultInv'
  <1>1. holder # x
    BY FaultFacts DEF RunAt
  <1>2. Dated(local)
    BY FaultFacts DEF Dated
  <1> QED
    BY <1>1, <1>2, FaultFacts, RunStaysInStep

LEMMA SettleMoves ==
  ASSUME NEW local \in RunType
  PROVE  /\ Settle(local) \in RunType /\ Settle(local).pc \in {"done", "bareRetry"}
         /\ Settle(local).since = local.since /\ Settle(local).staged = local.staged
  <1>1. Kept(local) \in Jar
    BY DEF Kept, RunType, Jar
  <1> DEFINE over == [local EXCEPT !.pc = "done", !.result = Kept(local)]
             retried == [local EXCEPT !.pc = "bareRetry"]
  <1>2. over \in RunType /\ over.pc = "done" /\ over.since = local.since /\ over.staged = local.staged
    BY <1>1 DEF RunType, RunPC
  <1>3. /\ retried \in RunType /\ retried.pc = "bareRetry" /\ retried.since = local.since
        /\ retried.staged = local.staged
    BY DEF RunType, RunPC
  <1>4. Settle(local) \in {over, retried}
    BY DEF Settle
  <1> HIDE DEF over, retried
  <1> QED
    BY <1>2, <1>3, <1>4

LEMMA EndMoves ==
  ASSUME NEW local \in RunType, NEW result \in Jar \cup {Failed}
  PROVE  LET over == [local EXCEPT !.pc = "done", !.result = result]
         IN /\ over \in RunType /\ over.pc = "done"
            /\ over.since = local.since /\ over.staged = local.staged
  BY DEF RunType, RunPC

LEMMA RunsStayInStep ==
  ASSUME FaultInv, NEW x \in Runs, Extract(x) \/ RunStep(x) \/ RunOver(x)
  PROVE  FaultInv'
  <1> DEFINE old == run[x]
  <1>1. ASSUME NEW result \in Jar \cup {Failed}, RunEnds(x, result), old.pc # "rename",
               UNCHANGED <<row, file, gen, holder, change>>, verdict' \in Jar
        PROVE  FaultInv'
    <2> DEFINE over == [old EXCEPT !.pc = "done", !.result = result]
    <2>1. /\ over \in RunType /\ over.pc = "done"
          /\ over.since = old.since /\ over.staged = old.staged
      BY EndMoves, FaultFacts
    <2>2. RunBecomes(x, over)
      BY <1>1 DEF RunEnds
    <2> HIDE DEF over
    <2> QED
      BY <1>1, <2>1, <2>2, RunMoves DEF HoldsJar
  <1>2. Fallback(old) \in Jar \cup {Failed} /\ NoJar \in Jar
    BY DEF Fallback, Jar
  <1>3. CASE Extract(x)
    <2> DEFINE label == IF verdict # NoJar THEN "bareFirst" ELSE "stage"
               local == [IdleRun EXCEPT !.pc = label, !.since = gen]
    <2>1. /\ local \in RunType /\ local.pc \in {"bareFirst", "stage"}
          /\ local.since = gen /\ local.staged = 0
      BY FaultFacts DEF IdleRun, RunType, RunPC, Jar
    <2>2. RunBecomes(x, local) /\ holder # x /\ UNCHANGED <<row, file, gen, verdict, holder, change>>
      BY <1>3, FaultFacts DEF Extract, RunAt
    <2> HIDE DEF local
    <2>3. Dated(local)
      BY <2>1, FaultFacts DEF Dated, HoldsJar
    <2> QED
      BY <2>1, <2>2, <2>3, FaultFacts, RunStaysInStep
  <1>4. CASE Stage(x)
    <2> DEFINE local == [old EXCEPT !.pc = "copy", !.staged = gen]
    <2>1. local \in RunType /\ local.pc = "copy" /\ local.since = old.since /\ local.staged = gen
      BY FaultFacts DEF RunType, RunPC
    <2>2. RunBecomes(x, local) /\ holder # x /\ UNCHANGED <<row, file, gen, verdict, holder, change>>
      BY <1>4, FaultFacts DEF Stage, RunAt
    <2> HIDE DEF local
    <2>3. Dated(local)
      BY <2>1, FaultFacts DEF Dated, HoldsJar
    <2> QED
      BY <2>1, <2>2, <2>3, FaultFacts, RunStaysInStep
  <1>5. CASE CopyJar(x)
    <2>1. old.pc = "copy" /\ UNCHANGED <<row, file, gen, verdict, holder, change>>
      BY <1>5 DEF CopyJar, RunAt
    <2>2. PICK jar \in {file, NoJar} : \/ RunBecomes(x, [old EXCEPT !.pc = "cookieRun", !.jar = jar])
                                       \/ RunEnds(x, Fallback(old))
      BY <1>5 DEF CopyJar
    <2>3. CASE RunBecomes(x, [old EXCEPT !.pc = "cookieRun", !.jar = jar])
      <3> DEFINE local == [old EXCEPT !.pc = "cookieRun", !.jar = jar]
      <3>1. /\ local \in RunType /\ local.pc = "cookieRun" /\ local.since = old.since
            /\ local.staged = old.staged
        BY FaultFacts DEF RunType, RunPC
      <3>2. RunBecomes(x, local)
        BY <2>3
      <3> HIDE DEF local
      <3> QED
        BY <2>1, <3>1, <3>2, FaultFacts, RunMoves
    <2> QED
      BY <1>1, <1>2, <2>1, <2>2, <2>3, FaultFacts
  <1>6. CASE CookieRun(x)
    <2>1. old.pc = "cookieRun" /\ UNCHANGED <<row, file, gen, verdict, holder, change>>
      BY <1>6 DEF CookieRun, RunAt
    <2>2. ASSUME NEW usable \in BOOLEAN,
                 \/ RunBecomes(x, [[old EXCEPT !.usable = usable] EXCEPT !.pc = "persist"])
                 \/ RunBecomes(x, Settle([old EXCEPT !.usable = usable]))
          PROVE  FaultInv'
      <3> DEFINE local == [old EXCEPT !.usable = usable]
                 next == [local EXCEPT !.pc = "persist"]
      <3>1. local \in RunType /\ local.since = old.since /\ local.staged = old.staged
        BY FaultFacts DEF RunType
      <3>2. /\ next \in RunType /\ next.pc = "persist" /\ next.since = old.since
            /\ next.staged = old.staged
        BY FaultFacts DEF RunType, RunPC
      <3>3. RunBecomes(x, next) \/ RunBecomes(x, Settle(local))
        BY <2>2
      <3> HIDE DEF next, local
      <3>4. /\ Settle(local) \in RunType /\ Settle(local).pc \in {"done", "bareRetry"}
            /\ Settle(local).since = old.since /\ Settle(local).staged = old.staged
        BY <3>1, SettleMoves
      <3>5. HoldsJar(old)
        BY <2>1 DEF HoldsJar
      <3> QED
        BY <2>1, <3>2, <3>3, <3>4, <3>5, FaultFacts, RunMoves
    <2> QED
      BY <1>1, <1>2, <1>6, <2>1, <2>2, FaultFacts DEF CookieRun
  <1>7. CASE PersistLock(x)
    <2>1. old.pc = "persist" /\ holder = Nobody /\ UNCHANGED <<row, file, gen, verdict, change>>
      BY <1>7 DEF PersistLock, RunAt
    <2>2. CASE gen = old.staged
      <3> DEFINE local == [old EXCEPT !.pc = "rename"]
      <3>1. /\ local \in RunType /\ local.pc = "rename" /\ local.since = old.since
            /\ local.staged = old.staged
        BY FaultFacts DEF RunType, RunPC
      <3>2. RunBecomes(x, local) /\ holder' = x
        BY <1>7, <2>2 DEF PersistLock, RunTo
      <3> HIDE DEF local
      <3>3. Dated(local)
        BY <2>1, <2>2, <3>1, FaultFacts DEF Dated, HoldsJar
      <3> QED
        BY <2>1, <3>1, <3>2, <3>3, FaultFacts, RunStaysInStep
    <2>3. CASE gen # old.staged
      <3>1. RunBecomes(x, Settle(old)) /\ UNCHANGED holder
        BY <1>7, <2>3 DEF PersistLock
      <3>2. /\ Settle(old) \in RunType /\ Settle(old).pc \in {"done", "bareRetry"}
            /\ Settle(old).since = old.since /\ Settle(old).staged = old.staged
        BY FaultFacts, SettleMoves
      <3>3. HoldsJar(old)
        BY <2>1 DEF HoldsJar
      <3> QED
        BY <2>1, <3>1, <3>2, <3>3, FaultFacts, RunMoves
    <2> QED
      BY <2>2, <2>3
  <1>8. CASE PersistRename(x)
    <2>1. /\ old.pc = "rename" /\ file' \in {file, old.jar} /\ holder' = Nobody
          /\ RunBecomes(x, Settle(old)) /\ UNCHANGED <<row, gen, verdict, change>>
      BY <1>8 DEF PersistRename, RunAt
    <2>2. holder = x
      BY <2>1, FaultFacts DEF RunAt
    <2>3. /\ Settle(old) \in RunType /\ Settle(old).pc \in {"done", "bareRetry"}
          /\ Settle(old).since = old.since /\ Settle(old).staged = old.staged
      BY FaultFacts, SettleMoves
    <2>4. Dated(Settle(old))
      BY <2>1, <2>3, FaultFacts DEF Dated, HoldsJar
    <2> QED
      BY <2>1, <2>2, <2>3, <2>4, FaultFacts, RunStaysInStep
  <1>9. CASE BareRetry(x)
    <2>1. old.pc = "bareRetry" /\ UNCHANGED <<row, file, gen, holder, change>>
      BY <1>9 DEF BareRetry, RunAt
    <2>2. verdict' \in {verdict, old.jar} /\ \E result \in {NoJar, old.jar} : RunEnds(x, result)
      BY <1>9 DEF BareRetry
    <2> QED
      BY <1>1, <1>2, <2>1, <2>2, FaultFacts
  <1>10. CASE BareFirst(x)
    <2>1. old.pc = "bareFirst" /\ verdict' \in {verdict, NoJar} /\ UNCHANGED <<row, file, gen, holder, change>>
      BY <1>10 DEF BareFirst, RunAt
    <2>2. ASSUME NEW bare \in {"empty", "failed"}, RunBecomes(x, [old EXCEPT !.pc = "stage", !.bare = bare])
          PROVE  FaultInv'
      <3> DEFINE local == [old EXCEPT !.pc = "stage", !.bare = bare]
      <3>1. /\ local \in RunType /\ local.pc = "stage" /\ local.since = old.since
            /\ local.staged = old.staged
        BY FaultFacts DEF RunType, RunPC
      <3>2. RunBecomes(x, local)
        BY <2>2
      <3> HIDE DEF local
      <3> QED
        BY <2>1, <3>1, <3>2, FaultFacts, RunMoves DEF HoldsJar
    <2> QED
      BY <1>1, <1>2, <1>10, <2>1, <2>2, FaultFacts DEF BareFirst
  <1>11. CASE RunOver(x)
    <2>1. IdleRun \in RunType /\ IdleRun.pc = "idle" /\ IdleRun.since = 0 /\ IdleRun.staged = 0
      BY DEF IdleRun, RunType, RunPC, Jar
    <2>2. RunBecomes(x, IdleRun) /\ holder # x /\ UNCHANGED <<row, file, gen, verdict, holder, change>>
      BY <1>11, FaultFacts DEF RunOver, RunAt
    <2>3. Dated(IdleRun)
      BY <2>1, FaultFacts DEF Dated, HoldsJar
    <2> QED
      BY <2>1, <2>2, <2>3, FaultFacts, RunStaysInStep
  <1> QED
    BY <1>3, <1>4, <1>5, <1>6, <1>7, <1>8, <1>9, <1>10, <1>11 DEF RunStep

Bracketed(local) == local.pc \in {"write", "commit", "restore", "forget"}

\* A step of one replacement: it ends where its locals say, and file, row and
\* generation change only while nobody else has the lock.
LEMMA ChangeStaysInStep ==
  ASSUME FaultInv, NEW c \in Replacers, NEW local \in ChangeType,
         change' = [change EXCEPT ![c] = local], UNCHANGED run,
         Bracketed(local) => holder' = c /\ holder \in {c, Nobody},
         ~Bracketed(local) => holder' = IF holder = c THEN Nobody ELSE holder,
         row' \in Jar, file' \in Jar, verdict' \in Jar, gen' \in 0 .. MaxGen, gen' >= gen,
         UNCHANGED <<row, file, gen>> \/ holder \in {c, Nobody},
         Bracketed(local) => gen' < MaxGen,
         local.pc \in {"write", "commit", "restore"} => local.new # row',
         local.pc = "commit" => file' \in {local.new, NoJar},
         local.pc = "forget" /\ local.new = row' => file' \in {row', NoJar}
  PROVE  FaultInv'
  <1>1. /\ change' \in [Replacers -> ChangeType] /\ change'[c] = local
        /\ \A d \in Replacers \ {c} : change'[d] = change[d]
    BY FaultFacts
  <1>2. InStep(c)'
    BY <1>1 DEF InStep, Replacing, Bracketed
  <1>3. ASSUME NEW d \in Replacers PROVE (Replacing(d)' <=> holder' = d) /\ InStep(d)'
    <2>1. CASE d = c
      BY <1>1, <1>2, <2>1, ActorsAssumption DEF Replacing, Bracketed
    <2>2. CASE d # c
      <3>1. Replacing(d)' = Replacing(d) /\ (holder' = d <=> holder = d)
        BY <1>1, <1>3, <2>2, ActorsAssumption DEF Replacing
      <3>2. Replacing(d) => UNCHANGED <<row, file, gen>>
        BY <1>3, <2>2, FaultFacts, ActorsAssumption
      <3> QED
        BY <1>1, <1>3, <2>2, <3>1, <3>2, FaultFacts DEF InStep, Replacing
    <2> QED
      BY <2>1, <2>2
  <1>4. ASSUME NEW x \in Runs PROVE (RunAt(x, "rename")' <=> holder' = x) /\ Dated(run[x])'
    <2>1. holder' = x <=> holder = x
      BY <1>4, ActorsAssumption
    <2>2. RunAt(x, "rename") => gen' = gen
      BY <1>4, FaultFacts, ActorsAssumption
    <2>3. Dated(run[x])'
      BY <1>4, <2>2, FaultFacts DEF Dated, HoldsJar, RunAt
    <2> QED
      BY <1>4, <2>1, <2>3, FaultFacts DEF RunAt
  <1>5. holder' \in Replacers \cup Runs \cup {Nobody} /\ run' \in [Runs -> RunType]
    BY FaultFacts DEF FaultInv, JarTypeOK
  <1> QED
    BY <1>1, <1>3, <1>4, <1>5 DEF FaultInv, JarTypeOK

\* A replacement that has the lock goes on.
LEMMA GoesOnInStep ==
  ASSUME FaultInv, NEW c \in Replacers, NEW label \in {"commit", "restore", "forget"},
         Replacing(c), ChangeTo(c, label), UNCHANGED <<gen, verdict, holder, run>>,
         row' \in Jar, file' \in Jar,
         label \in {"commit", "restore"} => change[c].new # row',
         label = "commit" => file' \in {change[c].new, NoJar},
         label = "forget" /\ change[c].new = row' => file' \in {row', NoJar}
  PROVE  FaultInv'
  <1> DEFINE local == [change[c] EXCEPT !.pc = label]
  <1>1. change' = [change EXCEPT ![c] = local]
    BY FaultFacts DEF ChangeTo
  <1>2. local \in ChangeType /\ local.pc = label /\ local.new = change[c].new
    BY FaultFacts DEF ChangeType, ChangePC
  <1> HIDE DEF local
  <1>3. holder' = c /\ holder = c /\ Bracketed(local) /\ verdict' \in Jar
    BY <1>2, FaultFacts DEF Bracketed
  <1>4. gen' \in 0 .. MaxGen /\ gen' >= gen /\ gen' < MaxGen
    BY FaultFacts DEF InStep
  <1> QED
    BY <1>1, <1>2, <1>3, <1>4, ChangeStaysInStep

LEMMA ChangesStayInStep ==
  ASSUME FaultInv, NEW c \in Replacers, (\E new \in Jar : ChangeStart(c, new)) \/ ChangeStep(c)
  PROVE  FaultInv'
  <1> DEFINE old == change[c]
  <1>1. IdleChange \in ChangeType /\ IdleChange.pc = "idle"
    BY DEF IdleChange, ChangeType, ChangePC, Jar
  <1>2. ASSUME NEW new \in Jar, ChangeStart(c, new) PROVE FaultInv'
    <2> DEFINE local == [IdleChange EXCEPT !.pc = "lock", !.new = new]
    <2>1. local \in ChangeType /\ local.pc = "lock"
      BY DEF IdleChange, ChangeType, ChangePC, Jar
    <2>2. /\ change' = [change EXCEPT ![c] = local] /\ holder # c
          /\ UNCHANGED <<row, file, gen, verdict, holder, run>>
      BY <1>2, FaultFacts DEF ChangeStart, ChangeAt, Replacing
    <2> HIDE DEF local
    <2>3. ~Bracketed(local) /\ gen' \in 0 .. MaxGen /\ gen' >= gen /\ row' \in Jar /\ file' \in Jar
      BY <2>1, <2>2, FaultFacts DEF Bracketed
    <2> QED
      BY <2>1, <2>2, <2>3, FaultFacts, ChangeStaysInStep
  <1>3. CASE ChangeNothing(c) \/ ChangeRefused(c)
    <2>1. /\ holder = Nobody /\ verdict' \in {verdict, NoJar} /\ file' \in {file, row}
          /\ change' = [change EXCEPT ![c] = IdleChange] /\ UNCHANGED <<row, gen, holder, run>>
      BY <1>3 DEF ChangeNothing, ChangeRefused
    <2>2. ~Bracketed(IdleChange) /\ gen' \in 0 .. MaxGen /\ gen' >= gen /\ row' \in Jar /\ file' \in Jar
      BY <1>1, <2>1, FaultFacts DEF Bracketed
    <2>3. holder # c /\ verdict' \in Jar
      BY <2>1, FaultFacts, ActorsAssumption
    <2> QED
      BY <1>1, <2>1, <2>2, <2>3, ChangeStaysInStep
  <1>4. CASE ChangeBegin(c)
    <2> DEFINE local == [[old EXCEPT !.pc = "write"] EXCEPT !.prev = row]
    <2>1. /\ holder = Nobody /\ holder' = c /\ old.new # row
          /\ gen' = gen + 1 /\ gen + 2 <= MaxGen /\ verdict' = NoJar /\ UNCHANGED <<row, file, run>>
      BY <1>4 DEF ChangeBegin, NewGeneration
    <2>2. change' = [change EXCEPT ![c] = local]
      <3>1. change' = [change EXCEPT ![c].pc = "write", ![c].prev = row]
        BY <1>4 DEF ChangeBegin
      <3> QED
        BY <3>1, FaultFacts
    <2>3. local \in ChangeType /\ local.pc = "write" /\ local.new = old.new
      BY FaultFacts DEF ChangeType, ChangePC
    <2> HIDE DEF local
    <2>4. gen' \in 0 .. MaxGen /\ gen' >= gen /\ gen' < MaxGen /\ row' \in Jar /\ file' \in Jar /\ verdict' \in Jar
      BY <2>1, FaultFacts
    <2> QED
      BY <2>1, <2>2, <2>3, <2>4, ChangeStaysInStep DEF Bracketed
  <1>5. CASE WriteFile(c)
    <2>1. Replacing(c) /\ old.pc = "write" /\ old.new # row /\ UNCHANGED <<row, gen, verdict, holder, run>>
      BY <1>5, FaultFacts DEF WriteFile, ChangeAt, Replacing, InStep
    <2>2. \/ file' = old.new /\ ChangeTo(c, "commit")
          \/ file' = file /\ ChangeTo(c, "forget")
      BY <1>5 DEF WriteFile
    <2> QED
      BY <2>1, <2>2, FaultFacts, GoesOnInStep
  <1>6. CASE CommitRow(c)
    <2>1. /\ Replacing(c) /\ old.pc = "commit" /\ old.new # row /\ file \in {old.new, NoJar}
          /\ UNCHANGED <<file, gen, verdict, holder, run>>
      BY <1>6, FaultFacts DEF CommitRow, ChangeAt, Replacing, InStep
    <2>2. \/ row' = old.new /\ ChangeTo(c, "forget")
          \/ row' = row /\ ChangeTo(c, "restore")
      BY <1>6 DEF CommitRow
    <2> QED
      BY <2>1, <2>2, FaultFacts, GoesOnInStep
  <1>7. CASE RestoreFile(c)
    <2>1. Replacing(c) /\ old.new # row /\ UNCHANGED <<row, gen, verdict, holder, run>>
      BY <1>7, FaultFacts DEF RestoreFile, ChangeAt, Replacing, InStep
    <2>2. file' = old.prev /\ ChangeTo(c, "forget")
      BY <1>7 DEF RestoreFile
    <2> QED
      BY <2>1, <2>2, FaultFacts, GoesOnInStep
  <1>8. CASE Forget(c)
    <2>1. /\ Replacing(c) /\ gen' = gen + 1 /\ verdict' = NoJar /\ holder' = Nobody
          /\ change' = [change EXCEPT ![c] = IdleChange] /\ UNCHANGED <<row, file, run>>
      BY <1>8 DEF Forget, ChangeAt, Replacing, NewGeneration, EndChange
    <2>2. holder = c /\ gen < MaxGen
      BY <2>1, FaultFacts DEF InStep
    <2>3. gen' \in 0 .. MaxGen /\ gen' >= gen /\ row' \in Jar /\ file' \in Jar /\ verdict' \in Jar
      BY <2>1, <2>2, FaultFacts
    <2> QED
      BY <1>1, <2>1, <2>2, <2>3, ChangeStaysInStep DEF Bracketed
  <1> QED
    BY <1>2, <1>3, <1>4, <1>5, <1>6, <1>7, <1>8 DEF ChangeStep

LEMMA FaultsStayInStep ==
  ASSUME FaultInv, NEW c \in Replacers, RestoreFails(c) \/ ChangeCancelled(c)
  PROVE  FaultInv'
  <1>1. CASE RestoreFails(c)
    <2>1. /\ Replacing(c) /\ change[c].new # row /\ ChangeTo(c, "forget")
          /\ UNCHANGED <<row, file, gen, verdict, holder, run>>
      BY <1>1, FaultFacts DEF RestoreFails, ChangeAt, Replacing, InStep
    <2> QED
      BY <2>1, FaultFacts, GoesOnInStep
  <1>2. CASE ChangeCancelled(c)
    <2>1. /\ Replacing(c) /\ file' \in {file, change[c].new, change[c].prev} /\ holder' = Nobody
          /\ change' = [change EXCEPT ![c] = IdleChange] /\ UNCHANGED <<row, gen, verdict, run>>
      BY <1>2 DEF ChangeCancelled, ChangeAt, Replacing, EndChange
    <2>2. IdleChange \in ChangeType /\ IdleChange.pc = "idle"
      BY DEF IdleChange, ChangeType, ChangePC, Jar
    <2>3. gen' \in 0 .. MaxGen /\ gen' >= gen /\ row' \in Jar /\ file' \in Jar /\ verdict' \in Jar
      BY <2>1, FaultFacts
    <2>4. holder = c
      BY <2>1, FaultFacts
    <2> QED
      BY <2>1, <2>2, <2>3, <2>4, ChangeStaysInStep DEF Bracketed
  <1> QED
    BY <1>1, <1>2

LEMMA ElsewhereInStep ==
  ASSUME FaultInv, ExpireVerdict \/ LoseFile \/ UNCHANGED jarVars
  PROVE  FaultInv'
  <1>1. /\ UNCHANGED <<row, gen, holder, change, run>>
        /\ verdict' \in {verdict, NoJar} /\ file' \in {file, NoJar}
    BY DEF ExpireVerdict, LoseFile, jarVars
  <1>2. JarTypeOK'
    BY <1>1, FaultFacts DEF FaultInv, JarTypeOK, Replacing, RunAt
  <1>3. \A c \in Replacers : InStep(c)'
    BY <1>1, FaultFacts DEF InStep, Replacing
  <1>4. \A x \in Runs : Dated(run[x])'
    BY <1>1, FaultFacts DEF Dated, HoldsJar
  <1> QED
    BY <1>2, <1>3, <1>4 DEF FaultInv

\* A start with a stored jar, and an upload or removal whose row is written:
\* what puts together again what faults have put apart.
Mends ==
    \/ Restart /\ row # NoJar
    \/ \E c \in Replacers : Forget(c) /\ change[c].new = row

\* A start forgets all there was in the process.
LEMMA StartsInStep ==
  ASSUME FaultInv, Restart
  PROVE  FaultInv' /\ (row # NoJar => JarInv')
  <1>1. /\ row' = row /\ file' \in Jar /\ (row # NoJar => file' = row) /\ gen' = 0 /\ verdict' = NoJar
        /\ holder' = Nobody
        /\ change' = [c \in Replacers |-> IdleChange] /\ run' = [x \in Runs |-> IdleRun]
    BY FaultFacts DEF Restart
  <1>2. IdleChange \in ChangeType /\ IdleChange.pc = "idle"
    BY DEF IdleChange, ChangeType, ChangePC, Jar
  <1>3. IdleRun \in RunType /\ IdleRun.pc = "idle" /\ IdleRun.since = 0 /\ IdleRun.staged = 0
    BY DEF IdleRun, RunType, RunPC, Jar
  <1>4. JarTypeOK'
    BY <1>1, <1>2, <1>3, FaultFacts, ActorsAssumption DEF JarTypeOK, Replacing, RunAt
  <1>5. \A c \in Replacers : InStep(c)' /\ PhaseOK(c)'
    BY <1>1, <1>2 DEF InStep, PhaseOK, Replacing
  <1>6. \A x \in Runs : Dated(run[x])' /\ Knows(run[x])'
    BY <1>1, <1>3 DEF Dated, Knows, HoldsJar
  <1> QED
    BY <1>1, <1>4, <1>5, <1>6 DEF FaultInv, JarInv, JarsAgree, VerdictIsCurrent

\* With the bracket closed over a row that was written, all is as without
\* faults: no run is of the new generation.
LEMMA ForgetMends ==
  ASSUME FaultInv, NEW c \in Replacers, Forget(c), change[c].new = row
  PROVE  JarInv'
  <1>1. /\ change[c].pc = "forget" /\ gen' = gen + 1 /\ verdict' = NoJar /\ holder' = Nobody
        /\ change' = [change EXCEPT ![c] = IdleChange] /\ UNCHANGED <<row, file, run>>
    BY DEF Forget, ChangeAt, NewGeneration, EndChange
  <1>2. FaultInv'
    BY ChangesStayInStep DEF ChangeStep
  <1>3. file \in {row, NoJar} /\ holder = c
    BY <1>1, FaultFacts DEF InStep, Replacing
  <1>4. \A d \in Replacers : ~Replacing(d)'
    BY <1>1, <1>2, ActorsAssumption DEF FaultInv, JarTypeOK
  <1>5. JarsAgree' /\ VerdictIsCurrent'
    BY <1>1, <1>3 DEF JarsAgree, VerdictIsCurrent
  <1>6. \A d \in Replacers : PhaseOK(d)'
    BY <1>4 DEF PhaseOK, Replacing
  <1>7. ASSUME NEW x \in Runs PROVE Knows(run[x])'
    <2>1. run[x].pc # "rename"
      BY <1>3, FaultFacts, ActorsAssumption DEF RunAt
    <2>2. /\ run[x].since <= gen /\ run[x].staged <= gen
          /\ HoldsJar(run[x]) \/ run[x].pc = "copy" => run[x].since <= run[x].staged
      BY FaultFacts DEF Dated
    <2>3. /\ run[x].since <= gen' /\ run[x].staged <= gen'
          /\ run[x].since # gen' /\ run[x].staged # gen'
      BY <1>1, <2>2, FaultFacts
    <2> QED
      BY <1>1, <2>1, <2>2, <2>3 DEF Knows, HoldsJar
  <1> QED
    BY <1>2, <1>5, <1>6, <1>7 DEF JarInv, FaultInv

LEMMA InitInStep == JarInit => FaultInv
  <1> SUFFICES ASSUME JarInit PROVE FaultInv
    OBVIOUS
  <1>1. JarTypeOK /\ \A x \in Runs : Dated(run[x])
    BY InitJarInv DEF JarInv, Knows, Dated
  <1>2. \A c \in Replacers : InStep(c)
    BY DEF JarInit, IdleChange, InStep, Replacing
  <1> QED
    BY <1>1, <1>2 DEF FaultInv

LEMMA NextInStep == FaultInv /\ [JarNext \/ Fault]_jarVars => FaultInv'
  BY RunsStayInStep, ChangesStayInStep, FaultsStayInStep, ElsewhereInStep, StartsInStep DEF JarNext, Fault

\* The lock outlives dropped handlers and restarts: it is held by whoever is
\* in a section it protects, and by nobody else.
THEOREM FaultsLeaveNoLock == FaultySpec => []JarTypeOK
  <1>1. FaultInv => JarTypeOK
    BY DEF FaultInv
  <1> QED
    BY <1>1, InitInStep, NextInStep, PTL DEF FaultySpec

\* A dropped upload, a restore that fails or a start over an empty row may
\* leave file and row apart (services/ytdlp.rs: replace_cookies).  A start
\* with a stored jar, or the next upload or removal that gets its row written,
\* establishes JarInv again, whatever runs are still under way; and from there
\* on, as long as nothing else fails, everything said of the jar holds.
THEOREM FaultsAreMended ==
    /\ FaultySpec => [][Mends => JarInv']_jarVars
    /\ JarInv /\ [][JarNext]_jarVars => [](JarsAgree /\ VerdictIsCurrent /\ ResultFitsRow)
  <1>1. FaultInv /\ [JarNext \/ Fault]_jarVars => [Mends => JarInv']_jarVars
    BY StartsInStep, ForgetMends DEF Mends
  <1>2. FaultySpec => [][Mends => JarInv']_jarVars
    BY <1>1, InitInStep, NextInStep, PTL DEF FaultySpec
  <1>3. JarInv => JarsAgree /\ VerdictIsCurrent /\ ResultFitsRow
    BY DEF JarInv, Knows, ResultFitsRow, RunAt
  <1>4. JarInv /\ [][JarNext]_jarVars => [](JarsAgree /\ VerdictIsCurrent /\ ResultFitsRow)
    BY <1>3, NextJarInv, PTL
  <1> QED
    BY <1>2, <1>4
=============================================================================
