--------------------------- MODULE DesktopProofs ---------------------------
(***************************************************************************)
(* What holds of the desktop applications for every number of windows,     *)
(* backtests, loads, bars and files: backtests that run at the same time   *)
(* keep apart and a window shows a run that is whole; the registry of      *)
(* strategies has what its windows offer; a load from the market data      *)
(* cache is complete; a load from a database leaves nothing open and its   *)
(* bars tell what the ticks in their periods told; a cleanup removes the   *)
(* oldest files and no more than it must; the editor's form and its        *)
(* configuration tell the same.                                            *)
(*                                                                         *)
(* Registries, selections of rows, sizes of files, the pass of a cleanup   *)
(* and the specs of symbols are folds: the facts about folds, by induction *)
(* over sequences and finite sets, are in FoldLemmas.                      *)
(***************************************************************************)
EXTENDS DesktopRuns, TushareCache, StrategyRegistry, DataLoad, CacheCleanup, DesktopEditor, FiniteSetTheorems, TLAPS

Names == (Int \X Int) \X Int

Places == {"new", "configure", "place", "running", "writing", "completed", "failed", "handled", "over"}

Backtest == [at : Places, mode : {"single", "optimization"}, combo : Int, dir : Names \cup {NoDir},
             rows : Seq(Names \cup {NoDir}), disturbed : BOOLEAN]
Config == (Workers \cup {NoWorker}) \X Int
RunDir == [users : SUBSET (Workers \X Int), config : Config, written : Nat]

RunsTypeOK ==
    /\ worker \in [Workers -> Backtest]
    /\ dirs \in [DOMAIN dirs -> RunDir] /\ DOMAIN dirs \subseteq Names
    /\ cfg_files \in [Workers \cup {SharedFile} -> Config]
    /\ second \in Int

\* Who is in the middle of a run with its directory.
HasDir(w) == worker[w].at \in {"running", "writing"}

\* A directory belongs to one combination of one backtest, the one that is at work in it.
OneUser == \A d \in DOMAIN dirs : \E w \in Workers, i \in Int : dirs[d].users = {<<w, i>>}
OwnDir == \A w \in Workers : HasDir(w) =>
            worker[w].dir \in DOMAIN dirs /\ dirs[worker[w].dir].users = {<<w, worker[w].combo>>}

\* Until it is copied the configuration is in the file it was written to, or another simple
\* window has overwritten it there.
Exempt(w) == ~IsMt4(w) /\ worker[w].disturbed
OwnConfig == \A w \in Workers : AwaitsCopy(w) => cfg_files[PathOf(w)] = <<w, worker[w].combo>> \/ Exempt(w)
CopyKept == \A d \in DOMAIN dirs : \A u \in dirs[d].users :
              dirs[d].written > 0 => dirs[d].config = u \/ Exempt(u[1])

RunsInv == RunsTypeOK /\ OneUser /\ OwnDir /\ OwnConfig /\ CopyKept

-----------------------------------------------------------------------------
\* A step of one backtest that makes no directory, writes nothing and does not begin to
\* wait for the copy of its configuration.
LEMMA OneMoves ==
    ASSUME RunsInv, NEW w \in Workers, worker' \in [Workers -> Backtest],
           \A x \in Workers \ {w} : worker'[x] = worker[x],
           worker'[w].disturbed = worker[w].disturbed,
           HasDir(w)' => HasDir(w) /\ worker'[w].dir = worker[w].dir /\ worker'[w].combo = worker[w].combo,
           AwaitsCopy(w)' => AwaitsCopy(w) /\ worker'[w].combo = worker[w].combo,
           UNCHANGED <<dirs, cfg_files, second>>
    PROVE  RunsInv'
<1>1. RunsTypeOK' /\ OneUser'
  BY DEF RunsInv, RunsTypeOK, OneUser
<1>2. \A x \in Workers : worker'[x].disturbed = worker[x].disturbed /\ (Exempt(x)' <=> Exempt(x))
  BY DEF Exempt, IsMt4
<1>3. OwnDir'
  BY DEF RunsInv, OwnDir, HasDir
<1>4. OwnConfig'
  <2>1. \A x \in Workers : AwaitsCopy(x)' => AwaitsCopy(x) /\ worker'[x].combo = worker[x].combo
    BY DEF AwaitsCopy
  <2> QED
    BY <1>2, <2>1 DEF RunsInv, OwnConfig, PathOf, IsMt4
<1>5. CopyKept'
  <2>1. \A d \in DOMAIN dirs : \A u \in dirs[d].users : u[1] \in Workers
    BY DEF RunsInv, OneUser
  <2> QED
    BY <1>2, <2>1 DEF RunsInv, CopyKept
<1> QED
  BY <1>1, <1>3, <1>4, <1>5 DEF RunsInv

\* A change of its place alone.
LEMMA PlaceMoves ==
    ASSUME RunsInv, NEW w \in Workers, NEW at \in Places, Goes(w, at),
           at \in {"running", "writing"} => HasDir(w) /\ worker[w].at = "running",
           at # "place",
           UNCHANGED <<dirs, cfg_files, second>>
    PROVE  RunsInv'
<1>1. worker \in [Workers -> Backtest]
  BY DEF RunsInv, RunsTypeOK
<1>2. worker' = [worker EXCEPT ![w] = [worker[w] EXCEPT !.at = at]]
  BY <1>1 DEF Goes
<1>3. [worker[w] EXCEPT !.at = at] \in Backtest
  BY <1>1 DEF Backtest
<1>4. worker' \in [Workers -> Backtest] /\ \A x \in Workers \ {w} : worker'[x] = worker[x]
  BY <1>1, <1>2, <1>3
<1>5. /\ worker'[w].at = at /\ worker'[w].dir = worker[w].dir
      /\ worker'[w].combo = worker[w].combo /\ worker'[w].disturbed = worker[w].disturbed
  BY <1>1, <1>2 DEF Backtest
<1>6. HasDir(w)' => HasDir(w)
  BY <1>5 DEF HasDir
<1>7. AwaitsCopy(w)' => AwaitsCopy(w)
  BY <1>5 DEF HasDir, AwaitsCopy
<1> QED
  BY <1>4, <1>5, <1>6, <1>7, OneMoves

-----------------------------------------------------------------------------
\* Before the first run there is no directory.
LEMMA RunsInitial == RunsInit => RunsInv
<1> SUFFICES ASSUME RunsInit PROVE RunsInv
  OBVIOUS
<1> DEFINE first == [at |-> "new", mode |-> "single", combo |-> 1, dir |-> NoDir, rows |-> <<>>, disturbed |-> FALSE]
<1>a. first \in Backtest /\ first.at = "new"
  BY DEF Backtest, Places
<1>b. worker = [w \in Workers |-> first]
  BY DEF RunsInit
<1> HIDE DEF first
<1>1. worker \in [Workers -> Backtest] /\ \A w \in Workers : worker[w].at = "new"
  BY <1>a, <1>b
<1>2. DOMAIN dirs = {} /\ dirs \in [DOMAIN dirs -> RunDir]
  BY DEF RunsInit
<1>3. RunsTypeOK
  <2>1. cfg_files \in [Workers \cup {SharedFile} -> Config] /\ second = 1
    BY DEF RunsInit, Config, NoConfig
  <2> QED
    BY <1>1, <1>2, <2>1 DEF RunsTypeOK
<1> QED
  BY <1>1, <1>2, <1>3 DEF RunsInv, OneUser, OwnDir, OwnConfig, CopyKept, HasDir, AwaitsCopy

\* start_run: a mode is chosen.
LEMMA StartRunKeeps == ASSUME RunsInv, NEW w \in Workers, StartRun(w) PROVE RunsInv'
<1>1. worker \in [Workers -> Backtest]
  BY DEF RunsInv, RunsTypeOK
<1>2. PICK mode \in {"single", "optimization"} :
         worker' = [worker EXCEPT ![w] = [worker[w] EXCEPT !.at = "configure", !.mode = mode]]
  BY <1>1 DEF StartRun
<1>3. [worker[w] EXCEPT !.at = "configure", !.mode = mode] \in Backtest
  BY <1>1 DEF Backtest, Places
<1>4. worker' \in [Workers -> Backtest] /\ \A x \in Workers \ {w} : worker'[x] = worker[x]
  BY <1>1, <1>2, <1>3
<1>5. worker'[w].at = "configure" /\ worker'[w].disturbed = worker[w].disturbed
  BY <1>1, <1>2 DEF Backtest
<1> QED
  BY <1>4, <1>5, OneMoves DEF StartRun, HasDir, AwaitsCopy

\* A configuration is written: whoever waits for the copy of the same file is disturbed.
LEMMA WriteConfigKeeps == ASSUME RunsInv, NEW w \in Workers, WriteConfig(w) PROVE RunsInv'
<1> DEFINE mine == <<w, worker[w].combo>>
           hit(x) == PathOf(x) = PathOf(w) /\ AwaitsCopy(x)
<1>1. worker \in [Workers -> Backtest] /\ cfg_files \in [Workers \cup {SharedFile} -> Config]
  BY DEF RunsInv, RunsTypeOK
<1>2. \A x \in Workers : /\ [worker[x] EXCEPT !.at = "place"] \in Backtest
                         /\ [worker[x] EXCEPT !.disturbed = TRUE] \in Backtest
  BY <1>1 DEF Backtest, Places
<1>3. /\ cfg_files' = [cfg_files EXCEPT ![PathOf(w)] = mine] /\ dirs' = dirs /\ second' = second
      /\ worker' = [x \in Workers |->
              IF x = w THEN [worker[x] EXCEPT !.at = "place"]
              ELSE IF hit(x) THEN [worker[x] EXCEPT !.disturbed = TRUE] ELSE worker[x]]
  BY DEF WriteConfig
<1>4. mine \in Config /\ PathOf(w) \in Workers \cup {SharedFile}
  BY <1>1 DEF Backtest, Config, PathOf
<1>5. \A x \in Workers : PathOf(x)' = PathOf(x) /\ (IsMt4(x)' <=> IsMt4(x))
  BY DEF PathOf, IsMt4
<1> HIDE DEF hit, mine
<1>6. worker' \in [Workers -> Backtest]
  BY <1>1, <1>2, <1>3
<1>7. /\ worker'[w].at = "place" /\ worker'[w].disturbed = worker[w].disturbed
      /\ worker'[w].combo = worker[w].combo
  BY <1>1, <1>3 DEF Backtest
<1>8. \A x \in Workers \ {w} : /\ worker'[x].at = worker[x].at /\ worker'[x].dir = worker[x].dir
                               /\ worker'[x].combo = worker[x].combo
                               /\ hit(x) => worker'[x].disturbed
                               /\ worker[x].disturbed => worker'[x].disturbed
  BY <1>1, <1>3 DEF Backtest
<1>9. \A x \in Workers : Exempt(x) => Exempt(x)'
  BY <1>5, <1>7, <1>8 DEF Exempt
<1>10. RunsTypeOK'
  BY <1>1, <1>3, <1>4, <1>6 DEF RunsInv, RunsTypeOK
<1>11. OneUser'
  BY <1>3 DEF RunsInv, OneUser
<1>12. OwnDir'
  BY <1>3, <1>7, <1>8 DEF RunsInv, OwnDir, HasDir
<1>13. OwnConfig'
  <2> SUFFICES ASSUME NEW x \in Workers, AwaitsCopy(x)'
               PROVE  cfg_files'[PathOf(x)] = <<x, worker'[x].combo>> \/ Exempt(x)'
    BY <1>5 DEF OwnConfig
  <2>1. CASE x = w
    BY <1>1, <1>3, <1>4, <1>7, <2>1 DEF mine
  <2>2. CASE x # w
    <3>1. AwaitsCopy(x)
      BY <1>3, <1>8, <2>2 DEF AwaitsCopy
    <3>2. CASE PathOf(x) = PathOf(w)
      <4>1. ~IsMt4(x)
        BY RunsAssumption, <2>2, <3>2 DEF PathOf
      <4> QED
        BY <1>5, <1>8, <2>2, <3>1, <3>2, <4>1 DEF Exempt, hit
    <3>3. CASE PathOf(x) # PathOf(w)
      <4>1. cfg_files'[PathOf(x)] = cfg_files[PathOf(x)]
        <5>1. PathOf(x) \in Workers \cup {SharedFile}
          BY DEF PathOf
        <5> QED
          BY <1>1, <1>3, <3>3, <5>1
      <4>2. worker'[x].combo = worker[x].combo
        BY <1>8, <2>2
      <4> QED
        BY <1>9, <3>1, <4>1, <4>2 DEF RunsInv, OwnConfig
    <3> QED
      BY <3>2, <3>3
  <2> QED
    BY <2>1, <2>2
<1>14. CopyKept'
  <2>1. \A d \in DOMAIN dirs : \A u \in dirs[d].users : u[1] \in Workers
    BY DEF RunsInv, OneUser
  <2> QED
    BY <1>3, <1>9, <2>1 DEF RunsInv, CopyKept
<1> QED
  BY <1>10, <1>11, <1>12, <1>13, <1>14 DEF RunsInv

\* prepare_run_dir: the directory was not there before.
LEMMA PrepareRunDirKeeps == ASSUME RunsInv, NEW w \in Workers, PrepareRunDir(w) PROVE RunsInv'
<1>1. worker \in [Workers -> Backtest] /\ dirs \in [DOMAIN dirs -> RunDir] /\ DOMAIN dirs \subseteq Names
  BY DEF RunsInv, RunsTypeOK
<1>2. PICK n \in Int : FreeAttempt(<<second, Tag(w)>>, n) /\ MakesDir(w, <<<<second, Tag(w)>>, n>>)
  BY DEF PrepareRunDir
<1> DEFINE d == <<<<second, Tag(w)>>, n>>
           fresh == [users |-> {<<w, worker[w].combo>>}, config |-> NoConfig, written |-> 0]
<1>3. d \in Names /\ d \notin DOMAIN dirs
  <2>1. Tag(w) \in Int
    BY <1>1 DEF Tag, Backtest
  <2> QED
    BY <1>2, <2>1 DEF FreeAttempt, Names, RunsInv, RunsTypeOK
<1>4. UNCHANGED <<cfg_files, second>>
  BY DEF PrepareRunDir
<1>5. dirs' = [e \in DOMAIN dirs \cup {d} |-> IF e # d THEN dirs[e] ELSE fresh]
  BY <1>2, <1>3 DEF MakesDir
<1>6. worker' = [worker EXCEPT ![w] = [worker[w] EXCEPT !.at = "running", !.dir = d]]
  BY <1>1, <1>2 DEF MakesDir
<1> HIDE DEF d
<1>7. fresh \in RunDir /\ fresh.written = 0 /\ fresh.users = {<<w, worker[w].combo>>}
  BY <1>1 DEF RunDir, Backtest, Config, NoConfig
<1>8. [worker[w] EXCEPT !.at = "running", !.dir = d] \in Backtest
  BY <1>1, <1>3 DEF Backtest, Places
<1>9. worker' \in [Workers -> Backtest] /\ \A x \in Workers \ {w} : worker'[x] = worker[x]
  BY <1>1, <1>6, <1>8
<1>10. /\ worker'[w].at = "running" /\ worker'[w].dir = d
       /\ worker'[w].combo = worker[w].combo /\ worker'[w].disturbed = worker[w].disturbed
  BY <1>1, <1>6 DEF Backtest
<1> HIDE DEF fresh
<1>11. /\ DOMAIN dirs' = DOMAIN dirs \cup {d} /\ dirs'[d] = fresh
       /\ \A e \in DOMAIN dirs : dirs'[e] = dirs[e]
  BY <1>3, <1>5
<1>12. RunsTypeOK'
  BY <1>1, <1>3, <1>4, <1>5, <1>7, <1>9, <1>11 DEF RunsInv, RunsTypeOK
<1>13. OneUser'
  <2>1. worker[w].combo \in Int
    BY <1>1 DEF Backtest
  <2>2. dirs'[d].users = {<<w, worker[w].combo>>}
    BY <1>7, <1>11
  <2>3. \A e \in DOMAIN dirs : \E x \in Workers, i \in Int : dirs'[e].users = {<<x, i>>}
    BY <1>11 DEF RunsInv, OneUser
  <2> QED
    BY <1>11, <2>1, <2>2, <2>3 DEF OneUser
<1>14. OwnDir'
  BY <1>7, <1>9, <1>10, <1>11 DEF RunsInv, OwnDir, HasDir
<1>15. \A x \in Workers : Exempt(x)' <=> Exempt(x)
  BY <1>9, <1>10 DEF Exempt, IsMt4
<1>16. OwnConfig'
  <2> SUFFICES ASSUME NEW x \in Workers, AwaitsCopy(x)'
               PROVE  cfg_files'[PathOf(x)] = <<x, worker'[x].combo>> \/ Exempt(x)'
    BY DEF OwnConfig, PathOf, IsMt4
  <2>1. AwaitsCopy(x)
    <3>1. CASE x = w
      BY <3>1 DEF AwaitsCopy, PrepareRunDir
    <3>2. CASE x # w
      <4>1. worker'[x] = worker[x]
        BY <1>9, <3>2
      <4>2. HasDir(x) => worker[x].dir \in DOMAIN dirs
        BY DEF RunsInv, OwnDir
      <4>3. HasDir(x) => dirs'[worker[x].dir] = dirs[worker[x].dir]
        BY <1>11, <4>2
      <4> QED
        BY <4>1, <4>3 DEF AwaitsCopy, HasDir
    <3> QED
      BY <3>1, <3>2
  <2>2. worker'[x].combo = worker[x].combo
    BY <1>9, <1>10
  <2> QED
    BY <1>4, <1>15, <2>1, <2>2 DEF RunsInv, OwnConfig
<1>17. CopyKept'
  <2>1. \A e \in DOMAIN dirs : \A u \in dirs[e].users : u[1] \in Workers
    BY DEF RunsInv, OneUser
  <2> QED
    BY <1>7, <1>11, <1>15, <2>1 DEF RunsInv, CopyKept
<1> QED
  BY <1>12, <1>13, <1>14, <1>16, <1>17 DEF RunsInv

\* write_result copies the configuration first, from the file the run was started with.
LEMMA WriteResultKeeps == ASSUME RunsInv, NEW w \in Workers, WriteResult(w) PROVE RunsInv'
<1>1. dirs \in [DOMAIN dirs -> RunDir] /\ cfg_files \in [Workers \cup {SharedFile} -> Config]
  BY DEF RunsInv, RunsTypeOK
<1> DEFINE d == worker[w].dir
<1>2. HasDir(w) /\ d \in DOMAIN dirs /\ dirs[d].users = {<<w, worker[w].combo>>}
  BY DEF WriteResult, HasDir, RunsInv, OwnDir
<1>3. UNCHANGED <<worker, cfg_files, second>>
  BY DEF WriteResult
<1>4. PICK config \in Config, k \in Nat :
         /\ dirs' = [dirs EXCEPT ![d] = [dirs[d] EXCEPT !.written = k, !.config = config]]
         /\ config = IF dirs[d].written = 0 THEN cfg_files[PathOf(w)] ELSE dirs[d].config
         /\ k = dirs[d].written + 1
  <2>1. dirs[d].written + 1 \in Nat /\ dirs[d].config \in Config
    BY <1>1, <1>2 DEF RunDir
  <2>2. (IF dirs[d].written = 0 THEN cfg_files[PathOf(w)] ELSE dirs[d].config) \in Config
    BY <1>1, <2>1 DEF PathOf
  <2>3. dirs' = [dirs EXCEPT ![d] = [dirs[d] EXCEPT !.written = dirs[d].written + 1,
           !.config = IF dirs[d].written = 0 THEN cfg_files[PathOf(w)] ELSE dirs[d].config]]
    BY <1>1, <1>2 DEF WriteResult
  <2> QED
    BY <2>1, <2>2, <2>3
<1>5. [dirs[d] EXCEPT !.written = k, !.config = config] \in RunDir
  BY <1>1, <1>2 DEF RunDir
<1>6. /\ DOMAIN dirs' = DOMAIN dirs /\ \A e \in DOMAIN dirs \ {d} : dirs'[e] = dirs[e]
      /\ dirs' \in [DOMAIN dirs -> RunDir]
      /\ dirs'[d] = [dirs[d] EXCEPT !.written = k, !.config = config]
  BY <1>1, <1>2, <1>4, <1>5
<1>7. dirs'[d].users = dirs[d].users /\ dirs'[d].config = config /\ dirs'[d].written = k
  BY <1>1, <1>2, <1>6 DEF RunDir
<1>8. config = <<w, worker[w].combo>> \/ Exempt(w)
  <2>1. CASE dirs[d].written = 0
    <3>1. AwaitsCopy(w)
      BY <2>1 DEF AwaitsCopy, WriteResult
    <3> QED
      BY <1>4, <2>1, <3>1 DEF RunsInv, OwnConfig
  <2>2. CASE dirs[d].written # 0
    <3>1. dirs[d].written > 0
      BY <1>1, <1>2, <2>2 DEF RunDir
    <3>2. <<w, worker[w].combo>> \in dirs[d].users
      BY <1>2
    <3> QED
      BY <1>2, <1>4, <2>2, <3>1, <3>2 DEF RunsInv, CopyKept
  <2> QED
    BY <2>1, <2>2
<1> HIDE DEF d
<1>9. RunsTypeOK'
  BY <1>3, <1>6 DEF RunsInv, RunsTypeOK
<1>10. OneUser'
  <2>1. \A e \in DOMAIN dirs : dirs'[e].users = dirs[e].users
    BY <1>6, <1>7
  <2> QED
    BY <1>6, <2>1 DEF RunsInv, OneUser
<1>11. OwnDir'
  BY <1>3, <1>6, <1>7 DEF RunsInv, OwnDir, HasDir
<1>12. \A x : Exempt(x)' <=> Exempt(x)
  BY <1>3 DEF Exempt, IsMt4
<1>13. OwnConfig'
  <2> SUFFICES ASSUME NEW x \in Workers, AwaitsCopy(x)'
               PROVE  cfg_files[PathOf(x)] = <<x, worker[x].combo>> \/ Exempt(x)
    BY <1>3, <1>12 DEF OwnConfig, PathOf, IsMt4
  <2>1. AwaitsCopy(x)
    <3>1. CASE worker[x].at = "writing"
      <4>1. worker[x].dir \in DOMAIN dirs
        BY <3>1 DEF RunsInv, OwnDir, HasDir
      <4>2. dirs'[worker[x].dir].written = 0
        BY <1>3, <3>1 DEF AwaitsCopy
      <4>3. dirs'[d].written # 0
        <5>1. dirs[d].written \in Nat
          BY <1>1, <1>2 DEF RunDir
        <5> QED
          BY <1>4, <1>7, <5>1
      <4> QED
        BY <1>6, <3>1, <4>1, <4>2, <4>3 DEF AwaitsCopy
    <3>2. CASE worker[x].at # "writing"
      BY <1>3, <3>2 DEF AwaitsCopy
    <3> QED
      BY <3>1, <3>2
  <2> QED
    BY <2>1 DEF RunsInv, OwnConfig
<1>14. CopyKept'
  <2>1. \A u \in dirs'[d].users : u = <<w, worker[w].combo>> /\ u[1] = w
    BY <1>2, <1>7
  <2>2. \A u \in dirs'[d].users : dirs'[d].config = u \/ Exempt(u[1])'
    BY <1>7, <1>8, <1>12, <2>1
  <2>3. \A e \in DOMAIN dirs \ {d} : \A u \in dirs'[e].users :
           dirs'[e].written > 0 => dirs'[e].config = u \/ Exempt(u[1])'
    BY <1>6, <1>12 DEF RunsInv, CopyKept
  <2> QED
    BY <1>6, <2>2, <2>3 DEF CopyKept
<1> QED
  BY <1>9, <1>10, <1>11, <1>13, <1>14 DEF RunsInv

\* A run has returned; an optimization goes on with the next combination.
LEMMA RunReturnsKeeps == ASSUME RunsInv, NEW w \in Workers, RunReturns(w) PROVE RunsInv'
<1>1. worker \in [Workers -> Backtest]
  BY DEF RunsInv, RunsTypeOK
<1>2. PICK at \in {"configure", "completed"}, i \in Int, all \in Seq(Names \cup {NoDir}) :
         worker' = [worker EXCEPT ![w] = [worker[w] EXCEPT !.rows = all, !.at = at, !.combo = i]]
  <2>1. worker[w].combo \in Int /\ worker[w].rows \in Seq(Names \cup {NoDir}) /\ worker[w].dir \in Names \cup {NoDir}
    BY <1>1 DEF Backtest
  <2>2. Append(worker[w].rows, worker[w].dir) \in Seq(Names \cup {NoDir}) /\ worker[w].combo + 1 \in Int
    BY <2>1
  <2> DEFINE more == worker[w].mode = "optimization" /\ worker[w].combo < Combos
  <2>3. worker' = [worker EXCEPT ![w] =
           [worker[w] EXCEPT !.rows = Append(worker[w].rows, worker[w].dir),
                             !.at = IF more THEN "configure" ELSE "completed",
                             !.combo = IF more THEN worker[w].combo + 1 ELSE worker[w].combo]]
    BY <1>1 DEF RunReturns
  <2>4. CASE more
    BY <2>2, <2>3, <2>4
  <2>5. CASE ~more
    BY <2>1, <2>2, <2>3, <2>5
  <2> QED
    BY <2>4, <2>5
<1>3. [worker[w] EXCEPT !.rows = all, !.at = at, !.combo = i] \in Backtest
  BY <1>1 DEF Backtest, Places
<1>4. worker' \in [Workers -> Backtest] /\ \A x \in Workers \ {w} : worker'[x] = worker[x]
  BY <1>1, <1>2, <1>3
<1>5. worker'[w].at = at /\ worker'[w].disturbed = worker[w].disturbed
  BY <1>1, <1>2 DEF Backtest
<1> QED
  BY <1>4, <1>5, OneMoves DEF RunReturns, HasDir, AwaitsCopy

\* Each step of a worker, of a window and of the clock keeps it.
LEMMA RunsStep == RunsInv /\ [RunsNext]_runVars => RunsInv'
<1> SUFFICES ASSUME RunsInv, [RunsNext]_runVars PROVE RunsInv'
  OBVIOUS
<1>1. ASSUME NEW w \in Workers, StartRun(w) \/ StartBacktest(w) PROVE RunsInv'
  BY <1>1, StartRunKeeps, PlaceMoves DEF StartBacktest, Places
<1>2. ASSUME NEW w \in Workers, WorkerStep(w) PROVE RunsInv'
  <2>1. CASE EngineReturns(w)
    BY <2>1, PlaceMoves DEF EngineReturns, Places, HasDir
  <2>2. CASE RunRaises(w)
    BY <2>2, PlaceMoves DEF RunRaises, Places
  <2> QED
    BY <1>2, <2>1, <2>2, WriteConfigKeeps, PrepareRunDirKeeps, WriteResultKeeps, RunReturnsKeeps DEF WorkerStep
<1>3. ASSUME NEW w \in Workers, SlotStep(w) PROVE RunsInv'
  <2>1. PICK at \in {"handled", "over"} : Goes(w, at)
    BY <1>3 DEF SlotStep, HandleCompleted, HandleFailed, Finished, Handled
  <2>2. UNCHANGED <<dirs, cfg_files, second>>
    BY <1>3 DEF SlotStep, HandleCompleted, HandleFailed, Finished
  <2> QED
    BY <2>1, <2>2, PlaceMoves DEF Places
<1>4. CASE \E v \in Windows, e \in DOMAIN dirs : LoadRunDir(v, e)
  <2>1. UNCHANGED <<worker, dirs, cfg_files, second>>
    BY <1>4 DEF LoadRunDir
  <2> QED
    BY <2>1 DEF RunsInv, RunsTypeOK, OneUser, OwnDir, OwnConfig, CopyKept, HasDir, AwaitsCopy, Exempt, PathOf, IsMt4
<1>5. CASE ClockTicks
  BY <1>5 DEF ClockTicks, RunsInv, RunsTypeOK, OneUser, OwnDir, OwnConfig, CopyKept, HasDir, AwaitsCopy, Exempt, PathOf, IsMt4
<1>6. CASE UNCHANGED runVars
  BY <1>6 DEF runVars, RunsInv, RunsTypeOK, OneUser, OwnDir, OwnConfig, CopyKept, HasDir, AwaitsCopy, Exempt, PathOf, IsMt4
<1> QED
  BY <1>1, <1>2, <1>3, <1>4, <1>5, <1>6 DEF RunsNext

-----------------------------------------------------------------------------
\* No two backtests, and no two combinations of an optimization, write into one directory,
\* and the config.yaml kept there is the one that this combination of this run was made
\* with (writer.py, prepare_run_dir and write_result) - of a simple window's run, unless
\* another one overwrote the shared runtime file between its write and its copy.
THEOREM RunsNeverMix == RunsSpec => []RunsAreSeparate
<1>1. RunsInv => RunsAreSeparate
  <2> SUFFICES ASSUME RunsInv PROVE RunsAreSeparate
    OBVIOUS
  <2>1. ASSUME NEW d \in DOMAIN dirs PROVE Cardinality(dirs[d].users) = 1
    <3>1. PICK u : dirs[d].users = {u}
      BY DEF RunsInv, OneUser
    <3> QED
      BY <3>1, FS_Singleton
  <2> QED
    BY <2>1 DEF RunsInv, CopyKept, Exempt, RunsAreSeparate
<1>2. RunsSpec => []RunsInv
  BY RunsInitial, RunsStep, PTL DEF RunsSpec
<1> QED
  BY <1>1, <1>2, PTL

-----------------------------------------------------------------------------
\* What a window shows.

\* Its last combination, of which a backtest that completed has the directory.
LastCombo(w) == IF worker[w].mode = "optimization" THEN Combos ELSE 1
Reported(w) == Len(worker[w].rows) = LastCombo(w) /\ worker[w].dir = worker[w].rows[LastCombo(w)]

AtWork == {"new", "configure", "place", "running", "writing"}
Tallied(w) ==
    /\ worker[w].combo \in 1 .. Combos /\ (worker[w].mode = "single" => worker[w].combo = 1)
    /\ worker[w].at = "new" => worker[w].combo = 1
    /\ worker[w].at \in AtWork => Len(worker[w].rows) = worker[w].combo - 1
    /\ worker[w].at = "completed" => Reported(w)
RowsWhole(w) ==
    \A i \in DOMAIN worker[w].rows :
        LET d == worker[w].rows[i] IN
        d \in DOMAIN dirs /\ dirs[d].written = LastFile /\ <<w, i>> \in dirs[d].users

Window == [run_btn : BOOLEAN, open_btn : BOOLEAN, current : Names \cup {NoDir},
           term : {"idle", "running", "done", "failed"}, shown_by : Workers \cup {NoWorker}]
Showing(v) ==
    LET by == window[v].shown_by IN
    by # NoWorker => /\ worker[by].at \in {"handled", "over"}
                     /\ Reported(by) /\ window[v].current = worker[by].dir
Buttons(v) == KindOf[v] = "mt4" => (window[v].open_btn <=> window[v].current # NoDir)

IsSimple(v) == KindOf[v] # "mt4"

WindowInv ==
    /\ RunsInv
    /\ \A w \in Workers : Tallied(w) /\ RowsWhole(w)
    /\ window \in [Windows -> Window]
    /\ \A v \in Windows : Showing(v) /\ Buttons(v)

-----------------------------------------------------------------------------
\* A directory that has been written to its last file is left alone.
LEMMA WholeStays ==
    ASSUME RunsInv, [RunsNext]_runVars, NEW d \in DOMAIN dirs, dirs[d].written = LastFile
    PROVE  d \in DOMAIN dirs' /\ dirs'[d] = dirs[d]
<1>1. dirs \in [DOMAIN dirs -> RunDir]
  BY DEF RunsInv, RunsTypeOK
<1>2. CASE \E w \in Workers : PrepareRunDir(w)
  <2>1. PICK w \in Workers, n \in Int : FreeAttempt(<<second, Tag(w)>>, n) /\ MakesDir(w, <<<<second, Tag(w)>>, n>>)
    BY <1>2 DEF PrepareRunDir
  <2> QED
    BY <2>1 DEF FreeAttempt, MakesDir
<1>3. CASE \E w \in Workers : WriteResult(w)
  <2>1. PICK w \in Workers : WriteResult(w)
    BY <1>3
  <2>2. PICK e \in DOMAIN dirs : \E new :
           e = worker[w].dir /\ dirs[e].written < LastFile /\ dirs' = [dirs EXCEPT ![e] = new]
    <3> DEFINE e == worker[w].dir
               new == [dirs[e] EXCEPT !.written = dirs[e].written + 1,
                         !.config = IF dirs[e].written = 0 THEN cfg_files[PathOf(w)] ELSE dirs[e].config]
    <3>1. e \in DOMAIN dirs /\ dirs[e].written < LastFile
      BY <2>1 DEF WriteResult, HasDir, RunsInv, OwnDir
    <3>2. dirs' = [dirs EXCEPT ![e] = new]
      BY <1>1, <2>1, <3>1 DEF WriteResult
    <3> HIDE DEF new
    <3> QED
      BY <3>1, <3>2
  <2>3. e # d
    BY <2>2 DEF LastFile
  <2> QED
    BY <1>1, <2>2, <2>3
<1>4. CASE UNCHANGED dirs
  BY <1>4
<1> QED
  BY <1>2, <1>3, <1>4 DEF RunsNext, runVars, StartRun, StartBacktest, WorkerStep, SlotStep, WriteConfig,
     EngineReturns, RunRaises, RunReturns, HandleCompleted, HandleFailed, Finished, LoadRunDir, ClockTicks

\* What a step does to one backtest: it moves, its mode is chosen, it gets a directory or it
\* has finished a combination.
SameRun(w) == /\ worker'[w].mode = worker[w].mode /\ worker'[w].combo = worker[w].combo
              /\ worker'[w].dir = worker[w].dir /\ worker'[w].rows = worker[w].rows
Moves(w) == /\ SameRun(w)
            /\ worker'[w].at \in AtWork => worker[w].at \in AtWork
            /\ worker'[w].at = "new" => worker[w].at = "new"
            /\ worker'[w].at = "completed" => worker[w].at = "completed"
            /\ worker[w].at \in {"handled", "over"} => worker'[w].at \in {"handled", "over"}
Chosen(w) == /\ worker[w].at = "new" /\ worker'[w].at = "configure"
             /\ worker'[w].combo = worker[w].combo /\ worker'[w].rows = worker[w].rows
Placed(w) == /\ worker[w].at = "place" /\ worker'[w].at = "running" /\ worker'[w].mode = worker[w].mode
             /\ worker'[w].combo = worker[w].combo /\ worker'[w].rows = worker[w].rows
Returned(w) ==
    LET more == worker[w].mode = "optimization" /\ worker[w].combo < Combos IN
    /\ worker[w].at = "writing" /\ Written(worker[w].dir)
    /\ worker'[w].mode = worker[w].mode /\ worker'[w].dir = worker[w].dir
    /\ worker'[w].rows = Append(worker[w].rows, worker[w].dir)
    /\ worker'[w].at = IF more THEN "configure" ELSE "completed"
    /\ worker'[w].combo = IF more THEN worker[w].combo + 1 ELSE worker[w].combo

\* A new position changes nothing else of a backtest.
LEMMA EXCEPTed ==
    ASSUME NEW S, NEW f \in [S -> Backtest], NEW w \in S, NEW x \in S, NEW at
    PROVE  LET g == [f EXCEPT ![w].at = at] IN
           /\ g[x].mode = f[x].mode /\ g[x].combo = f[x].combo /\ g[x].dir = f[x].dir /\ g[x].rows = f[x].rows
           /\ g[x].at = IF x = w THEN at ELSE f[x].at
BY DEF Backtest

\* Every step does one of these to a backtest.
LEMMA WorkerMoves ==
    ASSUME RunsInv, [RunsNext]_runVars, NEW w \in Workers
    PROVE  Moves(w) \/ Chosen(w) \/ Placed(w) \/ Returned(w)
<1>1. worker \in [Workers -> Backtest]
  BY DEF RunsInv, RunsTypeOK
<1>2. ASSUME NEW x \in Workers, NEW at, Goes(x, at),
             x = w => /\ at \in AtWork => worker[x].at \in AtWork
                      /\ at = "new" => worker[x].at = "new"
                      /\ at = "completed" => worker[x].at = "completed"
                      /\ worker[x].at \in {"handled", "over"} => at \in {"handled", "over"}
      PROVE  Moves(w)
  BY <1>1, <1>2, EXCEPTed DEF Goes, Moves, SameRun
<1>3. ASSUME NEW x \in Workers, StartRun(x) PROVE Moves(w) \/ Chosen(w)
  <2>1. PICK mode : worker[x].at = "new" /\ worker' = [worker EXCEPT ![x] = [worker[x] EXCEPT !.at = "configure", !.mode = mode]]
    BY <1>1, <1>3 DEF StartRun
  <2>2. CASE x = w
    BY <1>1, <2>1, <2>2 DEF Chosen, Backtest
  <2>3. CASE x # w
    BY <1>1, <2>1, <2>3 DEF Moves, SameRun
  <2> QED
    BY <2>2, <2>3
<1>4. ASSUME NEW x \in Workers, StartBacktest(x) PROVE Moves(w)
  BY <1>2, <1>4 DEF StartBacktest, AtWork
<1>5. ASSUME NEW x \in Workers, WriteConfig(x) PROVE Moves(w)
  <2>1. /\ worker[x].at = "configure"
        /\ worker'[w] = IF w = x THEN [worker[w] EXCEPT !.at = "place"]
                        ELSE IF PathOf(w) = PathOf(x) /\ AwaitsCopy(w) THEN [worker[w] EXCEPT !.disturbed = TRUE]
                        ELSE worker[w]
    BY <1>5 DEF WriteConfig
  <2>2. SameRun(w) /\ worker'[w].at = IF w = x THEN "place" ELSE worker[w].at
    BY <1>1, <2>1 DEF SameRun, Backtest
  <2> QED
    BY <2>1, <2>2 DEF Moves, AtWork
<1>6. ASSUME NEW x \in Workers, PrepareRunDir(x) PROVE Moves(w) \/ Placed(w)
  <2>1. PICK d : worker[x].at = "place" /\ worker' = [worker EXCEPT ![x] = [worker[x] EXCEPT !.at = "running", !.dir = d]]
    BY <1>1, <1>6 DEF PrepareRunDir, MakesDir
  <2>2. CASE x = w
    BY <1>1, <2>1, <2>2 DEF Placed, Backtest
  <2>3. CASE x # w
    BY <1>1, <2>1, <2>3 DEF Moves, SameRun
  <2> QED
    BY <2>2, <2>3
<1>7. ASSUME NEW x \in Workers, EngineReturns(x) \/ RunRaises(x) PROVE Moves(w)
  BY <1>2, <1>7 DEF EngineReturns, RunRaises, AtWork
<1>8. ASSUME NEW x \in Workers, RunReturns(x) PROVE Moves(w) \/ Returned(w)
  <2> DEFINE more == worker[x].mode = "optimization" /\ worker[x].combo < Combos
             done == [worker[x] EXCEPT !.rows = Append(worker[x].rows, worker[x].dir),
                                       !.at = IF more THEN "configure" ELSE "completed",
                                       !.combo = IF more THEN worker[x].combo + 1 ELSE worker[x].combo]
  <2>1. worker' = [worker EXCEPT ![x] = done] /\ worker[x].at = "writing" /\ Written(worker[x].dir)
    BY <1>1, <1>8 DEF RunReturns
  <2>2. CASE x = w
    <3>1. worker'[w] = done
      BY <1>1, <2>1, <2>2
    <3>2. /\ done.mode = worker[x].mode /\ done.dir = worker[x].dir
          /\ done.rows = Append(worker[x].rows, worker[x].dir)
          /\ done.at = IF more THEN "configure" ELSE "completed"
          /\ done.combo = IF more THEN worker[x].combo + 1 ELSE worker[x].combo
      BY <1>1 DEF Backtest
    <3> HIDE DEF done
    <3> QED
      BY <2>1, <2>2, <3>1, <3>2 DEF Returned
  <2>3. CASE x # w
    BY <1>1, <2>1, <2>3 DEF Moves, SameRun
  <2> QED
    BY <2>2, <2>3
<1>9. ASSUME NEW x \in Workers, WriteResult(x) PROVE Moves(w)
  BY <1>9 DEF WriteResult, Moves, SameRun
<1>10. ASSUME NEW x \in Workers, SlotStep(x) PROVE Moves(w)
  BY <1>2, <1>10 DEF SlotStep, HandleCompleted, HandleFailed, Finished, Handled, AtWork
<1>11. CASE UNCHANGED worker
  BY <1>11 DEF Moves, SameRun
<1> QED
  BY <1>3, <1>4, <1>5, <1>6, <1>7, <1>8, <1>9, <1>10, <1>11 DEF RunsNext, runVars, WorkerStep, LoadRunDir, ClockTicks

\* A combination that has finished is counted, its directory is whole and its own.
LEMMA RunsCounted ==
    ASSUME RunsInv, [RunsNext]_runVars, RunsInv', NEW w \in Workers, Tallied(w), RowsWhole(w)
    PROVE  /\ Tallied(w)' /\ RowsWhole(w)'
           /\ Moves(w) /\ Reported(w) => Reported(w)'
<1>1. /\ worker[w] \in Backtest /\ worker'[w] \in Backtest
      /\ worker[w].rows \in Seq(Names \cup {NoDir}) /\ Len(worker[w].rows) \in Nat /\ worker[w].dir \in Names \cup {NoDir}
      /\ worker[w].combo \in Int
      /\ worker[w].mode \in {"single", "optimization"} /\ worker'[w].mode \in {"single", "optimization"}
  BY SMTT(30) DEF RunsInv, RunsTypeOK, Backtest
<1>2. ASSUME worker'[w].rows = worker[w].rows PROVE RowsWhole(w)'
  BY <1>2, WholeStays DEF RowsWhole
<1>3. CASE Moves(w)
  BY <1>2, <1>3 DEF Moves, SameRun, Tallied, Reported, LastCombo
<1>4. CASE Chosen(w)
  <2>1. Tallied(w)' /\ RowsWhole(w)'
    BY <1>2, <1>4 DEF Chosen, Tallied, AtWork
  <2> QED
    BY <2>1 DEF Moves, SameRun, Reported, LastCombo
<1>5. CASE Placed(w)
  <2>1. Tallied(w)' /\ RowsWhole(w)'
    BY <1>2, <1>5 DEF Placed, Tallied, AtWork
  <2> QED
    BY <2>1 DEF Moves, SameRun, Reported, LastCombo
<1>6. CASE Returned(w)
  <2> DEFINE rows == worker[w].rows
             d == worker[w].dir
             n == worker[w].combo
             more == worker[w].mode = "optimization" /\ worker[w].combo < Combos
  <2>1. /\ worker[w].at = "writing" /\ Len(rows) = n - 1 /\ n \in 1 .. Combos
        /\ d \in DOMAIN dirs /\ dirs[d].written = LastFile /\ <<w, n>> \in dirs[d].users
    BY <1>6 DEF Returned, Tallied, AtWork, RunsInv, OwnDir, HasDir, Written
  <2>2. /\ worker'[w].rows = Append(rows, d) /\ worker'[w].dir = d /\ worker'[w].mode = worker[w].mode
        /\ worker'[w].at = IF more THEN "configure" ELSE "completed"
        /\ worker'[w].combo = IF more THEN n + 1 ELSE n
    BY <1>6 DEF Returned
  <2>3. /\ DOMAIN rows = 1 .. n - 1 /\ DOMAIN Append(rows, d) = 1 .. n /\ Len(Append(rows, d)) = n
        /\ Append(rows, d)[n] = d /\ \A i \in 1 .. n - 1 : Append(rows, d)[i] = rows[i]
    BY <1>1, <2>1
  <2>4. d \in DOMAIN dirs' /\ dirs'[d] = dirs[d]
    BY <2>1, WholeStays
  <2>5. \A i \in 1 .. n - 1 : rows[i] \in DOMAIN dirs' /\ dirs'[rows[i]] = dirs[rows[i]]
    BY <2>3, WholeStays DEF RowsWhole
  <2>6. RowsWhole(w)'
    <3>1. \A i \in 1 .. n : i = n \/ i \in 1 .. n - 1
      BY <2>1
    <3> QED
      BY SMTT(30), <2>1, <2>2, <2>3, <2>4, <2>5, <3>1 DEF RowsWhole
  <2>7. Tallied(w)'
    <3>1. CASE more
      <4>1. worker'[w].combo = n + 1 /\ worker'[w].at = "configure" /\ worker'[w].mode = "optimization" /\ n < Combos
        BY <2>2, <3>1
      <4>2. n + 1 \in 1 .. Combos /\ n + 1 - 1 = n /\ Len(worker'[w].rows) = n
        BY <2>1, <2>2, <2>3, <4>1, RunsAssumption
      <4> QED
        BY <4>1, <4>2 DEF Tallied
    <3>2. CASE ~more
      <4>1. n = LastCombo(w) /\ LastCombo(w)' = LastCombo(w)
        BY <1>1, <2>1, <2>2, <3>2, RunsAssumption DEF LastCombo, Tallied
      <4>2. Reported(w)'
        BY <2>2, <2>3, <4>1 DEF Reported
      <4> QED
        BY <1>1, <2>1, <2>2, <3>2, <4>2 DEF Tallied, AtWork
    <3> QED
      BY <3>1, <3>2
  <2>8. ~Moves(w)
    BY <2>2, <2>3, <1>1, <2>1 DEF Moves, SameRun
  <2> QED
    BY <2>6, <2>7, <2>8
<1> QED
  BY <1>3, <1>4, <1>5, <1>6, WorkerMoves

\* A run that is reported has a directory.
LEMMA ReportedDir ==
    ASSUME RunsInv, NEW w \in Workers, worker[w].at = "completed", Tallied(w), RowsWhole(w)
    PROVE  worker[w].dir # NoDir
<1>1. LastCombo(w) \in 1 .. Combos /\ worker[w].rows \in Seq(Names \cup {NoDir})
  BY RunsAssumption DEF LastCombo, RunsInv, RunsTypeOK, Backtest
<1>2. LastCombo(w) \in DOMAIN worker[w].rows /\ worker[w].dir = worker[w].rows[LastCombo(w)]
  BY <1>1 DEF Tallied, Reported
<1>3. worker[w].dir \in Names
  BY <1>2 DEF RowsWhole, RunsInv, RunsTypeOK
<1> QED
  BY <1>3, RunsAssumption DEF Names

\* What a step does to one window.
WindowChange(v) ==
    \/ window'[v] = window[v]
    \/ IsSimple(v) /\ window'[v].current = window[v].current /\ window'[v].shown_by = window[v].shown_by
    \/ window'[v].open_btn = FALSE /\ window'[v].current = NoDir /\ window'[v].shown_by = NoWorker
    \/ window'[v].shown_by = NoWorker /\ (window'[v].open_btn <=> window'[v].current # NoDir)
    \/ /\ window'[v].open_btn = window[v].open_btn
       /\ window'[v].current = window[v].current /\ window'[v].shown_by = window[v].shown_by
    \/ \E w \in Workers :
          /\ worker[w].at = "completed" /\ worker'[w].at \in {"handled", "over"}
          /\ window'[v].shown_by = w /\ window'[v].current = worker[w].dir
          /\ window'[v].open_btn <=> worker[w].dir # NoDir

\* Every step does one of these to a window.
LEMMA WindowChanges ==
    ASSUME WindowInv, [RunsNext]_runVars
    PROVE  window' \in [Windows -> Window] /\ \A v \in Windows : WindowChange(v)
<1>1. window \in [Windows -> Window] /\ \A w \in Workers : WindowOf[w] \in Windows
  BY DEF WindowInv, Windows
<1>2. worker \in [Workers -> Backtest]
  BY DEF WindowInv, RunsInv, RunsTypeOK
<1>3. ASSUME NEW v \in Windows, NEW new \in Window, window' = [window EXCEPT ![v] = new], WindowChange(v)
      PROVE  window' \in [Windows -> Window] /\ \A u \in Windows : WindowChange(u)
  BY <1>1, <1>3 DEF WindowChange
<1>4. ASSUME UNCHANGED window PROVE window' \in [Windows -> Window] /\ \A u \in Windows : WindowChange(u)
  BY <1>1, <1>4 DEF WindowChange
<1>5. ASSUME NEW v \in Windows, NEW d \in Names \cup {NoDir}, NEW by \in Workers \cup {NoWorker}, Shows(v, d, by)
      PROVE  \E new \in Window : /\ window' = [window EXCEPT ![v] = new] /\ new.current = d /\ new.shown_by = by
                                 /\ new.open_btn <=> d # NoDir
  <2> DEFINE shown == [window[v] EXCEPT !.current = d, !.open_btn = d # NoDir, !.term = "done", !.shown_by = by]
  <2>1. window[v] \in Window
    BY <1>1
  <2>2. shown \in Window /\ shown.current = d /\ shown.shown_by = by /\ (shown.open_btn <=> d # NoDir)
    BY <1>5, <2>1 DEF Window
  <2>3. window' = [window EXCEPT ![v] = shown]
    BY <1>1, <1>5 DEF Shows
  <2> HIDE DEF shown
  <2> QED
    BY <2>2, <2>3
<1>6. ASSUME NEW w \in Workers, StartRun(w) PROVE window' \in [Windows -> Window] /\ \A u \in Windows : WindowChange(u)
  <2> DEFINE new == [run_btn |-> FALSE, open_btn |-> FALSE, current |-> NoDir, term |-> "running", shown_by |-> NoWorker]
  <2>1. new \in Window
    BY DEF Window
  <2>2. window' = [window EXCEPT ![WindowOf[w]] = new]
    BY <1>6 DEF StartRun
  <2>3. WindowChange(WindowOf[w])
    BY <1>1, <2>2 DEF WindowChange
  <2> QED
    BY <1>1, <1>3, <2>1, <2>2, <2>3
<1>7. ASSUME NEW w \in Workers, StartBacktest(w) PROVE window' \in [Windows -> Window] /\ \A u \in Windows : WindowChange(u)
  <2> DEFINE v == WindowOf[w]
             new == [window[v] EXCEPT !.run_btn = FALSE, !.open_btn = FALSE, !.term = "running"]
  <2>1. new \in Window /\ new.current = window[v].current /\ new.shown_by = window[v].shown_by
    BY <1>1 DEF Window
  <2>2. window' = [window EXCEPT ![v] = new] /\ IsSimple(v)
    BY <1>1, <1>7 DEF StartBacktest, IsMt4, IsSimple
  <2>3. WindowChange(v)
    BY <1>1, <2>1, <2>2 DEF WindowChange
  <2> QED
    BY <1>1, <1>3, <2>1, <2>2, <2>3
<1>8. ASSUME NEW w \in Workers, HandleCompleted(w) PROVE window' \in [Windows -> Window] /\ \A u \in Windows : WindowChange(u)
  <2> DEFINE v == WindowOf[w]
             d == worker[w].dir
  <2>1. d \in Names \cup {NoDir} /\ worker[w].at = "completed" /\ worker'[w].at \in {"handled", "over"}
    BY <1>2, <1>8 DEF HandleCompleted, Handled, Goes, Backtest
  <2>2. PICK new \in Window : /\ window' = [window EXCEPT ![v] = new] /\ new.current = d /\ new.shown_by = w
                              /\ new.open_btn <=> d # NoDir
    <3>1. CASE IsMt4(w)
      <4>1. Shows(v, d, w) /\ v \in Windows
        BY <1>1, <1>8, <3>1 DEF HandleCompleted
      <4> HIDE DEF v, d
      <4> QED
        BY <1>5, <2>1, <4>1
    <3>2. CASE ~IsMt4(w)
      <4> DEFINE shown == [run_btn |-> TRUE, open_btn |-> TRUE, current |-> d, term |-> "done", shown_by |-> w]
      <4>1. window' = [window EXCEPT ![v] = shown]
        BY <1>8, <3>2 DEF HandleCompleted
      <4>2. shown \in Window
        BY <2>1 DEF Window
      <4>3. d # NoDir
        BY <2>1, ReportedDir DEF WindowInv
      <4> QED
        BY <4>1, <4>2, <4>3
    <3> QED
      BY <3>1, <3>2
  <2>3. WindowChange(v)
    BY <1>1, <2>1, <2>2 DEF WindowChange
  <2> QED
    BY <1>1, <1>3, <2>2, <2>3
<1>9. ASSUME NEW w \in Workers, HandleFailed(w) PROVE window' \in [Windows -> Window] /\ \A u \in Windows : WindowChange(u)
  <2> DEFINE v == WindowOf[w]
             new == [window[v] EXCEPT !.term = "failed", !.run_btn = IF KindOf[v] = "simple" THEN TRUE ELSE window[v].run_btn,
                                      !.open_btn = IF KindOf[v] = "simple" THEN FALSE ELSE window[v].open_btn]
  <2>1. window[v] \in Window
    BY <1>1
  <2>2. /\ new \in Window /\ new.current = window[v].current /\ new.shown_by = window[v].shown_by
        /\ KindOf[v] # "simple" => new.open_btn = window[v].open_btn
    BY <2>1 DEF Window
  <2>3. window' = [window EXCEPT ![v] = new]
    BY <1>1, <1>9 DEF HandleFailed, Failed
  <2> HIDE DEF new
  <2>4. WindowChange(v)
    BY <1>1, <2>2, <2>3 DEF WindowChange, IsSimple
  <2> QED
    BY <1>1, <1>3, <2>2, <2>3, <2>4
<1>10. ASSUME NEW w \in Workers, Finished(w) PROVE window' \in [Windows -> Window] /\ \A u \in Windows : WindowChange(u)
  <2> DEFINE v == WindowOf[w]
             new == [window[v] EXCEPT !.run_btn = TRUE]
  <2>1. /\ new \in Window /\ new.current = window[v].current /\ new.shown_by = window[v].shown_by
        /\ new.open_btn = window[v].open_btn
    BY <1>1 DEF Window
  <2>2. window' = [window EXCEPT ![v] = new]
    BY <1>1, <1>10 DEF Finished
  <2> HIDE DEF new
  <2>3. WindowChange(v)
    BY <1>1, <2>1, <2>2 DEF WindowChange
  <2> QED
    BY <1>1, <1>3, <2>1, <2>2, <2>3
<1>11. ASSUME NEW v \in Windows, NEW d \in DOMAIN dirs, LoadRunDir(v, d)
       PROVE  window' \in [Windows -> Window] /\ \A u \in Windows : WindowChange(u)
  <2>1. d \in Names
    BY DEF WindowInv, RunsInv, RunsTypeOK
  <2>2. PICK new \in Window : /\ window' = [window EXCEPT ![v] = new] /\ new.current = d /\ new.shown_by = NoWorker
                              /\ new.open_btn <=> d # NoDir
    BY <1>5, <1>11, <2>1 DEF LoadRunDir
  <2>3. WindowChange(v)
    BY <1>1, <2>2 DEF WindowChange
  <2> QED
    BY <1>3, <2>2, <2>3
<1> QED
  BY <1>4, <1>6, <1>7, <1>8, <1>9, <1>10, <1>11 DEF RunsNext, runVars, WorkerStep, SlotStep, WriteConfig, PrepareRunDir,
     EngineReturns, RunRaises, WriteResult, RunReturns, ClockTicks

\* Each step keeps what the windows show whole.
LEMMA WindowStep == WindowInv /\ [RunsNext]_runVars => WindowInv'
<1> SUFFICES ASSUME WindowInv, [RunsNext]_runVars PROVE WindowInv'
  OBVIOUS
<1>1. RunsInv /\ RunsInv'
  BY RunsStep DEF WindowInv
<1>2. \A w \in Workers : Tallied(w)' /\ RowsWhole(w)' /\ (Moves(w) /\ Reported(w) => Reported(w)')
  BY <1>1, RunsCounted DEF WindowInv
<1>3. ASSUME NEW w \in Workers, worker[w].at \in {"handled", "over"}, Reported(w)
      PROVE  worker'[w].at \in {"handled", "over"} /\ Reported(w)' /\ worker'[w].dir = worker[w].dir
  BY <1>1, <1>2, <1>3, WorkerMoves DEF Moves, SameRun, Chosen, Placed, Returned
<1>4. ASSUME NEW w \in Workers, worker[w].at = "completed", worker'[w].at \in {"handled", "over"}
      PROVE  Reported(w)' /\ worker'[w].dir = worker[w].dir
  BY <1>1, <1>2, <1>4, WorkerMoves DEF Moves, SameRun, Chosen, Placed, Returned, WindowInv, Tallied
<1>5. window \in [Windows -> Window] /\ window' \in [Windows -> Window]
  BY WindowChanges DEF WindowInv
<1>6. ASSUME NEW v \in Windows PROVE Showing(v)' /\ Buttons(v)'
  <2>1. Showing(v) /\ Buttons(v) /\ WindowChange(v)
    BY WindowChanges DEF WindowInv
  <2>2. window[v].shown_by \in Workers \cup {NoWorker} /\ window'[v].shown_by \in Workers \cup {NoWorker}
    BY <1>5 DEF Window
  <2>3. ASSUME window'[v].shown_by = window[v].shown_by, window'[v].current = window[v].current PROVE Showing(v)'
    BY <1>3, <2>1, <2>2, <2>3 DEF Showing
  <2>4. CASE \E w \in Workers :
                /\ worker[w].at = "completed" /\ worker'[w].at \in {"handled", "over"}
                /\ window'[v].shown_by = w /\ window'[v].current = worker[w].dir
                /\ window'[v].open_btn <=> worker[w].dir # NoDir
    BY <1>4, <2>4 DEF Showing, Buttons
  <2>5. CASE window'[v].shown_by = NoWorker /\ (window'[v].open_btn <=> window'[v].current # NoDir)
    BY <2>5 DEF Showing, Buttons
  <2> QED
    BY <2>1, <2>3, <2>4, <2>5 DEF WindowChange, Buttons, IsSimple
<1> QED
  BY <1>1, <1>2, <1>5, <1>6 DEF WindowInv

\* A window that has just been opened shows nothing.
LEMMA WindowInitial == RunsInit => WindowInv
<1> SUFFICES ASSUME RunsInit PROVE WindowInv
  OBVIOUS
<1>1. RunsInv
  BY RunsInitial
<1>2. \A w \in Workers : /\ worker[w].at = "new" /\ worker[w].mode = "single" /\ worker[w].combo = 1
                         /\ worker[w].rows = <<>>
  BY DEF RunsInit
<1>3. \A w \in Workers : Tallied(w) /\ RowsWhole(w)
  BY <1>2, RunsAssumption DEF Tallied, RowsWhole
<1> DEFINE first == [run_btn |-> TRUE, open_btn |-> FALSE, current |-> NoDir, term |-> "idle", shown_by |-> NoWorker]
<1>4. first \in Window /\ window = [v \in Windows |-> first]
  BY DEF Window, RunsInit
<1>5. window \in [Windows -> Window] /\ \A v \in Windows : Showing(v) /\ Buttons(v)
  BY <1>4 DEF Showing, Buttons
<1> QED
  BY <1>1, <1>3, <1>5 DEF WindowInv

\* A window that shows the backtest it ran shows a run that is whole.
LEMMA WindowHolds == WindowInv => WindowShowsWholeRun
<1> SUFFICES ASSUME WindowInv PROVE WindowShowsWholeRun
  OBVIOUS
<1>1. ASSUME NEW v \in Windows, NEW by, by = window[v].shown_by, by # NoWorker
      PROVE  /\ dirs[window[v].current].written = LastFile
             /\ \E i \in 1 .. Combos : <<by, i>> \in dirs[window[v].current].users
             /\ Len(worker[by].rows) = IF worker[by].mode = "optimization" THEN Combos ELSE 1
             /\ \A i \in DOMAIN worker[by].rows :
                   dirs[worker[by].rows[i]].written = LastFile /\ <<by, i>> \in dirs[worker[by].rows[i]].users
  <2>1. by \in Workers /\ Reported(by) /\ RowsWhole(by) /\ window[v].current = worker[by].dir
    BY <1>1 DEF WindowInv, Window, Showing
  <2>2. LastCombo(by) \in 1 .. Combos /\ worker[by].rows \in Seq(Names \cup {NoDir})
    BY <2>1, RunsAssumption DEF LastCombo, WindowInv, RunsInv, RunsTypeOK, Backtest
  <2>3. LastCombo(by) \in DOMAIN worker[by].rows
    BY <2>1, <2>2 DEF Reported
  <2> QED
    BY <2>1, <2>2, <2>3 DEF Reported, RowsWhole, LastCombo
<1> QED
  BY <1>1 DEF WindowShowsWholeRun, WindowInv, Buttons

\* The result a window shows is one its backtest has finished: every directory it lists was
\* written to its last file by that backtest, and in the strategy tester the button that opens
\* the directory is there with it.  Proved of every interleaving of any number of backtests.
THEOREM WindowsShowWholeRuns == RunsSpec => []WindowShowsWholeRun
<1>1. RunsSpec => []WindowInv
  BY WindowInitial, WindowStep, PTL DEF RunsSpec
<1> QED
  BY <1>1, WindowHolds, PTL

-----------------------------------------------------------------------------
\* The registry of strategies.

Class(p, found, c) == RegisterClass(p[1], c, found)
Found(p) == p[2]
C == INSTANCE FoldLemmas WITH op <- Class, base <- Found
File(p, found, s) == Registered(s, p[1], p[2], found)
Explicit(p) == BuiltIn
D == INSTANCE FoldLemmas WITH op <- File, base <- Explicit

\* The classes of a module are registered one after the other.
LEMMA ClassesAreFold == \A stem, classes, found : RegisterClasses(stem, classes, found) = C!Fold(<<stem, found>>, classes)
BY DEF RegisterClasses, Class, Found, C!Fold, FoldLeft, MapThenFoldSet, Max, C!MapThenFoldSet, C!Max

\* The files of the package are registered one after the other.
LEMMA DiscoverIsFold ==
    \A files, loaded, external :
       DiscoverStrategyClasses(files, loaded, external) = Merged(D!Fold(<<files, loaded>>, Stems), external)
BY DEF DiscoverStrategyClasses, File, Explicit, D!Fold, FoldLeft, MapThenFoldSet, Max, D!MapThenFoldSet, D!Max

Harmless(found, bad) == \A k \in DOMAIN found : found[k].file \notin bad

\* Two registries without a file that fails have none together.
LEMMA MergedHarmless ==
    ASSUME NEW f, NEW g, NEW bad, Harmless(f, bad), Harmless(g, bad)
    PROVE  Harmless(Merged(f, g), bad)
BY DEF Harmless, Merged

\* Registering a class brings in the file it is from.
LEMMA ClassHarmless ==
    ASSUME NEW stem, NEW c, NEW found, NEW bad, stem \notin bad, Harmless(found, bad)
    PROVE  Harmless(RegisterClass(stem, c, found), bad)
<1> DEFINE entry == [file |-> stem, class |-> c.class, named |-> c.strategy_name # ""]
           key == IF c.strategy_name # "" THEN <<c.strategy_name, 1>> ELSE StrategyKey(stem, c.class, found)
<1>1. entry.file = stem
  OBVIOUS
<1>2. RegisterClass(stem, c, found) = Merged(found, Entry(key, entry))
  BY DEF RegisterClass
<1> HIDE DEF entry, key
<1>3. Harmless(Entry(key, entry), bad)
  BY <1>1 DEF Harmless, Entry
<1> QED
  BY <1>2, <1>3, MergedHarmless

\* Registering all the classes of a file brings in that file.
LEMMA ClassesHarmless ==
    ASSUME NEW E, NEW stem, NEW found, NEW bad, stem \notin bad, Harmless(found, bad)
    PROVE  \A classes \in Seq(E) : Harmless(RegisterClasses(stem, classes, found), bad)
<1> DEFINE p == <<stem, found>>
           Good == {s \in Seq(E) : Harmless(C!Fold(p, s), bad)}
<1>0. p[1] = stem /\ p[2] = found
  OBVIOUS
<1> HIDE DEF p
<1>1. <<>> \in Good
  BY <1>0, C!FoldEmpty DEF Found
<1>2. ASSUME NEW s \in Seq(E), NEW c \in E, s \in Good PROVE Append(s, c) \in Good
  <2>1. C!Fold(p, Append(s, c)) = RegisterClass(stem, c, C!Fold(p, s))
    BY <1>0, C!FoldAppend DEF Class
  <2> QED
    BY <1>2, <2>1, ClassHarmless
<1> HIDE DEF Good
<1>3. Seq(E) \subseteq Good
  BY <1>1, <1>2, C!SequenceInduction
<1> QED
  BY <1>3, ClassesAreFold DEF Good, p

\* A discovery registers nothing from a file it could not load.
LEMMA DiscoveryHarmless ==
    ASSUME NEW files, NEW loaded, NEW external,
           \A s \in DOMAIN files : files[s] \in Sources, \A s \in DOMAIN loaded : loaded[s] \in Sources,
           DOMAIN files \subseteq ToSet(Stems), Harmless(external, Failing(files, loaded))
    PROVE  Harmless(DiscoverStrategyClasses(files, loaded, external), Failing(files, loaded))
<1> DEFINE p == <<files, loaded>>
           bad == Failing(files, loaded)
           E == ToSet(Stems)
           Good == {s \in Seq(E) : Harmless(D!Fold(p, s), bad)}
<1>0. p[1] = files /\ p[2] = loaded
  OBVIOUS
<1> HIDE DEF p
<1>1. bad \subseteq ToSet(Stems)
  BY DEF Failing
<1>2. Harmless(BuiltIn, bad)
  BY <1>1, RegistryAssumption DEF Harmless
<1>3. <<>> \in Good
  BY <1>2, D!FoldEmpty DEF Explicit
<1>4. ASSUME NEW s \in Seq(E), NEW f \in E, s \in Good PROVE Append(s, f) \in Good
  <2> DEFINE found == D!Fold(p, s)
             code == Source(f, files, loaded)
  <2>1. D!Fold(p, Append(s, f)) = Registered(f, files, loaded, found)
    BY <1>0, D!FoldAppend DEF File
  <2>2. Harmless(found, bad)
    BY <1>4
  <2> HIDE DEF found
  <2>3. CASE f \in DOMAIN files \ bad
    <3>1. code.classes \in Seq(ToSet(code.classes))
      BY <2>3, RegistryAssumption DEF Source
    <3>2. Harmless(RegisterClasses(f, code.classes, found), bad)
      BY <2>2, <2>3, <3>1, ClassesHarmless
    <3> QED
      BY <2>1, <2>3, <3>2 DEF Registered, found
  <2>4. CASE f \notin DOMAIN files \ bad
    BY <2>1, <2>2, <2>4 DEF Registered, found
  <2> QED
    BY <2>3, <2>4
<1> HIDE DEF Good
<1>5. Seq(E) \subseteq Good
  BY <1>3, <1>4, D!SequenceInduction
<1>6. Harmless(D!Fold(p, Stems), bad)
  BY <1>5, RegistryAssumption DEF Good
<1> QED
  BY <1>6, MergedHarmless, DiscoverIsFold DEF p

-----------------------------------------------------------------------------
Sourced(f) == \A s \in DOMAIN f : f[s] \in Sources

\* A refresh loses nothing: what is registered stays, and every class is.

Named(entry) == entry.named
\* Of two registries, the second has what the first has, or what was put over it by name.
Yields(f, g) == \A k \in DOMAIN f : k \in DOMAIN g /\ (g[k] = f[k] \/ Named(g[k]))
Nameless(c) == c.strategy_name = ""

\* What two steps keep, they keep together.
LEMMA YieldsTransitive ==
    ASSUME NEW f, NEW g, NEW h, Yields(f, g), Yields(g, h)
    PROVE  Yields(f, h)
BY DEF Yields

\* A class has a key of its own name or its file's, or one that asks for that key by name has it.
InPlace(stem, c, reg) ==
    \E k \in DOMAIN reg : /\ k[1] \in {stem, c.class}
                          /\ reg[k] = [file |-> stem, class |-> c.class, named |-> FALSE] \/ Named(reg[k])
AllInPlace(stem, classes, reg) == \A c \in ToSet(classes) : Nameless(c) => InPlace(stem, c, reg)

\* A class keeps its place while nothing is lost.
LEMMA InPlaceYields ==
    ASSUME NEW stem, NEW c, NEW f, NEW g, InPlace(stem, c, f), Yields(f, g)
    PROVE  InPlace(stem, c, g)
BY DEF InPlace, Yields

\* Among the numbers up to one more than there are keys, there is one that no key has.
LEMMA FreeNumber ==
    ASSUME NEW class, NEW keys, IsFiniteSet(keys)
    PROVE  \E n \in 1 .. Cardinality(keys) + 1 : <<class, n>> \notin keys
<1> DEFINE numbers == 1 .. Cardinality(keys) + 1
           f == [n \in numbers |-> <<class, n>>]
<1>1. Cardinality(keys) \in Nat
  BY FS_CardinalityType
<1>2. IsFiniteSet(numbers) /\ Cardinality(numbers) = Cardinality(keys) + 1
  BY <1>1, FS_Interval
<1>3. SUFFICES ASSUME \A n \in numbers : <<class, n>> \in keys PROVE FALSE
  OBVIOUS
<1>4. f \in [numbers -> keys]
  BY <1>3
<1>5. \A m, n \in numbers : f[m] = f[n] => m = n
  OBVIOUS
<1> HIDE DEF f, numbers
<1>6. \E x, y \in numbers : x # y /\ f[x] = f[y]
  BY <1>1, <1>2, <1>4, FS_PigeonHole
<1> QED
  BY <1>5, <1>6

\* The least of a set of numbers is one of them.
LEMMA MinIsMember ==
    ASSUME NEW S \in SUBSET Nat, S # {}
    PROVE  Min(S) \in S
<1>1. \E x \in S : \A y \in S : x <= y
  BY C!LeastNumber
<1> QED
  BY <1>1 DEF Min

\* A class without a name of its own gets a key that nothing has.
LEMMA KeyIsFree ==
    ASSUME NEW stem, NEW class, NEW found, IsFiniteSet(DOMAIN found)
    PROVE  StrategyKey(stem, class, found) \notin DOMAIN found /\ StrategyKey(stem, class, found)[1] \in {stem, class}
<1> DEFINE free == {n \in 1 .. Cardinality(DOMAIN found) + 1 : <<class, n>> \notin DOMAIN found}
<1>1. CASE <<stem, 1>> \notin DOMAIN found
  BY <1>1 DEF StrategyKey
<1>2. CASE <<stem, 1>> \in DOMAIN found
  <2>1. Cardinality(DOMAIN found) \in Nat
    BY FS_CardinalityType
  <2>2. PICK n \in 1 .. Cardinality(DOMAIN found) + 1 : <<class, n>> \notin DOMAIN found
    BY FreeNumber
  <2>3. StrategyKey(stem, class, found) = <<class, Min(free)>>
    BY <1>2 DEF StrategyKey
  <2>4. n \in free /\ \A m \in free : m \in Nat /\ <<class, m>> \notin DOMAIN found
    BY <2>1, <2>2
  <2> HIDE DEF free
  <2>5. Min(free) \in free
    BY <2>4, MinIsMember
  <2>6. PICK m \in free : StrategyKey(stem, class, found) = <<class, m>>
    BY <2>3, <2>5
  <2>7. <<class, m>> \notin DOMAIN found
    BY <2>4, <2>6
  <2>8. <<class, m>>[1] = class
    OBVIOUS
  <2> QED
    BY <2>6, <2>7, <2>8
<1> QED
  BY <1>1, <1>2

\* Registering a class loses nothing and gives it its place.
LEMMA ClassYields ==
    ASSUME NEW stem, NEW c, NEW found, IsFiniteSet(DOMAIN found)
    PROVE  LET reg == RegisterClass(stem, c, found) IN
           /\ Yields(found, reg) /\ IsFiniteSet(DOMAIN reg)
           /\ Nameless(c) => InPlace(stem, c, reg)
<1> DEFINE entry == [file |-> stem, class |-> c.class, named |-> c.strategy_name # ""]
           key == IF c.strategy_name # "" THEN <<c.strategy_name, 1>> ELSE StrategyKey(stem, c.class, found)
           reg == RegisterClass(stem, c, found)
<1>1. reg = Merged(found, Entry(key, entry))
  BY DEF RegisterClass
<1>2. Nameless(c) => key = StrategyKey(stem, c.class, found)
                     /\ entry = [file |-> stem, class |-> c.class, named |-> FALSE]
  BY DEF Nameless
<1>3. ~Nameless(c) => Named(entry)
  BY DEF Nameless, Named
<1> HIDE DEF entry, key, reg
<1>4. /\ DOMAIN reg = DOMAIN found \cup {key} /\ reg[key] = entry
      /\ \A k \in DOMAIN found : k # key => reg[k] = found[k]
  BY <1>1 DEF Merged, Entry
<1>5. IsFiniteSet(DOMAIN reg)
  BY <1>4, FS_AddElement
<1>6. Nameless(c) => key \notin DOMAIN found /\ key[1] \in {stem, c.class}
  BY <1>2, KeyIsFree
<1>7. Yields(found, reg)
  BY <1>3, <1>4, <1>6 DEF Yields
<1>8. Nameless(c) => InPlace(stem, c, reg)
  BY <1>2, <1>4, <1>6 DEF InPlace
<1> QED
  BY <1>5, <1>7, <1>8 DEF reg

\* The elements of a longer sequence.
LEMMA ToSetAppend ==
    ASSUME NEW E, NEW s \in Seq(E), NEW x \in E
    PROVE  ToSet(Append(s, x)) = ToSet(s) \cup {x} /\ Append(s, x) \in Seq(E)
<1>1. DOMAIN Append(s, x) = DOMAIN s \cup {Len(s) + 1} /\ Append(s, x) \in Seq(E)
  OBVIOUS
<1>2. \A i \in DOMAIN s : Append(s, x)[i] = s[i]
  OBVIOUS
<1>3. Append(s, x)[Len(s) + 1] = x
  OBVIOUS
<1> QED
  BY <1>1, <1>2, <1>3 DEF ToSet

\* Registering the classes of a file loses nothing and gives each its place.
LEMMA ClassesYield ==
    ASSUME NEW E, NEW stem, NEW found, IsFiniteSet(DOMAIN found)
    PROVE  \A classes \in Seq(E) :
              /\ Yields(found, RegisterClasses(stem, classes, found))
              /\ IsFiniteSet(DOMAIN RegisterClasses(stem, classes, found))
              /\ AllInPlace(stem, classes, RegisterClasses(stem, classes, found))
<1> DEFINE p == <<stem, found>>
           Good == {s \in Seq(E) : /\ Yields(found, C!Fold(p, s)) /\ IsFiniteSet(DOMAIN C!Fold(p, s))
                                   /\ AllInPlace(stem, s, C!Fold(p, s))}
<1>0. p[1] = stem /\ p[2] = found
  OBVIOUS
<1> HIDE DEF p
<1>1. <<>> \in Good
  <2>1. C!Fold(p, <<>>) = found /\ <<>> \in Seq(E) /\ ToSet(<<>>) = {}
    BY <1>0, C!FoldEmpty DEF Found, ToSet
  <2> QED
    BY <2>1 DEF Yields, AllInPlace
<1>2. ASSUME NEW s \in Seq(E), NEW c \in E, s \in Good PROVE Append(s, c) \in Good
  <2> DEFINE old == C!Fold(p, s)
             new == C!Fold(p, Append(s, c))
  <2>1. new = RegisterClass(stem, c, old)
    BY <1>0, C!FoldAppend DEF Class
  <2>2. Yields(found, old) /\ IsFiniteSet(DOMAIN old) /\ AllInPlace(stem, s, old)
    BY <1>2
  <2>3. ToSet(Append(s, c)) = ToSet(s) \cup {c} /\ Append(s, c) \in Seq(E)
    BY ToSetAppend
  <2>9. Yields(found, new) /\ IsFiniteSet(DOMAIN new) /\ AllInPlace(stem, Append(s, c), new) => Append(s, c) \in Good
    BY <2>3
  <2> HIDE DEF old, new, Good
  <2>4. Yields(old, new) /\ IsFiniteSet(DOMAIN new) /\ (Nameless(c) => InPlace(stem, c, new))
    BY <2>1, <2>2, ClassYields
  <2>5. Yields(found, new)
    BY <2>2, <2>4, YieldsTransitive
  <2>6. AllInPlace(stem, Append(s, c), new)
    BY <2>2, <2>3, <2>4, InPlaceYields DEF AllInPlace
  <2> QED
    BY <2>4, <2>5, <2>6, <2>9
<1> HIDE DEF Good
<1>3. Seq(E) \subseteq Good
  BY <1>1, <1>2, C!SequenceInduction
<1> QED
  BY <1>3, ClassesAreFold DEF Good, p

\* What a discovery finds has every class of every file it loaded, and the explicit registry.
Complete(files, loaded, seen, reg) ==
    /\ Yields(BuiltIn, reg)
    /\ \A f \in seen : f \in DOMAIN files \ Failing(files, loaded) => AllInPlace(f, Source(f, files, loaded).classes, reg)

\* Going on to the next file loses nothing and gives its classes their places.
LEMMA FileYields ==
    ASSUME NEW files, NEW loaded, Sourced(files), Sourced(loaded), NEW f, NEW found, IsFiniteSet(DOMAIN found)
    PROVE  LET reg == Registered(f, files, loaded, found) IN
           /\ Yields(found, reg) /\ IsFiniteSet(DOMAIN reg)
           /\ f \in DOMAIN files \ Failing(files, loaded) => AllInPlace(f, Source(f, files, loaded).classes, reg)
<1>1. CASE f \in DOMAIN files \ Failing(files, loaded)
  <2> DEFINE code == Source(f, files, loaded)
  <2>1. code \in Sources
    BY <1>1 DEF Source, Sourced
  <2>2. Registered(f, files, loaded, found) = RegisterClasses(f, code.classes, found)
    BY <1>1 DEF Registered
  <2> HIDE DEF code
  <2>3. code.classes \in Seq(ToSet(code.classes))
    BY <2>1, RegistryAssumption
  <2>4. /\ Yields(found, RegisterClasses(f, code.classes, found))
        /\ IsFiniteSet(DOMAIN RegisterClasses(f, code.classes, found))
        /\ AllInPlace(f, code.classes, RegisterClasses(f, code.classes, found))
    BY <2>3, ClassesYield
  <2> QED
    BY <2>2, <2>4 DEF code
<1>2. CASE f \notin DOMAIN files \ Failing(files, loaded)
  BY <1>2 DEF Registered, Yields
<1> QED
  BY <1>1, <1>2

\* A discovery is complete, by induction over the files.
LEMMA DiscoveryComplete ==
    ASSUME NEW files, NEW loaded, Sourced(files), Sourced(loaded)
    PROVE  Complete(files, loaded, ToSet(Stems), D!Fold(<<files, loaded>>, Stems))
<1> DEFINE p == <<files, loaded>>
           E == ToSet(Stems)
           Good == {s \in Seq(E) : IsFiniteSet(DOMAIN D!Fold(p, s)) /\ Complete(files, loaded, ToSet(s), D!Fold(p, s))}
<1>0. p[1] = files /\ p[2] = loaded
  OBVIOUS
<1> HIDE DEF p, E
<1>1. <<>> \in Good
  <2>1. D!Fold(p, <<>>) = BuiltIn /\ <<>> \in Seq(E) /\ ToSet(<<>>) = {}
    BY D!FoldEmpty DEF Explicit, ToSet
  <2> QED
    BY <2>1, RegistryAssumption DEF Yields, Complete
<1>2. ASSUME NEW s \in Seq(E), NEW f \in E, s \in Good PROVE Append(s, f) \in Good
  <2> DEFINE old == D!Fold(p, s)
             new == D!Fold(p, Append(s, f))
  <2>1. new = Registered(f, files, loaded, old)
    BY <1>0, D!FoldAppend DEF File
  <2>2. IsFiniteSet(DOMAIN old) /\ Complete(files, loaded, ToSet(s), old)
    BY <1>2
  <2>3. ToSet(Append(s, f)) = ToSet(s) \cup {f} /\ Append(s, f) \in Seq(E)
    BY ToSetAppend
  <2>9. IsFiniteSet(DOMAIN new) /\ Complete(files, loaded, ToSet(Append(s, f)), new) => Append(s, f) \in Good
    BY <2>3
  <2> HIDE DEF old, new, Good
  <2>4. /\ Yields(old, new) /\ IsFiniteSet(DOMAIN new)
        /\ f \in DOMAIN files \ Failing(files, loaded) => AllInPlace(f, Source(f, files, loaded).classes, new)
    BY <2>1, <2>2, FileYields
  <2>5. Yields(BuiltIn, new)
    BY <2>2, <2>4, YieldsTransitive DEF Complete
  <2>6. ASSUME NEW g \in ToSet(s), g \in DOMAIN files \ Failing(files, loaded)
        PROVE  AllInPlace(g, Source(g, files, loaded).classes, new)
    BY <2>2, <2>4, <2>6, InPlaceYields DEF Complete, AllInPlace
  <2>7. Complete(files, loaded, ToSet(Append(s, f)), new)
    BY <2>3, <2>4, <2>5, <2>6 DEF Complete
  <2> QED
    BY <2>4, <2>7, <2>9
<1> HIDE DEF Good
<1>3. Seq(E) \subseteq Good
  BY <1>1, <1>2, D!SequenceInduction
<1>4. Stems \in Seq(E)
  BY RegistryAssumption DEF E
<1> QED
  BY <1>3, <1>4 DEF Good, p

\* What is loaded from outside is registered by name.
NamedOnly(external) == \A k \in DOMAIN external : Named(external[k])

\* The external strategies are put over the others by name.
LEMMA MergedYields ==
    ASSUME NEW f, NEW external, NamedOnly(external)
    PROVE  Yields(f, Merged(f, external)) /\ \A k \in DOMAIN external : Merged(f, external)[k] = external[k]
BY DEF NamedOnly, Yields, Merged

RegInv ==
    /\ DOMAIN package \subseteq ToSet(Stems) /\ Sourced(package) /\ Sourced(modules)
    /\ load_errors \subseteq ToSet(Stems)
    /\ \A k \in DOMAIN registry.external : registry.external[k].file \in Paths
    /\ ChosenIsRegistered

\* What Python keeps of the modules it imported is what the files were.
LEMMA ImportedSourced ==
    ASSUME NEW files, NEW loaded, Sourced(files), Sourced(loaded)
    PROVE  Sourced(Imported(files, loaded))
BY DEF Sourced, Imported, Merged, Source

\* A refresh leaves a registry without failing files, and with the external strategies.
LEMMA RefreshedSound ==
    ASSUME RegInv, NEW external, \A k \in DOMAIN external : external[k].file \in Paths, Refreshed(external), package' = package
    PROVE  /\ DOMAIN package' \subseteq ToSet(Stems) /\ Sourced(package') /\ Sourced(modules')
           /\ load_errors' \subseteq ToSet(Stems)
           /\ \A k \in DOMAIN registry'.external : registry'.external[k].file \in Paths
           /\ Harmless(registry'.all, load_errors')
           /\ DOMAIN external \subseteq DOMAIN registry'.all
<1>1. /\ registry'.all = DiscoverStrategyClasses(package, modules, external) /\ registry'.external = external
      /\ load_errors' = Failing(package, modules) /\ modules' = Imported(package, modules)
  BY DEF Refreshed
<1>2. DOMAIN package \subseteq ToSet(Stems) /\ Sourced(package) /\ Sourced(modules)
  BY DEF RegInv
<1>3. Failing(package, modules) \subseteq ToSet(Stems)
  BY <1>2 DEF Failing
<1>4. Harmless(external, Failing(package, modules))
  BY <1>3, RegistryAssumption DEF Harmless
<1>5. Harmless(registry'.all, load_errors')
  BY <1>1, <1>2, <1>4, DiscoveryHarmless DEF Sourced
<1>6. DOMAIN external \subseteq DOMAIN registry'.all
  BY <1>1 DEF DiscoverStrategyClasses, Merged
<1>7. Sourced(modules')
  BY <1>1, <1>2, ImportedSourced
<1> QED
  BY <1>1, <1>2, <1>3, <1>5, <1>6, <1>7

\* Each step keeps the registry sound.
LEMMA RegStep == RegInv /\ [RegNext]_regVars => RegInv'
<1> SUFFICES ASSUME RegInv, [RegNext]_regVars PROVE RegInv'
  OBVIOUS
<1>1. ASSUME NEW s \in ToSet(Stems), EditFile(s) \/ DeleteFile(s) PROVE RegInv'
  <2>1. UNCHANGED <<modules, registry, load_errors, combo>>
    BY <1>1 DEF EditFile, DeleteFile
  <2>2. DOMAIN package' \subseteq ToSet(Stems) /\ Sourced(package')
    <3>1. CASE EditFile(s)
      BY <3>1 DEF EditFile, Merged, Entry, RegInv, Sourced
    <3>2. CASE DeleteFile(s)
      BY <3>2 DEF DeleteFile, RegInv, Sourced
    <3> QED
      BY <1>1, <3>1, <3>2
  <2> QED
    BY <2>1, <2>2 DEF RegInv, Sourced, ChosenIsRegistered
<1>2. ASSUME NEW p \in Paths, ChooseExternalStrategyFile(p) PROVE RegInv'
  <2>1. PICK key, class : /\ class.file = p /\ Refreshed(Merged(registry.external, Entry(key, class)))
                          /\ combo' = [items |-> DOMAIN registry'.all, current |-> key] /\ package' = package
    <3>1. PICK code \in Sources :
             LET c == Head(code.classes)
                 key == IF c.strategy_name # "" THEN <<c.strategy_name, 1>> ELSE <<p, 1>>
                 class == [file |-> p, class |-> c.class, named |-> TRUE]
             IN  /\ Refreshed(Merged(registry.external, Entry(key, class)))
                 /\ combo' = [items |-> DOMAIN registry'.all, current |-> key]
      BY <1>2 DEF ChooseExternalStrategyFile
    <3> DEFINE c == Head(code.classes)
               k == IF c.strategy_name # "" THEN <<c.strategy_name, 1>> ELSE <<p, 1>>
               t == [file |-> p, class |-> c.class, named |-> TRUE]
    <3>2. t.file = p /\ package' = package
      BY <1>2 DEF ChooseExternalStrategyFile
    <3>3. Refreshed(Merged(registry.external, Entry(k, t))) /\ combo' = [items |-> DOMAIN registry'.all, current |-> k]
      BY <3>1
    <3> HIDE DEF k, t
    <3> QED
      BY <3>2, <3>3
  <2> DEFINE external == Merged(registry.external, Entry(key, class))
  <2>2. \A k \in DOMAIN external : external[k].file \in Paths
    BY <2>1 DEF Merged, Entry, RegInv
  <2>3. key \in DOMAIN external
    BY DEF Merged, Entry
  <2> HIDE DEF external
  <2>4. /\ DOMAIN package' \subseteq ToSet(Stems) /\ Sourced(package') /\ Sourced(modules')
        /\ load_errors' \subseteq ToSet(Stems)
        /\ \A k \in DOMAIN registry'.external : registry'.external[k].file \in Paths
        /\ Harmless(registry'.all, load_errors') /\ DOMAIN external \subseteq DOMAIN registry'.all
    BY <2>1, <2>2, RefreshedSound DEF external
  <2>5. combo'.items = DOMAIN registry'.all /\ combo'.current = key
    BY <2>1
  <2> QED
    BY <2>3, <2>4, <2>5 DEF RegInv, Sourced, Harmless, ChosenIsRegistered
<1>3. ASSUME NEW k \in combo.items, ChooseUser(k) PROVE RegInv'
  <2>1. UNCHANGED <<package, modules, registry, load_errors>> /\ combo' = [combo EXCEPT !.current = k]
    BY <1>3 DEF ChooseUser
  <2>2. combo'.items = combo.items /\ combo'.current \in combo.items
    BY <2>1 DEF RegInv
  <2> QED
    BY <2>1, <2>2 DEF RegInv, Sourced, ChosenIsRegistered
<1>4. CASE RefreshStrategyList
  <2>1. Refreshed(registry.external) /\ package' = package
    BY <1>4 DEF RefreshStrategyList
  <2>2. PICK k \in Choice(combo.current, DOMAIN registry'.all) : combo' = [items |-> DOMAIN registry'.all, current |-> k]
    BY <1>4 DEF RefreshStrategyList
  <2>3. k \in DOMAIN registry'.all /\ combo'.items = DOMAIN registry'.all /\ combo'.current = k
    BY <2>2 DEF Choice
  <2>4. /\ DOMAIN package' \subseteq ToSet(Stems) /\ Sourced(package') /\ Sourced(modules')
        /\ load_errors' \subseteq ToSet(Stems)
        /\ \A x \in DOMAIN registry'.external : registry'.external[x].file \in Paths
        /\ Harmless(registry'.all, load_errors')
    BY <2>1, RefreshedSound DEF RegInv
  <2> QED
    BY <2>3, <2>4 DEF RegInv, Sourced, Harmless, ChosenIsRegistered
<1>5. CASE UNCHANGED regVars
  BY <1>5 DEF regVars, RegInv, Sourced, ChosenIsRegistered
<1> QED
  BY <1>1, <1>2, <1>3, <1>4, <1>5 DEF RegNext

\* The registry is sound when the program starts.
LEMMA RegInitial == RegInit => RegInv
<1> SUFFICES ASSUME RegInit PROVE RegInv
  OBVIOUS
<1>1. package \in [{Head(Stems)} -> Sources] /\ modules = Imported(package, Empty) /\ load_errors = Failing(package, Empty)
      /\ registry = [all |-> DiscoverStrategyClasses(package, Empty, Empty), external |-> Empty]
  BY DEF RegInit
<1>2. Sourced(package) /\ Sourced(Empty) /\ DOMAIN Empty = {} /\ DOMAIN package = {Head(Stems)}
  BY <1>1 DEF Sourced, Empty
<1>3. Head(Stems) \in ToSet(Stems)
  BY RegistryAssumption DEF ToSet
<1>4. load_errors \subseteq ToSet(Stems) /\ Harmless(Empty, load_errors)
  BY <1>1, <1>2, <1>3 DEF Failing, Harmless
<1>5. Harmless(registry.all, load_errors)
  BY <1>1, <1>2, <1>3, <1>4, DiscoveryHarmless DEF Sourced
<1>6. PICK k \in DOMAIN registry.all : combo = [items |-> DOMAIN registry.all, current |-> k]
  BY DEF RegInit
<1>7. combo.items = DOMAIN registry.all /\ combo.current = k
  BY <1>6
<1> QED
  BY <1>1, <1>2, <1>3, <1>4, <1>5, <1>7, ImportedSourced DEF RegInv, ChosenIsRegistered, Harmless

\* The strategy a window has chosen is registered, the list it shows is the registry, and a
\* file that could not be loaded has no strategy in it, whatever was edited, deleted, loaded or
\* refreshed before, in whatever order.
THEOREM RegistryIsWhole == RegSpec => []ChosenIsRegistered
<1>1. RegSpec => []RegInv
  BY RegInitial, RegStep, PTL DEF RegSpec
<1>2. RegInv => ChosenIsRegistered
  BY DEF RegInv
<1> QED
  BY <1>1, <1>2, PTL

\* What is loaded from outside keeps its keys, and everything else gives way to names only.
NothingLost ==
    LET reg == registry'.all IN
    /\ \A k \in DOMAIN registry'.external : reg[k] = registry'.external[k]
    /\ \A k \in DOMAIN registry.external : k \in DOMAIN registry'.external
    /\ \A k \in DOMAIN BuiltIn : reg[k] = BuiltIn[k] \/ reg[k].named
    /\ \A s \in DOMAIN package \ load_errors' : \A i \in DOMAIN modules'[s].classes :
          modules'[s].classes[i].strategy_name = "" => ListedOrReplaced(reg, s, modules'[s].classes[i])

\* A class that is in place is listed or replaced.
LEMMA InPlaceListed ==
    ASSUME NEW stem, NEW c, NEW reg, InPlace(stem, c, reg)
    PROVE  ListedOrReplaced(reg, stem, c)
BY DEF InPlace, ListedOrReplaced, Named

\* A refresh with the external strategies there were, and more, loses nothing.
LEMMA RefreshLosesNothing ==
    ASSUME RegInv, NEW external, NamedOnly(external), DOMAIN registry.external \subseteq DOMAIN external, Refreshed(external)
    PROVE  NothingLost
<1> DEFINE found == D!Fold(<<package, modules>>, Stems)
           reg == Merged(found, external)
<1>1. /\ registry'.all = reg /\ registry'.external = external
      /\ load_errors' = Failing(package, modules) /\ modules' = Imported(package, modules)
  BY DiscoverIsFold DEF Refreshed
<1>2. DOMAIN package \subseteq ToSet(Stems) /\ Sourced(package) /\ Sourced(modules)
  BY DEF RegInv
<1>3. Complete(package, modules, ToSet(Stems), found)
  BY <1>2, DiscoveryComplete
<1> HIDE DEF found
<1>4. Yields(found, reg) /\ \A k \in DOMAIN external : reg[k] = external[k]
  BY MergedYields
<1> HIDE DEF reg
<1>5. \A k \in DOMAIN BuiltIn : reg[k] = BuiltIn[k] \/ Named(reg[k])
  BY <1>3, <1>4, YieldsTransitive DEF Complete, Yields
<1>6. ASSUME NEW s \in DOMAIN package \ load_errors', NEW i \in DOMAIN modules'[s].classes,
             Nameless(modules'[s].classes[i])
      PROVE  ListedOrReplaced(reg, s, modules'[s].classes[i])
  <2> DEFINE code == Source(s, package, modules)
  <2>1. modules'[s] = code /\ s \in ToSet(Stems) /\ s \in DOMAIN package \ Failing(package, modules)
    BY <1>1, <1>2 DEF Imported, Merged
  <2> HIDE DEF code
  <2>2. AllInPlace(s, code.classes, found)
    BY <1>3, <2>1 DEF Complete, code
  <2>3. code.classes[i] \in ToSet(code.classes)
    BY <1>6, <2>1 DEF ToSet
  <2>4. InPlace(s, code.classes[i], found)
    BY <1>6, <2>1, <2>2, <2>3 DEF AllInPlace
  <2>5. InPlace(s, code.classes[i], reg)
    BY <1>4, <2>4, InPlaceYields
  <2> QED
    BY <2>1, <2>5, InPlaceListed
<1> QED
  BY <1>1, <1>4, <1>5, <1>6 DEF NothingLost, Named, Nameless

\* A strategy from outside stays registered by name, so a later refresh keeps it.
LEMMA RegNamedStep ==
    ASSUME RegInv, NamedOnly(registry.external), [RegNext]_regVars
    PROVE  NamedOnly(registry'.external) /\ (registry' # registry => NothingLost)
<1>1. ASSUME NEW p \in Paths, ChooseExternalStrategyFile(p)
      PROVE  NamedOnly(registry'.external) /\ NothingLost
  <2>1. PICK key, class : Named(class) /\ Refreshed(Merged(registry.external, Entry(key, class)))
    <3>1. PICK code \in Sources :
             LET c == Head(code.classes)
                 key == IF c.strategy_name # "" THEN <<c.strategy_name, 1>> ELSE <<p, 1>>
                 class == [file |-> p, class |-> c.class, named |-> TRUE]
             IN  Refreshed(Merged(registry.external, Entry(key, class)))
      BY <1>1 DEF ChooseExternalStrategyFile
    <3> DEFINE c == Head(code.classes)
               k == IF c.strategy_name # "" THEN <<c.strategy_name, 1>> ELSE <<p, 1>>
               t == [file |-> p, class |-> c.class, named |-> TRUE]
    <3>2. Named(t)
      BY DEF Named
    <3>3. Refreshed(Merged(registry.external, Entry(k, t)))
      BY <3>1
    <3> HIDE DEF k, t
    <3> QED
      BY <3>2, <3>3
  <2> DEFINE external == Merged(registry.external, Entry(key, class))
  <2>2. NamedOnly(external) /\ DOMAIN registry.external \subseteq DOMAIN external
    BY <2>1 DEF NamedOnly, Merged, Entry
  <2> HIDE DEF external
  <2>3. Refreshed(external)
    BY <2>1 DEF external
  <2> QED
    BY <2>2, <2>3, RefreshLosesNothing DEF Refreshed
<1>2. CASE RefreshStrategyList
  <2>1. Refreshed(registry.external)
    BY <1>2 DEF RefreshStrategyList
  <2> QED
    BY <2>1, RefreshLosesNothing DEF Refreshed
<1>3. ASSUME NEW s, EditFile(s) \/ DeleteFile(s) PROVE registry' = registry
  BY <1>3 DEF EditFile, DeleteFile
<1>4. ASSUME NEW k, ChooseUser(k) PROVE registry' = registry
  BY <1>4 DEF ChooseUser
<1>5. CASE UNCHANGED regVars
  BY <1>5 DEF regVars
<1> QED
  BY <1>1, <1>2, <1>3, <1>4, <1>5 DEF RegNext

\* No refresh loses a strategy by accident: one that was loaded from outside stays under its key,
\* and one of the explicit registry or of a file that imports gives way only to a class that
\* asks for the key by name, whatever the files define and in whatever order they are edited.
THEOREM NothingIsLost == RegSpec => NoStrategyIsLost
<1>1. RegInit => NamedOnly(registry.external)
  BY DEF RegInit, NamedOnly, Empty
<1>2. RegInv /\ NamedOnly(registry.external) /\ [RegNext]_regVars => NamedOnly(registry.external)'
  BY RegNamedStep
<1>3. RegSpec => [](RegInv /\ NamedOnly(registry.external))
  BY RegInitial, RegStep, <1>1, <1>2, PTL DEF RegSpec
<1>4. RegInv /\ NamedOnly(registry.external) /\ [RegNext]_regVars => [registry' # registry => NothingLost]_regVars
  BY RegNamedStep
<1>5. RegSpec => [][registry' # registry => NothingLost]_regVars
  BY <1>3, <1>4, PTL DEF RegSpec
<1> QED
  BY <1>5, PTL DEF NoStrategyIsLost, NothingLost

-----------------------------------------------------------------------------
\* The market data cache.

LoadState == [at : Positions, request : Requests, has_cache : BOOLEAN, cached : SUBSET Times, cur : Int,
              parts : SUBSET Times, retry_idx : 0 .. MaxRetries, saved : SUBSET Times, served : SUBSET Times,
              published : SUBSET Times]
CacheFile == [exists : BOOLEAN, rows : SUBSET Times]

\* Before the first call to the source a load has nothing; with what it then asks for and the
\* cache it began from, it has every bar of the window up to where it is.  Bars before the last
\* of the cache are the cache's concern.
Begun(x) == /\ x.at = "new" => x.published = {}
            /\ x.at \in {"new", "found"} => ~x.has_cache /\ x.cur = x.request.start
            /\ x.has_cache <=> x.cached # {}
            /\ x.at = "fetching" /\ x.has_cache => x.request.incremental
New(x, t) == t \in x.published /\ x.request.start <= t /\ (x.has_cache => Max(x.cached) <= t)
Fetched(x) == x.at = "fetching" => \A t \in Times : New(x, t) /\ t < x.cur => t \in x.cached \cup x.parts
KeptInFile(x) == x.at = "writing" /\ x.has_cache => x.cached \subseteq x.saved
Served(x) == x.at \in {"writing", "done"} =>
                /\ x.served \subseteq x.request.start .. x.request.end
                /\ ~x.has_cache \/ x.request.incremental =>
                      \A t \in Times : New(x, t) /\ t <= x.request.end => t \in x.served
Sound(x) == Begun(x) /\ Fetched(x) /\ KeptInFile(x) /\ Served(x)

CacheInv ==
    /\ source \subseteq Times /\ file \in CacheFile /\ load \in [Loads -> LoadState]
    /\ \A l \in Loads : Sound(load[l]) /\ load[l].published \subseteq source

\* The largest of some times is one of them.
LEMMA MaxOfTimes == ASSUME NEW S \in SUBSET Times, S # {} PROVE Max(S) \in S /\ \A t \in S : t <= Max(S)
<1>1. C!Max(S) \in S /\ \A t \in S : C!Max(S) >= t
  BY C!MaxOf, BoundsAssumption DEF Times
<1>2. C!Max(S) = Max(S)
  BY DEF Max, C!Max
<1> QED
  BY <1>1, <1>2, BoundsAssumption DEF Times

\* The smaller of two numbers is no larger than either.
LEMMA MinOfTwo == ASSUME NEW a \in Int, NEW b \in Int
                  PROVE  Min({a, b}) \in Int /\ Min({a, b}) <= a /\ Min({a, b}) <= b
<1>1. \E x \in {a, b} : \A y \in {a, b} : x <= y
  OBVIOUS
<1> QED
  BY <1>1 DEF Min

\* The larger of two numbers is one of them.
LEMMA MaxOfTwo == ASSUME NEW a \in Int, NEW b \in Int
                  PROVE  Max({a, b}) = a \/ Max({a, b}) = b
<1>1. \E x \in {a, b} : \A y \in {a, b} : x >= y
  OBVIOUS
<1> QED
  BY <1>1 DEF Max

\* A step of one load.
LEMMA LoadMoves ==
    ASSUME CacheInv, NEW l \in Loads, NEW x \in LoadState, load' = [load EXCEPT ![l] = x],
           Sound(x), x.published \subseteq source, source' = source, file' \in CacheFile
    PROVE  CacheInv'
BY DEF CacheInv

\* A load that fails promises nothing.
LEMMA FailsKeeps == ASSUME CacheInv, NEW l \in Loads, Fails(l), source' = source, file' \in CacheFile
                    PROVE  CacheInv'
<1> DEFINE x == [load[l] EXCEPT !.at = "failed"]
<1>1. load[l] \in LoadState /\ load[l].published \subseteq source /\ Sound(load[l])
  BY DEF CacheInv
<1>2. x \in LoadState /\ x.at = "failed" /\ x.published = load[l].published /\ x.has_cache = load[l].has_cache /\ x.cached = load[l].cached
  BY <1>1 DEF LoadState, Positions
<1>3. load' = [load EXCEPT ![l] = x]
  BY DEF Fails, CacheInv
<1> HIDE DEF x
<1>4. Sound(x)
  BY <1>1, <1>2 DEF Sound, Begun, Fetched, KeptInFile, Served
<1> QED
  BY <1>1, <1>2, <1>3, <1>4, LoadMoves

\* A load begins with nothing, at the start of its window.
LEMMA BeginKeeps == ASSUME CacheInv, NEW l \in Loads, Begin(l) PROVE CacheInv'
<1> DEFINE cached == file.exists /\ ~load[l].request.refresh /\ load[l].request.use_cache
           x == [load[l] EXCEPT !.at = IF cached THEN "found" ELSE "fetching", !.published = source]
<1>1. load[l] \in LoadState /\ source \subseteq Times /\ Sound(load[l]) /\ load[l].at = "new"
  BY DEF CacheInv, Begin
<1>2. x \in LoadState /\ x.at \in {"found", "fetching"} /\ x.published = source /\ x.has_cache = load[l].has_cache
      /\ x.cached = load[l].cached /\ x.cur = load[l].cur /\ x.request = load[l].request
  BY <1>1 DEF LoadState, Positions
<1>3. load' = [load EXCEPT ![l] = x]
  BY DEF Begin, CacheInv
<1> HIDE DEF x
<1>4. x.request.start \in Int
  BY <1>2, BoundsAssumption DEF LoadState
<1>5. Sound(x)
  <2>1. ~x.has_cache /\ x.cur = x.request.start /\ x.cached = {}
    BY <1>1, <1>2 DEF Sound, Begun
  <2>2. \A t \in Times : ~(x.request.start <= t /\ t < x.cur)
    BY <1>4, <2>1 DEF Times
  <2> QED
    BY <1>2, <2>1, <2>2 DEF Sound, Begun, Fetched, KeptInFile, Served, New
<1> QED
  BY <1>2, <1>3, <1>5, LoadMoves DEF Begin, CacheInv

\* A load that reads the cache serves what it has, or goes on from where it ends.
LEMMA ReadCacheKeeps == ASSUME CacheInv, NEW l \in Loads, ReadCache(l) PROVE CacheInv'
<1> DEFINE r == load[l].request
           rows == file.rows
<1>1. load[l] \in LoadState /\ Sound(load[l]) /\ load[l].at = "found" /\ file \in CacheFile /\ load[l].published \subseteq source
      /\ source' = source /\ file' = file
  BY DEF CacheInv, ReadCache
<1>2. rows \in SUBSET Times /\ r.start \in Int /\ r.end \in Int /\ r \in Requests
  BY <1>1, BoundsAssumption DEF CacheFile, LoadState
<1>3. ASSUME Readable, ~r.incremental,
             load' = [load EXCEPT ![l].at = "done", ![l].has_cache = TRUE, ![l].cached = rows, ![l].served = Clip(rows, r)]
      PROVE  CacheInv'
  <2> DEFINE x == [load[l] EXCEPT !.at = "done", !.has_cache = TRUE, !.cached = rows, !.served = Clip(rows, r)]
  <2>1. Clip(rows, r) \in SUBSET Times /\ Clip(rows, r) \subseteq r.start .. r.end
    BY <1>2 DEF Clip
  <2>2. /\ x \in LoadState /\ x.at = "done" /\ x.has_cache /\ x.request = r /\ x.published = load[l].published
        /\ x.served = Clip(rows, r) /\ x.cached = rows
    BY <1>1, <1>2, <2>1 DEF LoadState, Positions
  <2>3. load' = [load EXCEPT ![l] = x]
    BY <1>3 DEF CacheInv
  <2> HIDE DEF x
  <2>4. Sound(x)
    BY <1>3, <2>1, <2>2 DEF Readable, Sound, Begun, Fetched, KeptInFile, Served
  <2> QED
    BY <1>1, <2>2, <2>3, <2>4, LoadMoves
<1>4. ASSUME Readable, r.incremental,
             load' = [load EXCEPT ![l].at = "fetching", ![l].has_cache = TRUE, ![l].cached = rows,
                                  ![l].cur = IncrementalStart(rows, r)]
      PROVE  CacheInv'
  <2> DEFINE cur == IncrementalStart(rows, r)
             x == [load[l] EXCEPT !.at = "fetching", !.has_cache = TRUE, !.cached = rows, !.cur = cur]
  <2>1. Max(rows) \in Int
    BY <1>2, <1>4, MaxOfTimes DEF Readable, Times
  <2>2. cur \in Int /\ (cur = Max(rows) - OverlapBars \/ cur = r.start)
    BY <1>2, <2>1, MaxOfTwo, BoundsAssumption DEF IncrementalStart
  <2> HIDE DEF cur
  <2>3. /\ x \in LoadState /\ x.at = "fetching" /\ x.has_cache /\ x.request = r /\ x.published = load[l].published
        /\ x.cached = rows /\ x.cur = cur
    BY <1>1, <1>2, <2>2 DEF LoadState, Positions
  <2>4. load' = [load EXCEPT ![l] = x]
    BY <1>4 DEF CacheInv, cur
  <2> HIDE DEF x
  <2>5. \A t \in Times : ~(r.start <= t /\ Max(rows) <= t /\ t < cur)
    BY <1>2, <2>1, <2>2, BoundsAssumption DEF Times
  <2>6. Sound(x)
    BY <1>4, <2>3, <2>5 DEF Readable, Sound, Begun, Fetched, KeptInFile, Served, New
  <2> QED
    BY <1>1, <2>3, <2>4, <2>6, LoadMoves
<1>5. CASE Fails(l)
  BY <1>1, <1>5, FailsKeeps
<1> QED
  BY <1>3, <1>4, <1>5 DEF ReadCache

\* A chunk that arrives covers the bars up to where the next one begins.
LEMMA FetchChunkKeeps == ASSUME CacheInv, NEW l \in Loads, FetchChunk(l) PROVE CacheInv'
<1> DEFINE r == load[l].request
           nxt == ChunkEnd(l)
           part == source \cap (load[l].cur .. nxt)
           x == [load[l] EXCEPT !.cur = nxt + 1, !.retry_idx = 0, !.parts = load[l].parts \cup part]
<1>1. load[l] \in LoadState /\ Sound(load[l]) /\ load[l].at = "fetching" /\ file \in CacheFile /\ load[l].published \subseteq source
      /\ source' = source /\ file' = file /\ source \subseteq Times
  BY DEF CacheInv, FetchChunk
<1>2. nxt \in Int /\ load[l].cur \in Int
  <2>1. load[l].cur \in Int /\ load[l].request.end \in Int /\ load[l].cur + ChunkBars - 1 \in Int
    BY <1>1, BoundsAssumption DEF LoadState
  <2> QED
    BY <2>1, MinOfTwo DEF ChunkEnd
<1>3. load' = [load EXCEPT ![l] = x]
  BY DEF FetchChunk, CacheInv, NextChunk
<1> HIDE DEF nxt
<1>4. part \subseteq Times /\ \A t \in source : load[l].cur <= t /\ t <= nxt => t \in part
  <2>1. \A t \in source : t \in Int
    BY <1>1 DEF Times
  <2> HIDE DEF x
  <2> QED
    BY <1>1, <1>2, <2>1
<1> HIDE DEF part
<1>5. /\ x \in LoadState /\ x.at = "fetching" /\ x.has_cache = load[l].has_cache /\ x.request = r
      /\ x.published = load[l].published /\ x.cached = load[l].cached
      /\ x.cur = nxt + 1 /\ x.parts = load[l].parts \cup part
  <2>1. nxt + 1 \in Int /\ 0 \in 0 .. MaxRetries
    BY <1>2, BoundsAssumption
  <2>2. load[l].parts \cup part \in SUBSET Times
    BY <1>1, <1>4 DEF LoadState
  <2> QED
    BY <1>1, <2>1, <2>2 DEF LoadState
<1> HIDE DEF x
<1>6. Fetched(x)
  <2> SUFFICES ASSUME NEW t \in Times, New(x, t), t < x.cur PROVE t \in x.cached \cup x.parts
    BY DEF Fetched
  <2>1. New(load[l], t) /\ t \in source /\ t \in Int
    BY <1>1, <1>5 DEF New, Times
  <2>2. CASE t < load[l].cur
    BY <1>1, <1>5, <2>1, <2>2 DEF Sound, Fetched
  <2>3. CASE load[l].cur <= t
    BY <1>2, <1>4, <1>5, <2>1, <2>3
  <2> QED
    BY <1>2, <2>1, <2>2, <2>3
<1>7. Sound(x)
  BY <1>1, <1>5, <1>6 DEF Sound, Begun, KeptInFile, Served
<1> QED
  BY <1>1, <1>3, <1>5, <1>7, LoadMoves

\* A chunk that was refused is asked for again, from the same place.
LEMMA RateLimitedKeeps == ASSUME CacheInv, NEW l \in Loads, RateLimited(l) PROVE CacheInv'
<1> DEFINE x == [load[l] EXCEPT !.retry_idx = load[l].retry_idx + 1]
<1>1. load[l] \in LoadState /\ Sound(load[l]) /\ load[l].at = "fetching" /\ file \in CacheFile /\ load[l].published \subseteq source
      /\ source' = source /\ file' = file
  BY DEF CacheInv, RateLimited
<1>2. CASE Fails(l)
  BY <1>1, <1>2, FailsKeeps
<1>3. CASE load' = [load EXCEPT ![l].retry_idx = @ + 1] /\ load[l].retry_idx < MaxRetries
  <2>1. load' = [load EXCEPT ![l] = x]
    BY <1>3 DEF CacheInv
  <2>2. /\ x \in LoadState /\ x.at = "fetching" /\ x.has_cache = load[l].has_cache /\ x.request = load[l].request
        /\ x.published = load[l].published /\ x.cached = load[l].cached /\ x.cur = load[l].cur /\ x.parts = load[l].parts
    BY <1>1, <1>3, BoundsAssumption DEF LoadState
  <2> HIDE DEF x
  <2>3. Sound(x)
    BY <1>1, <2>2 DEF Sound, Begun, Fetched, KeptInFile, Served, New
  <2> QED
    BY <1>1, <2>1, <2>2, <2>3, LoadMoves
<1> QED
  BY <1>2, <1>3 DEF RateLimited

\* A load that ends has what it fetched, and what the cache had.
LEMMA EndIncrementKeeps == ASSUME CacheInv, NEW l \in Loads, EndIncrement(l) PROVE CacheInv'
<1> DEFINE r == load[l].request
           all == load[l].cached \cup load[l].parts
<1>1. load[l] \in LoadState /\ Sound(load[l]) /\ load[l].at = "fetching" /\ file \in CacheFile /\ load[l].published \subseteq source
      /\ source' = source /\ load[l].cur > r.end /\ load[l].has_cache
  BY DEF CacheInv, EndIncrement
<1>2. all \in SUBSET Times /\ load[l].cached \in SUBSET Times /\ r.start \in Int /\ r.end \in Int /\ load[l].cur \in Int
  BY <1>1, BoundsAssumption DEF LoadState
<1>3. \A t \in Times : New(load[l], t) /\ t <= r.end => t \in Clip(all, r)
  <2> SUFFICES ASSUME NEW t \in Times, New(load[l], t), t <= r.end PROVE t \in Clip(all, r)
    OBVIOUS
  <2>1. t \in Int /\ t < load[l].cur /\ r.start <= t
    BY <1>1, <1>2 DEF Times, New
  <2>2. t \in all
    BY <1>1, <2>1 DEF Sound, Fetched
  <2> QED
    BY <1>2, <2>1, <2>2 DEF Clip
<1>4. Clip(all, r) \in SUBSET Times /\ Clip(all, r) \subseteq r.start .. r.end
  BY <1>2 DEF Clip
<1>5. ASSUME NEW x \in LoadState, load' = [load EXCEPT ![l] = x], x.at \in {"writing", "done"}, file' \in CacheFile,
             x.served = Clip(all, r), x.at = "writing" => x.saved = all,
             x.request = r, x.has_cache = load[l].has_cache, x.cached = load[l].cached, x.published = load[l].published
      PROVE  CacheInv'
  <2>1. Sound(x)
    BY <1>1, <1>3, <1>4, <1>5 DEF Sound, Begun, Fetched, KeptInFile, Served, New
  <2> QED
    BY <1>1, <1>5, <2>1, LoadMoves
<1>6. CASE load[l].parts = {}
  <2> DEFINE x == [load[l] EXCEPT !.at = "done", !.served = Clip(all, r)]
  <2>1. all = load[l].cached
    BY <1>6
  <2>2. load' = [load EXCEPT ![l] = x] /\ file' = file
    BY <1>6, <2>1 DEF EndIncrement, CacheInv
  <2>3. x \in LoadState /\ x.at = "done" /\ x.served = Clip(all, r) /\ x.request = r /\ x.has_cache = load[l].has_cache
        /\ x.cached = load[l].cached /\ x.published = load[l].published
    BY <1>1, <1>4 DEF LoadState, Positions
  <2> HIDE DEF x
  <2> QED
    BY <1>1, <1>5, <2>2, <2>3
<1>7. CASE load[l].parts # {}
  <2> DEFINE x == [load[l] EXCEPT !.at = "writing", !.saved = all, !.served = Clip(all, r)]
  <2>1. /\ load' = [load EXCEPT ![l].at = "writing", ![l].saved = all, ![l].served = Clip(all, r)]
        /\ file' = [exists |-> TRUE, rows |-> {}]
    BY <1>7 DEF EndIncrement, Saves
  <2>0. load' = [load EXCEPT ![l] = x] /\ file' \in CacheFile
    BY <2>1 DEF CacheInv, CacheFile
  <2>2. x \in LoadState /\ x.at = "writing" /\ x.served = Clip(all, r) /\ x.saved = all /\ x.request = r
        /\ x.has_cache = load[l].has_cache /\ x.cached = load[l].cached /\ x.published = load[l].published
    BY <1>1, <1>2, <1>4 DEF LoadState, Positions
  <2> HIDE DEF x
  <2> QED
    BY <1>5, <2>0, <2>2
<1> QED
  BY <1>6, <1>7

\* A load without a cache has every bar of its window.
LEMMA EndFullFetchKeeps == ASSUME CacheInv, NEW l \in Loads, EndFullFetch(l) PROVE CacheInv'
<1> DEFINE r == load[l].request
           rows == Clip(load[l].parts, r)
<1>1. load[l] \in LoadState /\ Sound(load[l]) /\ load[l].at = "fetching" /\ file \in CacheFile /\ load[l].published \subseteq source
      /\ source' = source /\ load[l].cur > r.end /\ ~load[l].has_cache
  BY DEF CacheInv, EndFullFetch
<1>2. r.start \in Int /\ r.end \in Int /\ load[l].cur \in Int /\ load[l].parts \in SUBSET Times
  BY <1>1, BoundsAssumption DEF LoadState
<1>3. rows \in SUBSET Times /\ rows \subseteq r.start .. r.end
  BY <1>2 DEF Clip
<1>4. \A t \in Times : New(load[l], t) /\ t <= r.end => t \in rows
  <2> SUFFICES ASSUME NEW t \in Times, New(load[l], t), t <= r.end PROVE t \in rows
    OBVIOUS
  <2>1. t \in Int /\ t < load[l].cur /\ r.start <= t
    BY <1>1, <1>2 DEF Times, New
  <2>2. t \in load[l].parts
    BY <1>1, <2>1 DEF Sound, Fetched, Begun
  <2> QED
    BY <1>2, <2>1, <2>2 DEF Clip
<1> HIDE DEF rows
<1>5. ASSUME NEW x \in LoadState, load' = [load EXCEPT ![l] = x], x.at \in {"writing", "done"}, file' \in CacheFile,
             x.served = rows, x.request = r, x.has_cache = load[l].has_cache, x.cached = load[l].cached,
             x.published = load[l].published
      PROVE  CacheInv'
  <2>1. Sound(x)
    BY <1>1, <1>3, <1>4, <1>5 DEF Sound, Begun, Fetched, KeptInFile, Served, New
  <2> QED
    BY <1>1, <1>5, <2>1, LoadMoves
<1>6. CASE Fails(l) /\ file' = file
  BY <1>1, <1>6, FailsKeeps
<1>7. CASE Saves(l, rows) /\ file' = [exists |-> TRUE, rows |-> {}]
  <2> DEFINE x == [load[l] EXCEPT !.at = "writing", !.saved = rows, !.served = Clip(rows, r)]
  <2>1. load' = [load EXCEPT ![l] = x] /\ file' \in CacheFile
    BY <1>7 DEF Saves, CacheInv, CacheFile
  <2>2. Clip(rows, r) = rows
    BY <1>3 DEF Clip
  <2>3. x \in LoadState /\ x.at = "writing" /\ x.served = rows /\ x.request = r
        /\ x.has_cache = load[l].has_cache /\ x.cached = load[l].cached /\ x.published = load[l].published
    BY <1>1, <1>3, <2>2 DEF LoadState, Positions
  <2> HIDE DEF x
  <2> QED
    BY <1>5, <2>1, <2>3
<1>8. CASE load' = [load EXCEPT ![l].at = "done", ![l].served = rows] /\ file' = file
  <2> DEFINE x == [load[l] EXCEPT !.at = "done", !.served = rows]
  <2>1. load' = [load EXCEPT ![l] = x]
    BY <1>8 DEF CacheInv
  <2>2. x \in LoadState /\ x.at = "done" /\ x.served = rows /\ x.request = r
        /\ x.has_cache = load[l].has_cache /\ x.cached = load[l].cached /\ x.published = load[l].published
    BY <1>1, <1>3 DEF LoadState, Positions
  <2> HIDE DEF x
  <2> QED
    BY <1>1, <1>5, <1>8, <2>1, <2>2
<1> QED
  BY <1>6, <1>7, <1>8 DEF EndFullFetch, rows

\* What is written does not change what is served.
LEMMA WriteKeeps == ASSUME CacheInv, NEW l \in Loads, Write(l) PROVE CacheInv'
<1> DEFINE x == [load[l] EXCEPT !.at = "done"]
<1>1. load[l] \in LoadState /\ Sound(load[l]) /\ load[l].at = "writing" /\ file \in CacheFile /\ load[l].published \subseteq source
      /\ source' = source
  BY DEF CacheInv, Write
<1>2. file' \in CacheFile
  BY <1>1 DEF Write, CacheFile, LoadState
<1>3. load' = [load EXCEPT ![l] = x]
  BY DEF Write, CacheInv
<1>4. x \in LoadState /\ x.at = "done" /\ x.served = load[l].served /\ x.request = load[l].request
      /\ x.has_cache = load[l].has_cache /\ x.cached = load[l].cached /\ x.published = load[l].published
  BY <1>1 DEF LoadState, Positions
<1> HIDE DEF x
<1>5. Sound(x)
  BY <1>1, <1>4 DEF Sound, Begun, Fetched, KeptInFile, Served, New
<1> QED
  BY <1>1, <1>2, <1>3, <1>4, <1>5, LoadMoves

\* A crash while the cache is written loses rows of the file, and the load.
LEMMA CrashKeeps == ASSUME CacheInv, NEW l \in Loads, CrashWriting(l) PROVE CacheInv'
<1>1. load[l] \in LoadState /\ file \in CacheFile /\ source' = source /\ Fails(l)
  BY DEF CacheInv, CrashWriting
<1>2. PICK t \in 0 .. LastBar : file' = IF file.exists THEN [file EXCEPT !.rows = load[l].saved \cap (1 .. t)] ELSE file
  BY DEF CrashWriting
<1>3. load[l].saved \cap (1 .. t) \in SUBSET Times
  BY <1>1 DEF LoadState
<1>4. file' \in CacheFile
  BY <1>1, <1>2, <1>3 DEF CacheFile
<1> QED
  BY <1>1, <1>4, FailsKeeps

\* Each step keeps what every load is worth.
LEMMA CacheStep == CacheInv /\ [TcNext]_tcVars => CacheInv'
<1> SUFFICES ASSUME CacheInv, [TcNext]_tcVars PROVE CacheInv'
  OBVIOUS
<1>1. CASE Publish
  BY <1>1 DEF Publish, CacheInv
<1>2. CASE CleanedUp
  BY <1>2 DEF CleanedUp, CacheInv, CacheFile
<1>3. ASSUME NEW l \in Loads, LoadStep(l) PROVE CacheInv'
  <2>1. CASE CallFails(l)
    BY <2>1, FailsKeeps DEF CallFails, CacheInv
  <2> QED
    BY <1>3, <2>1, BeginKeeps, ReadCacheKeeps, FetchChunkKeeps, RateLimitedKeeps, EndIncrementKeeps,
       EndFullFetchKeeps, WriteKeeps, CrashKeeps DEF LoadStep
<1>4. CASE UNCHANGED tcVars
  BY <1>4 DEF tcVars, CacheInv
<1> QED
  BY <1>1, <1>2, <1>3, <1>4 DEF TcNext

\* Before the first load nothing is known.
LEMMA CacheInitial == TcInit => CacheInv
<1> SUFFICES ASSUME TcInit PROVE CacheInv
  OBVIOUS
<1>1. source \subseteq Times /\ file \in CacheFile
  BY BoundsAssumption DEF TcInit, Times, CacheFile
<1>2. \A r \in Requests : NotBegun(r) \in LoadState
  BY BoundsAssumption DEF NotBegun, LoadState, Positions
<1>3. \A r \in Requests : Sound(NotBegun(r)) /\ NotBegun(r).published = {}
  BY DEF NotBegun, Sound, Begun, Fetched, KeptInFile, Served
<1> QED
  BY <1>1, <1>2, <1>3 DEF TcInit, CacheInv

\* A load of which all this is so is complete.
LEMMA CacheHolds == CacheInv => LoadIsComplete
<1> SUFFICES ASSUME CacheInv, NEW l \in Loads
             PROVE  LET r == load[l].request
                        missing == (load[l].published \cap (r.start .. r.end)) \ load[l].served
                    IN  /\ load[l].at = "writing" /\ load[l].has_cache => load[l].cached \subseteq load[l].saved
                        /\ load[l].at = "done" =>
                            /\ load[l].served \subseteq r.start .. r.end
                            /\ ~load[l].has_cache => missing = {}
                            /\ load[l].has_cache /\ r.incremental => \A t \in missing : t < Max(load[l].cached)
  BY DEF LoadIsComplete
<1> DEFINE r == load[l].request
           missing == (load[l].published \cap (r.start .. r.end)) \ load[l].served
<1>1. Sound(load[l]) /\ load[l] \in LoadState /\ r.start \in Int /\ r.end \in Int
  BY BoundsAssumption DEF CacheInv, LoadState
<1>2. \A t \in missing : t \in Times /\ t \in Int /\ t \in load[l].published /\ r.start <= t /\ t <= r.end /\ t \notin load[l].served
  BY <1>1 DEF LoadState, Times
<1>3. ASSUME load[l].at = "done", ~load[l].has_cache PROVE missing = {}
  BY <1>1, <1>2, <1>3 DEF Sound, Served, New
<1>4. ASSUME load[l].at = "done", load[l].has_cache, r.incremental, NEW t \in missing PROVE t < Max(load[l].cached)
  <2>1. ~(Max(load[l].cached) <= t)
    BY <1>1, <1>2, <1>4 DEF Sound, Served, New
  <2>2. Max(load[l].cached) \in Int
    BY <1>1, <1>4, MaxOfTimes DEF Sound, Begun, LoadState, Times
  <2> QED
    BY <1>2, <2>1, <2>2
<1> QED
  BY <1>1, <1>3, <1>4 DEF Sound, KeptInFile, Served
\* Whatever the other loads, the cleanup and the source do meanwhile, a load serves every bar
\* of its window that was published when it began, except those older than the end of the
\* cache it went on from, and it saves nothing less than the cache it had read.
THEOREM LoadsAreComplete == TcSpec => []LoadIsComplete
<1>1. TcSpec => []CacheInv
  BY CacheInitial, CacheStep, PTL DEF TcSpec
<1> QED
  BY <1>1, CacheHolds, PTL

-----------------------------------------------------------------------------
\* Loads from a database.

\* A load is a record, so that its position is what a step assigns to it.
IsLoad == "at" \in DOMAIN job /\ job = [x \in DOMAIN job |-> job[x]]
OpenInv == IsLoad /\ NothingLeftOpen

\* Before the first load nothing is open.
LEMMA SessionInitial == LoadInit => OpenInv
BY DEF LoadInit, Idle, OpenInv, IsLoad, NothingLeftOpen

\* Each step of a load keeps what it opened until it closes both.
LEMMA SessionStep == OpenInv /\ [LoadNext]_loadVars => OpenInv'
<1> SUFFICES ASSUME OpenInv, [LoadNext]_loadVars PROVE OpenInv'
  OBVIOUS
<1> USE DEF NothingLeftOpen, OpenInv, IsLoad
<1>1. ASSUME NEW item \in Items, BeginPostgres(item) \/ LoadFile(item) PROVE OpenInv'
  <2>1. session = {} /\ session' = session
    BY <1>1 DEF BeginPostgres, LoadFile
  <2>2. IsLoad'
    BY <1>1 DEF BeginPostgres, LoadFile, Idle
  <2> QED
    BY <2>1, <2>2
<1>2. CASE StartTunnel
  BY <1>2 DEF StartTunnel, JobGoes
<1>3. CASE Connect
  BY <1>3 DEF Connect, JobGoes
<1>4. CASE Query \/ QueryFails
  BY <1>4 DEF Query, QueryFails, JobGoes
<1>5. CASE FallBack
  BY <1>5 DEF FallBack, Closed
<1>6. CASE PostgresFails \/ ServerBarsArrive \/ RowsArrive
  BY <1>6 DEF PostgresFails, ServerBarsArrive, RowsArrive, Closed, JobGoes
<1>7. CASE LoadEnds
  BY <1>7 DEF LoadEnds, JobGoes
<1>8. CASE UNCHANGED loadVars
  BY <1>8 DEF loadVars
<1> QED
  BY <1>1, <1>2, <1>3, <1>4, <1>5, <1>6, <1>7, <1>8 DEF LoadNext

\* A load that is over, whether it got its rows or failed at any point, has left neither the
\* connection nor the tunnel open: the error paths close what had been opened so far.
THEOREM NothingStaysOpen == LoadSpec => []NothingLeftOpen
<1>1. OpenInv => NothingLeftOpen
  BY DEF OpenInv
<1> QED
  BY <1>1, SessionInitial, SessionStep, PTL DEF LoadSpec

-----------------------------------------------------------------------------
\* Rows that a condition picks.

Keep(picked, kept, r) == IF r \in picked THEN Append(kept, r) ELSE kept
NoRows(picked) == <<>>
R == INSTANCE FoldLemmas WITH op <- Keep, base <- NoRows

\* Where is a fold.
LEMMA WhereIsFold == \A rows, picked : Where(rows, picked) = R!Fold(picked, rows)
BY DEF Where, Keep, NoRows, R!Fold, FoldLeft, MapThenFoldSet, Max, R!MapThenFoldSet, R!Max

\* The places of the rows that are picked, in order: g takes the places of t to them.
Picks(s, picked, t, g) ==
    /\ g \in [1 .. Len(t) -> DOMAIN s]
    /\ \A k \in 1 .. Len(t) : t[k] = s[g[k]]
    /\ \A i, j \in 1 .. Len(t) : i < j => g[i] < g[j]
    /\ \A i \in DOMAIN s : s[i] \in picked <=> \E k \in 1 .. Len(t) : g[k] = i

\* One row more is picked or not.
LEMMA PicksAppend ==
    ASSUME NEW E, NEW s \in Seq(E), NEW picked, NEW t \in Seq(E), NEW g, Picks(s, picked, t, g), NEW x \in E
    PROVE  /\ x \in picked => \E h : Picks(Append(s, x), picked, Append(t, x), h)
           /\ x \notin picked => Picks(Append(s, x), picked, t, g)
<1> DEFINE s1 == Append(s, x)
           t1 == Append(t, x)
<1>1. /\ s1 \in Seq(E) /\ DOMAIN s1 = 1 .. Len(s) + 1 /\ DOMAIN s = 1 .. Len(s) /\ Len(s) \in Nat
      /\ \A i \in 1 .. Len(s) : s1[i] = s[i]
      /\ s1[Len(s) + 1] = x
  OBVIOUS
<1>2. /\ Len(t) \in Nat /\ Len(t1) = Len(t) + 1 /\ t1[Len(t) + 1] = x
      /\ \A k \in 1 .. Len(t) : t1[k] = t[k]
  OBVIOUS
<1>3. g \in [1 .. Len(t) -> 1 .. Len(s)]
  BY <1>1 DEF Picks
<1>4. ASSUME x \in picked PROVE \E h : Picks(s1, picked, t1, h)
  <2> DEFINE h == [k \in 1 .. Len(t) + 1 |-> IF k <= Len(t) THEN g[k] ELSE Len(s) + 1]
  <2>1. /\ h \in [1 .. Len(t1) -> DOMAIN s1] /\ h[Len(t) + 1] = Len(s) + 1
        /\ \A k \in 1 .. Len(t) : h[k] = g[k] /\ g[k] \in 1 .. Len(s)
    <3>1. PICK m \in Nat, n \in Nat : m = Len(t) /\ n = Len(s)
      BY <1>1, <1>2
    <3>2. Len(t1) = m + 1 /\ DOMAIN s1 = 1 .. n + 1 /\ g \in [1 .. m -> 1 .. n]
      BY <1>1, <1>2, <1>3, <3>1
    <3>3. h = [k \in 1 .. m + 1 |-> IF k <= m THEN g[k] ELSE n + 1]
      BY <3>1
    <3> HIDE DEF h, s1, t1
    <3>4. \A k \in 1 .. m : k \in 1 .. m + 1 /\ h[k] = g[k] /\ g[k] \in 1 .. n
      BY <3>2, <3>3
    <3>5. h[m + 1] = n + 1
      BY <3>3
    <3>6. h \in [1 .. m + 1 -> 1 .. n + 1]
      <4>1. \A k \in 1 .. m + 1 : (IF k <= m THEN g[k] ELSE n + 1) \in 1 .. n + 1
        BY <3>2
      <4> QED
        BY <3>3, <4>1
    <3> QED
      BY <3>1, <3>2, <3>4, <3>5, <3>6
  <2> HIDE DEF h, s1, t1
  <2>2. \A k \in 1 .. Len(t1) : k \in 1 .. Len(t) \/ k = Len(t) + 1
    BY <1>2
  <2>3. \A k \in 1 .. Len(t1) : t1[k] = s1[h[k]]
    BY <1>1, <1>2, <2>1, <2>2 DEF Picks
  <2>4. \A i, j \in 1 .. Len(t1) : i < j => h[i] < h[j]
    <3> TAKE i, j \in 1 .. Len(t1)
    <3> HAVE i < j
    <3>1. i \in 1 .. Len(t)
      BY <1>2
    <3>2. CASE j = Len(t) + 1
      <4>1. PICK n \in Nat : n = Len(s)
        BY <1>1
      <4>2. h[i] \in 1 .. n /\ h[j] = n + 1
        BY <2>1, <3>1, <3>2, <4>1
      <4> QED
        BY <4>2
    <3>3. CASE j \in 1 .. Len(t)
      <4>1. g[i] < g[j]
        BY <3>1, <3>3 DEF Picks
      <4>2. h[i] = g[i] /\ h[j] = g[j]
        BY <2>1, <3>1, <3>3
      <4> QED
        BY <4>1, <4>2
    <3> QED
      BY <2>2, <3>2, <3>3
  <2>5. \A i \in DOMAIN s1 : s1[i] \in picked <=> \E k \in 1 .. Len(t1) : h[k] = i
    <3> TAKE i \in DOMAIN s1
    <3>1. CASE i = Len(s) + 1
      BY <1>1, <1>2, <1>4, <2>1, <3>1
    <3>2. CASE i \in 1 .. Len(s)
      <4>1. s1[i] \in picked <=> \E k \in 1 .. Len(t) : g[k] = i
        BY <1>1, <3>2 DEF Picks
      <4>2. (\E k \in 1 .. Len(t1) : h[k] = i) <=> (\E k \in 1 .. Len(t) : g[k] = i)
        <5>1. ASSUME NEW k \in 1 .. Len(t1), h[k] = i PROVE \E j \in 1 .. Len(t) : g[j] = i
          <6>1. k # Len(t) + 1
            BY <1>1, <2>1, <3>2, <5>1
          <6> QED
            BY <2>1, <2>2, <5>1, <6>1
        <5>2. ASSUME NEW k \in 1 .. Len(t), g[k] = i PROVE \E j \in 1 .. Len(t1) : h[j] = i
          BY <1>2, <2>1, <5>2
        <5> QED
          BY <5>1, <5>2
      <4> QED
        BY <4>1, <4>2
    <3> QED
      BY <1>1, <3>1, <3>2
  <2> QED
    BY <2>1, <2>3, <2>4, <2>5 DEF Picks
<1>5. ASSUME x \notin picked PROVE Picks(s1, picked, t, g)
  <2> HIDE DEF s1
  <2>1. \A i \in DOMAIN s1 : s1[i] \in picked <=> \E k \in 1 .. Len(t) : g[k] = i
    BY <1>1, <1>3, <1>5 DEF Picks
  <2>2. g \in [1 .. Len(t) -> DOMAIN s1]
    BY <1>1, <1>2, <1>3
  <2>3. \A k \in 1 .. Len(t) : g[k] \in 1 .. Len(s) /\ t[k] = s[g[k]]
    BY <1>3 DEF Picks
  <2>4. \A k \in 1 .. Len(t) : t[k] = s1[g[k]]
    BY <1>1, <2>3
  <2> QED
    BY <2>1, <2>2, <2>4 DEF Picks
<1> QED
  BY <1>4, <1>5

Picking(E, picked, s, t) == t \in Seq(E) /\ \E g : Picks(s, picked, t, g)

\* Where keeps the rows that are picked, each once and in order.
LEMMA WherePicks ==
    ASSUME NEW E, NEW s \in Seq(E), NEW picked
    PROVE  Where(s, picked) \in Seq(E) /\ \E g : Picks(s, picked, Where(s, picked), g)
<1> DEFINE Good == {r \in Seq(E) : Picking(E, picked, r, R!Fold(picked, r))}
<1>1. <<>> \in Good
  <2>1. R!Fold(picked, <<>>) = <<>>
    BY R!FoldEmpty DEF NoRows
  <2>2. Picks(<<>>, picked, <<>>, <<>>)
    BY DEF Picks
  <2>3. Picking(E, picked, <<>>, <<>>)
    BY <2>2 DEF Picking
  <2> QED
    BY <2>1, <2>3
<1>2. ASSUME NEW r \in Seq(E), NEW x \in E, r \in Good PROVE Append(r, x) \in Good
  <2> DEFINE t == R!Fold(picked, r)
             kept == IF x \in picked THEN Append(t, x) ELSE t
  <2>1. R!Fold(picked, Append(r, x)) = kept
    BY R!FoldAppend DEF Keep
  <2>2. t \in Seq(E) /\ \E g : Picks(r, picked, t, g)
    BY <1>2 DEF Picking
  <2>3. Picking(E, picked, Append(r, x), kept)
    <3> HIDE DEF t
    <3>1. CASE x \in picked
      BY <2>2, <3>1, PicksAppend DEF Picking
    <3>2. CASE x \notin picked
      BY <2>2, <3>2, PicksAppend DEF Picking
    <3> QED
      BY <3>1, <3>2
  <2>4. Append(r, x) \in Seq(E)
    OBVIOUS
  <2> HIDE DEF kept
  <2> QED
    BY <2>1, <2>3, <2>4
<1>3. Seq(E) \subseteq Good
  <2> HIDE DEF Good
  <2> QED
    BY <1>1, <1>2, R!SequenceInduction
<1> QED
  BY <1>3, WhereIsFold DEF Picking

\* If every row is picked nothing is dropped.
LEMMA WhereAll ==
    ASSUME NEW E, NEW s \in Seq(E), NEW picked, ToSet(s) \subseteq picked
    PROVE  Where(s, picked) = s
<1> DEFINE Good == {r \in Seq(E) : ToSet(r) \subseteq picked => R!Fold(picked, r) = r}
<1>1. <<>> \in Good
  BY R!FoldEmpty DEF NoRows
<1>2. ASSUME NEW r \in Seq(E), NEW x \in E, r \in Good PROVE Append(r, x) \in Good
  <2>1. R!Fold(picked, Append(r, x)) = IF x \in picked THEN Append(R!Fold(picked, r), x) ELSE R!Fold(picked, r)
    BY R!FoldAppend DEF Keep
  <2> QED
    BY <1>2, <2>1, ToSetAppend
<1>3. Seq(E) \subseteq Good
  <2> HIDE DEF Good
  <2> QED
    BY <1>1, <1>2, R!SequenceInduction
<1> QED
  BY <1>3, WhereIsFold

-----------------------------------------------------------------------------
\* Bars of ticks.

\* Division leaves a remainder that is less than the divisor.
LEMMA Division ==
    ASSUME NEW t \in Int, NEW n \in Nat \ {0}
    PROVE  t \div n \in Int /\ t % n \in 0 .. n - 1 /\ t = (t \div n) * n + (t % n)
  OBVIOUS

\* What leaves no remainder is a multiple.
LEMMA Divisible ==
    ASSUME NEW a \in Int, NEW n \in Nat \ {0}, a % n = 0
    PROVE  \E k \in Int : a = k * n
<1>1. a \div n \in Int /\ a = (a \div n) * n
  BY Division
<1> QED
  BY <1>1

\* There is one multiple of n in a period of that length.
LEMMA OneMultiple ==
    ASSUME NEW t \in Int, NEW n \in Nat \ {0}, NEW q \in Int, q * n <= t, t < q * n + n
    PROVE  Floor(t, n) = q * n
<1> DEFINE r == t \div n
<1>1. r \in Int /\ r * n <= t /\ t < r * n + n /\ r * n \in Int /\ q * n \in Int
  BY Division
<1>2. Floor(t, n) = r * n
  BY DEF Floor
<1> HIDE DEF r
<1>3. CASE r < q
  <2>1. (r + 1) * n <= q * n
    BY <1>1, <1>3
  <2>2. (r + 1) * n = r * n + n
    BY <1>1
  <2> QED
    BY <1>1, <2>1, <2>2
<1>4. CASE q < r
  <2>1. (q + 1) * n <= r * n
    BY <1>1, <1>4
  <2>2. (q + 1) * n = q * n + n
    BY <1>1
  <2> QED
    BY <1>1, <2>1, <2>2
<1> QED
  BY <1>1, <1>2, <1>3, <1>4

\* Floor takes a time to the start of its period.
LEMMA FloorIs ==
    ASSUME NEW t \in Nat, NEW n \in Nat \ {0}
    PROVE  /\ Floor(t, n) \in Int /\ Floor(t, n) <= t /\ t < Floor(t, n) + n /\ Floor(t, n) % n = 0
           /\ \E q \in Int : Floor(t, n) = q * n
<1>1. t \div n \in Int /\ t % n \in 0 .. n - 1 /\ t = (t \div n) * n + (t % n)
  BY Division
<1>2. ((t \div n) * n) % n = 0
  BY <1>1
<1>3. \E q \in Int : Floor(t, n) = q * n
  BY <1>1 DEF Floor
<1>4. Floor(t, n) = (t \div n) * n /\ (t \div n) * n \in Int
  BY <1>1 DEF Floor
<1>5. Floor(t, n) <= t /\ t < Floor(t, n) + n
  BY <1>1, <1>4
<1> HIDE DEF Floor
<1> QED
  BY <1>2, <1>3, <1>4, <1>5

\* Periods may be counted from any of their starts.
LEMMA FloorFrom ==
    ASSUME NEW t \in Int, NEW n \in Nat \ {0}, NEW m \in Int
    PROVE  m * n + Floor(t - m * n, n) = Floor(t, n)
<1> DEFINE u == t - m * n
           q == u \div n
<1>1. m * n \in Int /\ u \in Int
  OBVIOUS
<1>2. q \in Int /\ q * n \in Int /\ q * n <= u /\ u < q * n + n
  BY <1>1, Division
<1>3. Floor(u, n) = q * n
  BY DEF Floor
<1> HIDE DEF q
<1>4. (m + q) * n = m * n + q * n /\ m + q \in Int
  BY <1>1, <1>2
<1>5. Floor(t, n) = (m + q) * n
  <2>1. (m + q) * n <= t /\ t < (m + q) * n + n
    BY <1>1, <1>2, <1>4
  <2> QED
    BY <1>4, <2>1, OneMultiple
<1> QED
  BY <1>3, <1>4, <1>5

TickRow == [time : Nat, price : Nat]

\* Times of one period start it together.
LEMMA SamePeriod ==
    ASSUME NEW t \in Nat, NEW u \in Nat, NEW len \in Nat \ {0}
    PROVE  Floor(t, len) = Floor(u, len) <=> Floor(u, len) <= t /\ t < Floor(u, len) + len
<1>1. PICK q \in Int : Floor(u, len) = q * len
  BY FloorIs
<1>2. ASSUME Floor(u, len) <= t, t < Floor(u, len) + len PROVE Floor(t, len) = Floor(u, len)
  <2>1. q * len <= t /\ t < q * len + len /\ t \in Int
    BY <1>1, <1>2
  <2> HIDE DEF Floor
  <2> QED
    BY <1>1, <2>1, OneMultiple
<1> QED
  BY <1>2, FloorIs

\* The counted rows of the period from b on.
OfPeriod(rows, counted, b, len) == {i \in counted : b <= rows[i].time /\ rows[i].time < b + len}
Starts(rows, counted, len) == {Floor(rows[i].time, len) : i \in counted}

\* A period is told by its start.
LEMMA PeriodOf ==
    ASSUME NEW rows \in Seq(TickRow), NEW counted \in SUBSET DOMAIN rows, NEW len \in Nat \ {0},
           NEW b \in Starts(rows, counted, len)
    PROVE  /\ b \in Int /\ b % len = 0 /\ OfPeriod(rows, counted, b, len) # {}
           /\ OfPeriod(rows, counted, b, len) = {i \in counted : Floor(rows[i].time, len) = b}
<1>1. \A i \in counted : rows[i].time \in Nat
  <2>1. \A i \in DOMAIN rows : rows[i] \in TickRow
    OBVIOUS
  <2> QED
    BY <2>1 DEF TickRow
<1>2. PICK j \in counted : b = Floor(rows[j].time, len)
  BY DEF Starts
<1>3. \A i \in counted : Floor(rows[i].time, len) = b <=> b <= rows[i].time /\ rows[i].time < b + len
  BY <1>1, <1>2, SamePeriod
<1>4. b \in Int /\ b % len = 0 /\ j \in OfPeriod(rows, counted, b, len)
  BY <1>1, <1>2, FloorIs DEF OfPeriod
<1> QED
  BY <1>3, <1>4 DEF OfPeriod

\* A bar of a period from a row of its first time to one of its last.
BarOfPeriod(bar, rows, I) ==
    \E first \in Earliest(rows, I), last \in Latest(rows, I) :
        rows[first].price > 0 /\ rows[last].price > 0 /\ bar = BarOf(rows, I, first, last)

\* Bars of that kind tell the rows, if they leave out no period without a reason.
LEMMA BarsTell ==
    ASSUME NEW rows \in Seq(TickRow), NEW counted \in SUBSET DOMAIN rows, NEW len \in Nat \ {0}, NEW bars,
           DOMAIN bars \subseteq Starts(rows, counted, len),
           \A b \in DOMAIN bars : BarOfPeriod(bars[b], rows, OfPeriod(rows, counted, b, len)),
           \A b \in Starts(rows, counted, len) \ DOMAIN bars :
              LET I == OfPeriod(rows, counted, b, len) IN \E i \in Earliest(rows, I) \cup Latest(rows, I) : rows[i].price = 0
    PROVE  Tell(bars, rows, counted, len)
<1>1. ASSUME NEW b \in DOMAIN bars
      PROVE  LET I == OfPeriod(rows, counted, b, len)
             IN  /\ b % len = 0 /\ I # {}
                 /\ bars[b].open \in {rows[i].price : i \in Earliest(rows, I)} \ {0}
                 /\ bars[b].close \in {rows[i].price : i \in Latest(rows, I)} \ {0}
                 /\ bars[b].high = Max(PricesIn(rows, I)) /\ bars[b].low = Min(PricesIn(rows, I))
                 /\ bars[b].ticks = Cardinality(I)
  <2> DEFINE I == OfPeriod(rows, counted, b, len)
  <2>1. b % len = 0 /\ I # {}
    BY <1>1, PeriodOf
  <2>2. PICK first \in Earliest(rows, I), last \in Latest(rows, I) :
            rows[first].price > 0 /\ rows[last].price > 0 /\ bars[b] = BarOf(rows, I, first, last)
    BY <1>1 DEF BarOfPeriod
  <2> HIDE DEF I
  <2>3. rows[first].price # 0 /\ rows[last].price # 0
    BY <2>2
  <2> QED
    BY <2>1, <2>2, <2>3 DEF BarOf, I
<1> QED
  BY <1>1 DEF Tell, OfPeriod, Starts

-----------------------------------------------------------------------------
\* The bars of the database and of the program are of that kind.

\* Of some rows one is the latest.
LEMMA LatestExists ==
    ASSUME NEW rows \in Seq(TickRow), NEW I \in SUBSET DOMAIN rows, I # {}
    PROVE  Latest(rows, I) # {}
<1>1. \A i \in I : rows[i].time \in Nat
  <2>1. \A i \in DOMAIN rows : rows[i] \in TickRow
    OBVIOUS
  <2> QED
    BY <2>1 DEF TickRow
<1>2. IsFiniteSet(I)
  <2>1. DOMAIN rows = 1 .. Len(rows) /\ Len(rows) \in Nat
    OBVIOUS
  <2>2. IsFiniteSet(1 .. Len(rows))
    BY <2>1, FS_Interval
  <2> QED
    BY <2>1, <2>2, FS_Subset
<1> DEFINE Good == {T \in SUBSET I : T # {} => \E i \in T : \A j \in T : rows[j].time <= rows[i].time}
<1>3. {} \in Good
  OBVIOUS
<1>4. ASSUME NEW T \in SUBSET I, NEW x \in I, x \notin T, T \in Good PROVE T \union {x} \in Good
  <2>1. CASE T = {}
    BY <1>1, <2>1
  <2>2. CASE T # {}
    <3>1. PICK i \in T : \A j \in T : rows[j].time <= rows[i].time
      BY <1>4, <2>2
    <3>2. CASE rows[x].time <= rows[i].time
      BY <3>1, <3>2
    <3>3. CASE ~(rows[x].time <= rows[i].time)
      <4>1. \A j \in T \union {x} : rows[j].time <= rows[x].time
        BY <1>1, <3>1, <3>3
      <4> QED
        BY <4>1
    <3> QED
      BY <3>2, <3>3
  <2> QED
    BY <2>1, <2>2
<1> HIDE DEF Good
<1>5. IsFiniteSet(I) => C!IsFiniteSet(I)
  BY DEF IsFiniteSet, C!IsFiniteSet
<1>6. I \in Good
  BY <1>2, <1>3, <1>4, <1>5, C!SetInduction
<1> QED
  BY <1>6 DEF Good, Latest

\* Of some rows one is the earliest, and the places of the earliest have a least and those of the
\* latest a greatest.
LEMMA EndsExist ==
    ASSUME NEW rows \in Seq(TickRow), NEW I \in SUBSET DOMAIN rows, I # {}
    PROVE  /\ Min(Earliest(rows, I)) \in Earliest(rows, I)
           /\ Max(Latest(rows, I)) \in Latest(rows, I)
<1>1. \A i \in I : rows[i].time \in Nat
  <2>1. \A i \in DOMAIN rows : rows[i] \in TickRow
    OBVIOUS
  <2> QED
    BY <2>1 DEF TickRow
<1>2. DOMAIN rows = 1 .. Len(rows) /\ Len(rows) \in Nat
  OBVIOUS
<1> DEFINE times == {rows[i].time : i \in I}
<1>3. Earliest(rows, I) # {}
  <2>1. times \in SUBSET Nat /\ times # {}
    BY <1>1
  <2> HIDE DEF times
  <2>2. PICK t \in times : \A u \in times : t <= u
    BY <2>1, C!LeastNumber
  <2> QED
    BY <2>2 DEF Earliest, times
<1>4. Min(Earliest(rows, I)) \in Earliest(rows, I)
  <2>1. Earliest(rows, I) \in SUBSET Nat
    BY <1>2 DEF Earliest
  <2> QED
    BY <1>3, <2>1, MinIsMember
<1>5. Max(Latest(rows, I)) \in Latest(rows, I)
  <2>1. Latest(rows, I) \in SUBSET (1 .. Len(rows)) /\ Latest(rows, I) # {}
    BY <1>2, LatestExists DEF Latest
  <2>2. C!Max(Latest(rows, I)) \in Latest(rows, I)
    BY <1>2, <2>1, C!MaxOf
  <2> QED
    BY <2>2 DEF Max, C!Max
<1> QED
  BY <1>4, <1>5

-----------------------------------------------------------------------------
\* Both kinds of buckets are periods, if the period divides the hour or the day.

\* A period that divides a longer one may be counted in each of the longer ones.
LEMMA FloorIn ==
    ASSUME NEW t \in Nat, NEW long \in Nat \ {0}, NEW n \in Nat \ {0}, NEW k \in Int, long = k * n
    PROVE  Floor(t, long) + Floor(t % long, n) = Floor(t, n)
<1> t \in Int
  OBVIOUS
<1>0. t \div long \in Int /\ t % long \in 0 .. long - 1 /\ t = (t \div long) * long + (t % long)
  BY Division
<1>1. PICK q \in Int : q = t \div long /\ t % long \in Int /\ t = q * long + (t % long)
  BY <1>0
<1>2. Floor(t, long) = q * long
  BY <1>1 DEF Floor
<1>3. PICK m \in Int : m = q * k
  OBVIOUS
<1>4. q * long = m * n
  BY <1>3
<1>5. t - m * n = t % long
  <2> DEFINE r == t % long
             a == q * long
  <2>1. r \in Int /\ a \in Int /\ t = a + r /\ m * n = a
    BY <1>1, <1>4
  <2> HIDE DEF r, a
  <2>2. t - a = r
    BY <2>1
  <2> QED
    BY <2>1, <2>2 DEF r
<1>6. m * n + Floor(t - m * n, n) = Floor(t, n)
  BY FloorFrom, t \in Int
<1> QED
  BY <1>2, <1>4, <1>5, <1>6

\* Of each period one divides the day, and the period of minutes the hour.
LEMMA PeriodsDivide ==
    ASSUME LoadAssumption, NEW item \in Items, EvenPeriod(item)
    PROVE  /\ PeriodLen(item) \in Nat \ {0} /\ \E k \in Int : DayLen = k * PeriodLen(item)
           /\ item.timeframe = "minutes" => \E k \in Int : HourLen = k * PeriodLen(item)
<1> DEFINE c == item.compression
           h == HourLen \div MinuteLen
           d == DayLen \div HourLen
<1>1. /\ c \in Nat \ {0} /\ MinuteLen \in Nat \ {0} /\ HourLen \in Nat \ {0} /\ DayLen \in Nat \ {0}
      /\ HourLen % MinuteLen = 0 /\ DayLen % HourLen = 0
  BY DEF LoadAssumption
<1>2. d \in Int /\ DayLen = d * HourLen /\ h \in Int /\ HourLen = h * MinuteLen
  BY <1>1, Division
<1> HIDE DEF c, d, h
<1>3. CASE item.timeframe = "minutes"
  <2>1. PeriodLen(item) = c * MinuteLen /\ h % c = 0
    BY <1>1, <1>3 DEF PeriodLen, EvenPeriod, c, h
  <2>2. PICK k \in Int : h = k * c
    BY <1>1, <1>2, <2>1, Divisible
  <2>3. HourLen = k * (c * MinuteLen) /\ c * MinuteLen \in Nat \ {0}
    BY <1>1, <1>2, <2>2
  <2>4. DayLen = (d * k) * (c * MinuteLen) /\ d * k \in Int
    <3> DEFINE P == c * MinuteLen
    <3>1. P \in Nat \ {0} /\ HourLen = k * P
      BY <2>3
    <3> HIDE DEF P
    <3>2. DayLen = (d * k) * P /\ d * k \in Int
      BY <1>2, <2>2, <3>1
    <3> QED
      BY <3>2 DEF P
  <2> QED
    BY <2>1, <2>2, <2>3, <2>4
<1>4. CASE item.timeframe = "hours"
  <2>1. PeriodLen(item) = c * HourLen /\ d % c = 0
    BY <1>1, <1>4 DEF PeriodLen, EvenPeriod, c, d
  <2>2. PICK k \in Int : d = k * c
    BY <1>1, <1>2, <2>1, Divisible
  <2>3. DayLen = k * (c * HourLen) /\ c * HourLen \in Nat \ {0}
    BY <1>1, <1>2, <2>2
  <2> QED
    BY <1>4, <2>1, <2>3
<1>5. CASE item.timeframe = "days"
  <2>1. PeriodLen(item) = DayLen
    BY <1>1, <1>5 DEF PeriodLen, EvenPeriod
  <2>2. DayLen = 1 * DayLen
    BY <1>1
  <2> QED
    BY <1>1, <1>5, <2>1, <2>2
<1>6. CASE item.timeframe = "tick"
  <2>1. PeriodLen(item) = MinuteLen
    BY <1>6 DEF PeriodLen
  <2>2. DayLen = (d * h) * MinuteLen /\ d * h \in Int
    BY <1>1, <1>2
  <2> QED
    BY <1>1, <1>6, <2>1, <2>2
<1> QED
  BY <1>3, <1>4, <1>5, <1>6 DEF EvenPeriod

\* The database.
LEMMA PgBucketIs ==
    ASSUME LoadAssumption, NEW item \in Items, EvenPeriod(item), NEW t \in Nat
    PROVE  PgBucket(t, item.timeframe, item.compression) = Floor(t, PeriodLen(item))
<1> DEFINE c == item.compression
           P == PeriodLen(item)
<1>1. c \in Nat \ {0} /\ MinuteLen \in Nat \ {0} /\ HourLen \in Nat \ {0} /\ DayLen \in Nat \ {0}
  BY DEF LoadAssumption
<1>2. P \in Nat \ {0} /\ \E k \in Int : DayLen = k * P
  BY PeriodsDivide
<1>3. CASE item.timeframe = "minutes"
  <2>1. P = c * MinuteLen
    BY <1>1, <1>3 DEF PeriodLen
  <2>2. \E k \in Int : HourLen = k * P
    BY <1>3, PeriodsDivide
  <2>3. PgBucket(t, item.timeframe, c) = Floor(t, HourLen) + Floor(t % HourLen, P)
    BY <1>3, <2>1 DEF PgBucket
  <2> HIDE DEF c, P
  <2>4. Floor(t, HourLen) + Floor(t % HourLen, P) = Floor(t, P)
    BY <1>1, <1>2, <2>2, FloorIn
  <2> QED
    BY <2>3, <2>4 DEF c, P
<1>4. CASE item.timeframe = "hours"
  <2>1. P = c * HourLen
    BY <1>4 DEF PeriodLen
  <2>2. CASE c = 1
    <3>1. P = HourLen
      BY <1>1, <2>1, <2>2
    <3> QED
      BY <1>4, <2>2, <3>1 DEF PgBucket
  <2>3. CASE c # 1
    <3>1. PgBucket(t, item.timeframe, c) = Floor(t, DayLen) + Floor(t % DayLen, P)
      BY <1>4, <2>1, <2>3 DEF PgBucket
    <3> HIDE DEF c, P
    <3>2. Floor(t, DayLen) + Floor(t % DayLen, P) = Floor(t, P)
      BY <1>1, <1>2, FloorIn
    <3> QED
      BY <3>1, <3>2 DEF c, P
  <2> QED
    BY <2>2, <2>3
<1>5. CASE item.timeframe = "days"
  <2>1. P = DayLen
    BY <1>1, <1>5 DEF PeriodLen, EvenPeriod
  <2> QED
    BY <1>5, <2>1 DEF PgBucket
<1>6. CASE item.timeframe = "tick"
  BY <1>6 DEF PgBucket, PeriodLen
<1> QED
  BY <1>3, <1>4, <1>5, <1>6 DEF EvenPeriod

\* The program.
LEMMA LocalBucketIs ==
    ASSUME LoadAssumption, NEW item \in Items, EvenPeriod(item), NEW t \in Nat, NEW first \in Nat
    PROVE  LocalBucket(t, item.timeframe, item.compression, first) = Floor(t, PeriodLen(item))
<1> DEFINE P == PeriodLen(item)
           origin == Floor(first, DayLen)
<1>1. item.compression \in Nat \ {0} /\ HourLen \in Nat \ {0} /\ DayLen \in Nat \ {0}
  BY DEF LoadAssumption
<1>2. P \in Nat \ {0}
  BY PeriodsDivide
<1>3. PICK k \in Int : DayLen = k * P
  BY PeriodsDivide
<1>4. LocalBucket(t, item.timeframe, item.compression, first) = origin + Floor(t - origin, P)
  <2>1. CASE item.timeframe = "minutes"
    BY <2>1 DEF LocalBucket, PeriodLen
  <2>2. CASE item.timeframe = "hours"
    BY <2>2 DEF LocalBucket, PeriodLen
  <2>3. CASE item.timeframe = "days"
    <3>1. item.compression * DayLen = DayLen
      BY <1>1, <2>3 DEF EvenPeriod
    <3> QED
      BY <2>3, <3>1 DEF LocalBucket, PeriodLen
  <2>4. CASE item.timeframe = "tick"
    BY <2>4 DEF LocalBucket, PeriodLen
  <2> QED
    BY <2>1, <2>2, <2>3, <2>4 DEF EvenPeriod
<1>5. PICK q \in Int : origin = q * DayLen
  BY <1>1, FloorIs
<1> HIDE DEF P, origin
<1>6. PICK m \in Int : m = q * k
  OBVIOUS
<1>7. origin = m * P
  BY <1>2, <1>3, <1>5, <1>6
<1>8. m * P + Floor(t - m * P, P) = Floor(t, P)
  BY <1>2, FloorFrom, t \in Int
<1> QED
  BY <1>4, <1>7, <1>8 DEF P

\* The bars of the database, whichever rows of one time it numbers first.
LEMMA ServerTells ==
    ASSUME LoadAssumption, NEW item \in Items, EvenPeriod(item), NEW rows \in Seq(TickRow),
           NEW bars \in PostgresTickToBar(item, rows)
    PROVE  Tell(bars, rows, DOMAIN rows, PeriodLen(item))
<1> DEFINE len == PeriodLen(item)
           bucket(r) == PgBucket(r.time, item.timeframe, item.compression)
           buckets == {bucket(rows[i]) : i \in DOMAIN rows}
           Of(b) == {i \in DOMAIN rows : bucket(rows[i]) = b}
           I(b) == OfPeriod(rows, DOMAIN rows, b, len)
<1>1. len \in Nat \ {0}
  BY PeriodsDivide
<1>2. \A i \in DOMAIN rows : rows[i].time \in Nat /\ rows[i].price \in Nat /\ bucket(rows[i]) = Floor(rows[i].time, len)
  <2>1. \A i \in DOMAIN rows : rows[i] \in TickRow
    OBVIOUS
  <2>2. \A i \in DOMAIN rows : rows[i].time \in Nat /\ rows[i].price \in Nat
    BY <2>1 DEF TickRow
  <2> QED
    BY <2>2, PgBucketIs
<1> DEFINE offered == [b \in buckets |-> Earliest(rows, Of(b)) \X Latest(rows, Of(b))]
           Numbered(ends) == [b \in {c \in buckets : {ends[c][1], ends[c][2]} \subseteq Priced(rows)} |->
                                 BarOf(rows, Of(b), ends[b][1], ends[b][2])]
<1>a. PICK ends \in OneOfEach(offered) : bars = Numbered(ends)
  <2>1. PostgresTickToBar(item, rows) = {Numbered(ends) : ends \in OneOfEach(offered)}
    BY DEF PostgresTickToBar
  <2> HIDE DEF offered, Numbered
  <2> QED
    BY <2>1
<1> DEFINE first == [b \in buckets |-> ends[b][1]]
           last == [b \in buckets |-> ends[b][2]]
<1>3. /\ \A b \in buckets : first[b] \in Earliest(rows, Of(b))
      /\ \A b \in buckets : last[b] \in Latest(rows, Of(b))
      /\ bars = [b \in {c \in buckets : {first[c], last[c]} \subseteq Priced(rows)} |->
                     BarOf(rows, Of(b), first[b], last[b])]
  <2> HIDE DEF buckets, Of
  <2>1. \A b \in buckets : ends[b] \in Earliest(rows, Of(b)) \X Latest(rows, Of(b))
    BY <1>a DEF OneOfEach
  <2>2. \A b \in buckets : first[b] = ends[b][1] /\ last[b] = ends[b][2]
    OBVIOUS
  <2>3. bars = Numbered(ends)
    BY <1>a
  <2> HIDE DEF first, last
  <2> QED
    BY <2>1, <2>2, <2>3
<1> HIDE DEF first, last, buckets, Of
<1>b. \A b \in buckets : first[b] \in DOMAIN rows /\ last[b] \in DOMAIN rows
  BY <1>3 DEF Earliest, Latest, Of
<1> USE DEF buckets, Of
<1>4. buckets = Starts(rows, DOMAIN rows, len)
  BY <1>2 DEF Starts
<1>5. \A b \in buckets : Of(b) = I(b)
  <2> SUFFICES ASSUME NEW b \in buckets PROVE Of(b) = I(b)
    OBVIOUS
  <2>1. I(b) = {i \in DOMAIN rows : Floor(rows[i].time, len) = b}
    <3> HIDE DEF len
    <3> QED
      BY <1>1, <1>4, PeriodOf DEF len
  <2> HIDE DEF bucket, I
  <2> QED
    BY <1>2, <2>1
<1> HIDE DEF bucket, buckets, Of, len, I
<1>6. ASSUME NEW b \in DOMAIN bars PROVE b \in buckets /\ BarOfPeriod(bars[b], rows, I(b))
  <2>1. b \in buckets /\ first[b] \in Priced(rows) /\ last[b] \in Priced(rows)
        /\ bars[b] = BarOf(rows, I(b), first[b], last[b])
    BY <1>3, <1>5, <1>6
  <2>2. rows[first[b]].price > 0 /\ rows[last[b]].price > 0
    BY <2>1 DEF Priced
  <2>3. first[b] \in Earliest(rows, I(b)) /\ last[b] \in Latest(rows, I(b))
    BY <1>3, <1>5, <2>1
  <2> QED
    BY <2>1, <2>2, <2>3 DEF BarOfPeriod
<1>7. ASSUME NEW b \in buckets \ DOMAIN bars
      PROVE  \E i \in Earliest(rows, I(b)) \cup Latest(rows, I(b)) : rows[i].price = 0
  <2>1. first[b] \in Earliest(rows, I(b)) /\ last[b] \in Latest(rows, I(b))
    BY <1>3, <1>5
  <2>2. first[b] \notin Priced(rows) \/ last[b] \notin Priced(rows)
    BY <1>3, <1>7
  <2>3. first[b] \in DOMAIN rows /\ last[b] \in DOMAIN rows
    BY <1>b
  <2>4. rows[first[b]].price = 0 \/ rows[last[b]].price = 0
    BY <1>2, <2>2, <2>3 DEF Priced
  <2> QED
    BY <2>1, <2>4
<1>8. Tell(bars, rows, DOMAIN rows, len)
  <2>1. DOMAIN bars \subseteq Starts(rows, DOMAIN rows, len)
    BY <1>4, <1>6
  <2>2. \A b \in DOMAIN bars : BarOfPeriod(bars[b], rows, OfPeriod(rows, DOMAIN rows, b, len))
    BY <1>6 DEF I
  <2>3. \A b \in Starts(rows, DOMAIN rows, len) \ DOMAIN bars :
           \E i \in Earliest(rows, OfPeriod(rows, DOMAIN rows, b, len)) \cup Latest(rows, OfPeriod(rows, DOMAIN rows, b, len)) :
              rows[i].price = 0
    BY <1>4, <1>7 DEF I
  <2> QED
    BY <1>1, <2>1, <2>2, <2>3, BarsTell
<1> QED
  BY <1>8 DEF len

\* The bars that the program makes of rows, in whatever order.
LEMMA LocalTells ==
    ASSUME LoadAssumption, NEW item \in Items, EvenPeriod(item), NEW rows \in Seq(TickRow), Priced(rows) # {}
    PROVE  Tell(AggregateTickToBar(item, rows), rows, Priced(rows), PeriodLen(item))
<1> DEFINE len == PeriodLen(item)
           good == Priced(rows)
           origin == Min({rows[i].time : i \in good})
           bucket(r) == LocalBucket(r.time, item.timeframe, item.compression, origin)
           buckets == {bucket(rows[i]) : i \in good}
           Of(b) == {i \in good : bucket(rows[i]) = b}
           I(b) == OfPeriod(rows, good, b, len)
           bars == AggregateTickToBar(item, rows)
<1>1. len \in Nat \ {0} /\ good \in SUBSET DOMAIN rows
  BY PeriodsDivide DEF Priced
<1>2. \A i \in good : rows[i].time \in Nat /\ rows[i].price > 0
  <2>1. \A i \in DOMAIN rows : rows[i] \in TickRow
    OBVIOUS
  <2> QED
    BY <2>1 DEF TickRow, Priced
<1>3. origin \in Nat
  <2> DEFINE times == {rows[i].time : i \in good}
  <2>1. times \in SUBSET Nat /\ times # {}
    BY <1>2
  <2> HIDE DEF times
  <2>2. Min(times) \in Nat
    BY <2>1, MinIsMember
  <2> QED
    BY <2>2 DEF times
<1> HIDE DEF good, origin
<1>4. \A i \in good : bucket(rows[i]) = Floor(rows[i].time, len)
  BY <1>2, <1>3, LocalBucketIs
<1>5. bars = [b \in buckets |-> BarOf(rows, Of(b), Min(Earliest(rows, Of(b))), Max(Latest(rows, Of(b))))]
  BY DEF AggregateTickToBar, good, origin
<1>6. buckets = Starts(rows, good, len)
  BY <1>4 DEF Starts
<1>7. \A b \in buckets : Of(b) = I(b) /\ I(b) # {} /\ I(b) \in SUBSET good
  <2> SUFFICES ASSUME NEW b \in buckets PROVE Of(b) = I(b) /\ I(b) # {} /\ I(b) \in SUBSET good
    OBVIOUS
  <2>1. I(b) = {i \in good : Floor(rows[i].time, len) = b} /\ I(b) # {}
    <3> HIDE DEF len, buckets
    <3> QED
      BY <1>1, <1>6, PeriodOf DEF len
  <2> HIDE DEF bucket, I
  <2> QED
    BY <1>4, <2>1
<1> HIDE DEF bucket, buckets, Of, len, bars
<1>8. ASSUME NEW b \in buckets PROVE b \in DOMAIN bars /\ BarOfPeriod(bars[b], rows, I(b))
  <2> DEFINE first == Min(Earliest(rows, I(b)))
             last == Max(Latest(rows, I(b)))
  <2>1. bars[b] = BarOf(rows, I(b), first, last) /\ b \in DOMAIN bars
    BY <1>5, <1>7, <1>8
  <2>2. first \in Earliest(rows, I(b)) /\ last \in Latest(rows, I(b))
    BY <1>1, <1>7, <1>8, EndsExist
  <2> HIDE DEF first, last
  <2>3. rows[first].price > 0 /\ rows[last].price > 0
    <3>1. first \in good /\ last \in good
      BY <1>7, <1>8, <2>2 DEF Earliest, Latest
    <3> QED
      BY <1>2, <3>1
  <2> QED
    BY <2>1, <2>2, <2>3 DEF BarOfPeriod
<1>9. Tell(bars, rows, good, len)
  <2>1. DOMAIN bars = buckets
    BY <1>5
  <2> QED
    BY <1>1, <1>6, <1>8, <2>1, BarsTell
<1> QED
  BY <1>9 DEF len, good, bars

-----------------------------------------------------------------------------
\* Rows in another order tell the same.

\* p takes the places of s to those of the same rows in another order.
Moved(s, rows, p) ==
    /\ p \in Bijection(DOMAIN rows, DOMAIN rows)
    /\ s = [i \in DOMAIN rows |-> rows[p[i]]]

\* p takes the places I of s to the places J of the rows.
Onto(rows, p, I, J) ==
    I \subseteq DOMAIN rows /\ J \subseteq DOMAIN rows /\ \A i \in DOMAIN rows : i \in I <=> p[i] \in J

\* They have the same ends, prices and number.
Same(s, rows, I, J) ==
    /\ I = {} <=> J = {}
    /\ {s[i].price : i \in Earliest(s, I)} = {rows[i].price : i \in Earliest(rows, J)}
    /\ {s[i].price : i \in Latest(s, I)} = {rows[i].price : i \in Latest(rows, J)}
    /\ PricesIn(s, I) = PricesIn(rows, J)
    /\ Cardinality(I) = Cardinality(J)

\* Places of s that are places of the rows have the same ends, prices and number.
LEMMA SameRows ==
    ASSUME NEW rows \in Seq(TickRow), NEW s, NEW p, Moved(s, rows, p), NEW I, NEW J, Onto(rows, p, I, J)
    PROVE  Same(s, rows, I, J)
<1> USE DEF Onto
<1>1. /\ \A i \in DOMAIN rows : p[i] \in DOMAIN rows /\ s[i] = rows[p[i]]
      /\ \A j \in DOMAIN rows : \E i \in DOMAIN rows : p[i] = j
      /\ \A i, j \in DOMAIN rows : p[i] = p[j] => i = j
  <2>1. p \in Injection(DOMAIN rows, DOMAIN rows) /\ p \in Surjection(DOMAIN rows, DOMAIN rows)
    BY DEF Moved, Bijection
  <2>2. p \in [DOMAIN rows -> DOMAIN rows] /\ \A i, j \in DOMAIN rows : p[i] = p[j] => i = j
    BY <2>1 DEF Injection, IsInjective
  <2>3. \A j \in DOMAIN rows : \E i \in DOMAIN rows : p[i] = j
    BY <2>1 DEF Surjection
  <2>4. s = [i \in DOMAIN rows |-> rows[p[i]]]
    BY DEF Moved
  <2> QED
    BY <2>2, <2>3, <2>4
<1>2. /\ \A i \in I : p[i] \in J /\ s[i] = rows[p[i]]
      /\ \A j \in J : \E i \in I : p[i] = j /\ s[i] = rows[j]
  <2>1. ASSUME NEW j \in J PROVE \E i \in I : p[i] = j /\ s[i] = rows[j]
    <3>1. PICK i \in DOMAIN rows : p[i] = j
      BY <1>1
    <3>2. i \in I /\ s[i] = rows[j]
      BY <1>1, <3>1
    <3> QED
      BY <3>1, <3>2
  <2> QED
    BY <1>1, <2>1
<1>3. \A i \in I : i \in Earliest(s, I) <=> p[i] \in Earliest(rows, J)
  BY <1>2 DEF Earliest
<1>4. \A i \in I : i \in Latest(s, I) <=> p[i] \in Latest(rows, J)
  BY <1>2 DEF Latest
<1>5. {s[i].price : i \in Earliest(s, I)} = {rows[i].price : i \in Earliest(rows, J)}
  <2>1. Earliest(s, I) \subseteq I /\ Earliest(rows, J) \subseteq J
    BY DEF Earliest
  <2>2. ASSUME NEW i \in Earliest(s, I) PROVE p[i] \in Earliest(rows, J) /\ s[i].price = rows[p[i]].price
    BY <1>2, <1>3, <2>1
  <2>3. ASSUME NEW j \in Earliest(rows, J) PROVE \E i \in Earliest(s, I) : s[i].price = rows[j].price
    BY <1>2, <1>3, <2>1
  <2> QED
    BY <2>2, <2>3
<1>6. {s[i].price : i \in Latest(s, I)} = {rows[i].price : i \in Latest(rows, J)}
  <2>1. Latest(s, I) \subseteq I /\ Latest(rows, J) \subseteq J
    BY DEF Latest
  <2>2. ASSUME NEW i \in Latest(s, I) PROVE p[i] \in Latest(rows, J) /\ s[i].price = rows[p[i]].price
    BY <1>2, <1>4, <2>1
  <2>3. ASSUME NEW j \in Latest(rows, J) PROVE \E i \in Latest(s, I) : s[i].price = rows[j].price
    BY <1>2, <1>4, <2>1
  <2> QED
    BY <2>2, <2>3
<1>7. PricesIn(s, I) = PricesIn(rows, J)
  <2>1. {s[i].price : i \in I} = {rows[j].price : j \in J}
    BY <1>2
  <2> QED
    BY <2>1 DEF PricesIn
<1>8. Cardinality(I) = Cardinality(J)
  <2> DEFINE g == [i \in I |-> p[i]]
  <2>1. g \in Bijection(I, J)
    <3>1. g \in [I -> J] /\ \A j \in J : \E i \in I : g[i] = j
      BY <1>2
    <3>2. \A i, j \in I : g[i] = g[j] => i = j
      BY <1>1
    <3> HIDE DEF g
    <3> QED
      BY <3>1, <3>2 DEF Bijection, Injection, Surjection, IsInjective
  <2>2. IsFiniteSet(I)
    <3>1. DOMAIN rows = 1 .. Len(rows) /\ Len(rows) \in Nat
      OBVIOUS
    <3>2. IsFiniteSet(1 .. Len(rows))
      BY <3>1, FS_Interval
    <3> QED
      BY <3>1, <3>2, FS_Subset
  <2>3. ExistsBijection(I, J)
    BY <2>1 DEF ExistsBijection
  <2> QED
    BY <2>2, <2>3, FS_Bijection
<1>9. I = {} <=> J = {}
  BY <1>2
<1> QED
  BY <1>5, <1>6, <1>7, <1>8, <1>9 DEF Same

\* Bars that tell the rows in one order tell them in any.
LEMMA MovedTells ==
    ASSUME NEW rows \in Seq(TickRow), NEW s, NEW p, Moved(s, rows, p), NEW len, NEW bars, Tell(bars, s, Priced(s), len)
    PROVE  Tell(bars, rows, Priced(rows), len)
<1> DEFINE I(b) == {i \in Priced(s) : b <= s[i].time /\ s[i].time < b + len}
           J(b) == {i \in Priced(rows) : b <= rows[i].time /\ rows[i].time < b + len}
<1>1. /\ DOMAIN s = DOMAIN rows
      /\ \A i \in DOMAIN rows : p[i] \in DOMAIN rows /\ s[i] = rows[p[i]]
      /\ \A j \in DOMAIN rows : \E i \in DOMAIN rows : p[i] = j
  BY DEF Moved, Bijection, Injection, Surjection
<1>2. \A i \in DOMAIN rows : i \in Priced(s) <=> p[i] \in Priced(rows)
  BY <1>1 DEF Priced
<1>3. Priced(s) \subseteq DOMAIN rows /\ Priced(rows) \subseteq DOMAIN rows
  BY <1>1 DEF Priced
<1>4. ASSUME NEW b PROVE Same(s, rows, I(b), J(b))
  <2>1. Onto(rows, p, I(b), J(b))
    BY <1>1, <1>2, <1>3 DEF Onto
  <2> HIDE DEF I, J
  <2> QED
    BY <2>1, SameRows
<1>5. {Floor(s[i].time, len) : i \in Priced(s)} = {Floor(rows[i].time, len) : i \in Priced(rows)}
  <2>1. ASSUME NEW i \in Priced(s) PROVE p[i] \in Priced(rows) /\ s[i] = rows[p[i]]
    BY <1>1, <1>2, <1>3
  <2>2. ASSUME NEW j \in Priced(rows) PROVE \E i \in Priced(s) : s[i] = rows[j]
    <3>1. PICK i \in DOMAIN rows : p[i] = j
      BY <1>1, <1>3
    <3>2. i \in Priced(s) /\ s[i] = rows[j]
      BY <1>1, <1>2, <3>1
    <3> QED
      BY <3>2
  <2> QED
    BY <2>1, <2>2
<1>6. ASSUME NEW b \in DOMAIN bars
      PROVE  /\ b % len = 0 /\ J(b) # {}
             /\ bars[b].open \in {rows[i].price : i \in Earliest(rows, J(b))} \ {0}
             /\ bars[b].close \in {rows[i].price : i \in Latest(rows, J(b))} \ {0}
             /\ bars[b].high = Max(PricesIn(rows, J(b))) /\ bars[b].low = Min(PricesIn(rows, J(b)))
             /\ bars[b].ticks = Cardinality(J(b))
  <2>1. /\ b % len = 0 /\ I(b) # {}
        /\ bars[b].open \in {s[i].price : i \in Earliest(s, I(b))} \ {0}
        /\ bars[b].close \in {s[i].price : i \in Latest(s, I(b))} \ {0}
        /\ bars[b].high = Max(PricesIn(s, I(b))) /\ bars[b].low = Min(PricesIn(s, I(b)))
        /\ bars[b].ticks = Cardinality(I(b))
    BY <1>6 DEF Tell
  <2> HIDE DEF I, J
  <2> QED
    BY <1>4, <2>1 DEF Same
<1>7. ASSUME NEW b \in {Floor(rows[i].time, len) : i \in Priced(rows)}, b \notin DOMAIN bars
      PROVE  \E i \in Earliest(rows, J(b)) \cup Latest(rows, J(b)) : rows[i].price = 0
  <2>1. b \in {Floor(s[i].time, len) : i \in Priced(s)}
    BY <1>5, <1>7
  <2>2. \E i \in Earliest(s, I(b)) \cup Latest(s, I(b)) : s[i].price = 0
    BY <1>7, <2>1 DEF Tell
  <2> HIDE DEF I, J
  <2>3. 0 \in {s[i].price : i \in Earliest(s, I(b))} \/ 0 \in {s[i].price : i \in Latest(s, I(b))}
    BY <2>2
  <2>4. 0 \in {rows[i].price : i \in Earliest(rows, J(b))} \/ 0 \in {rows[i].price : i \in Latest(rows, J(b))}
    BY <1>4, <2>3 DEF Same
  <2> QED
    BY <2>4
<1> QED
  BY <1>6, <1>7 DEF Tell

-----------------------------------------------------------------------------
\* A load that has received something has received what is selected, and one that is done has
\* bars made of it, in the database or in the program, or made of the file's rows.
BarsInv ==
    /\ IsLoad /\ DOMAIN job = {"item", "at", "attempt", "rows", "bars", "fallback"} /\ job.item \in Items
    /\ tick_data \in Tables /\ csv_file \in Files \cup {NoFile}
    /\ job.at = "received" /\ job.attempt = "server" => job.bars \in PostgresTickToBar(job.item, Selected(job.item, tick_data))
    /\ job.at = "received" /\ job.attempt # "server" => job.rows \in Ordered(Selected(job.item, tick_data))
    /\ (job.attempt = "server" \/ job.at \notin {"idle", "done", "failed"}) => job.item.source = "postgres"
    /\ job.at = "done" /\ job.item.source = "postgres" /\ job.item.table # "bars" =>
          IF job.attempt = "server" THEN job.bars \in PostgresTickToBar(job.item, Selected(job.item, tick_data))
          ELSE \E rows \in Ordered(Selected(job.item, tick_data)) :
                  Priced(rows) # {} /\ job.bars = AggregateTickToBar(job.item, rows)
    /\ job.at = "done" /\ job.item.source = "csv" /\ csv_file.ticks =>
          Priced(csv_file.rows) # {} /\ job.bars = AggregateTickToBar(job.item, csv_file.rows)

\* Nothing has been received before the first load.
LEMMA BarsInitial == LoadInit /\ Items # {} => BarsInv
<1> SUFFICES ASSUME LoadInit, Items # {} PROVE BarsInv
  OBVIOUS
<1>1. (CHOOSE i \in Items : TRUE) \in Items
  OBVIOUS
<1> QED
  BY <1>1 DEF LoadInit, Idle, BarsInv, IsLoad

\* A place of a load where nothing has been received and no load is done.
Elsewhere(at) == at \notin {"received", "done"}

\* A load goes on to a place where nothing is claimed.
LEMMA GoesElsewhere ==
    ASSUME BarsInv, NEW at, Elsewhere(at), JobGoes(at), UNCHANGED <<tick_data, csv_file>>,
           job.at \notin {"idle", "done", "failed"} \/ at \in {"idle", "failed"}
    PROVE  BarsInv'
BY DEF BarsInv, IsLoad, JobGoes, Elsewhere

\* What is made of ticks.
LEMMA ToldOfTicks ==
    ASSUME NEW item, NEW rows, NEW told \in Told(item, rows, TRUE), told.at = "done"
    PROVE  Priced(rows) # {} /\ told.bars = AggregateTickToBar(item, rows)
<1>1. told \in AsTicks(item, rows) \cup AsBars(rows, TRUE)
  BY DEF Told
<1>2. told # LoadFailed
  BY DEF LoadFailed
<1> QED
  BY <1>1, <1>2 DEF AsTicks, AsBars, Loaded

\* Each step keeps it.
LEMMA BarsStep == LoadAssumption /\ BarsInv /\ [LoadNext]_loadVars => BarsInv'
<1> SUFFICES ASSUME LoadAssumption, BarsInv, [LoadNext]_loadVars PROVE BarsInv'
  OBVIOUS
<1>a. tick_data' = tick_data
  BY DEF LoadNext, loadVars, BeginPostgres, LoadFile, StartTunnel, Connect, Query, QueryFails, FallBack, PostgresFails,
         ServerBarsArrive, RowsArrive, LoadEnds
<1>1. ASSUME NEW item \in Items, BeginPostgres(item) PROVE BarsInv'
  BY <1>1 DEF BeginPostgres, Idle, BarsInv, IsLoad
<1>2. ASSUME NEW item \in Items, LoadFile(item) PROVE BarsInv'
  <2>1. item.source \in {"csv", "excel"}
    BY <1>2 DEF LoadFile
  <2>2. PICK fetched \in Files :
           LET wanted == ~csv_file.there /\ item.source = "csv" /\ item.loader = "bt" /\ item.tushare /\ ~fetched.ticks
               loaded == IF wanted THEN fetched ELSE csv_file
               outcomes == IF ~loaded.there THEN {LoadFailed}
                           ELSE IF wanted \/ item.source = "excel" THEN AsBars(loaded.rows, loaded.ticks)
                           ELSE Told(item, loaded.rows, loaded.ticks)
           IN  /\ csv_file' = loaded
               /\ \E told \in outcomes : job' = [Idle(item) EXCEPT !.at = told.at, !.bars = told.bars]
    BY <1>2 DEF LoadFile
  <2> DEFINE wanted == ~csv_file.there /\ item.source = "csv" /\ item.loader = "bt" /\ item.tushare /\ ~fetched.ticks
             loaded == IF wanted THEN fetched ELSE csv_file
             outcomes == IF ~loaded.there THEN {LoadFailed}
                         ELSE IF wanted \/ item.source = "excel" THEN AsBars(loaded.rows, loaded.ticks)
                         ELSE Told(item, loaded.rows, loaded.ticks)
  <2>3. PICK told \in outcomes : job' = [Idle(item) EXCEPT !.at = told.at, !.bars = told.bars]
    BY <2>2
  <2>4. /\ job' = [x \in DOMAIN job' |-> job'[x]] /\ DOMAIN job' = {"item", "at", "attempt", "rows", "bars", "fallback"}
        /\ job'.item = item /\ job'.attempt = "rows" /\ job'.at = told.at /\ job'.bars = told.bars
    BY <2>3 DEF Idle
  <2>5. csv_file' = loaded /\ csv_file' \in Files \cup {NoFile}
    BY <2>2 DEF BarsInv
  <2>6. ASSUME told.at = "done", item.source = "csv", csv_file'.ticks
        PROVE  Priced(csv_file'.rows) # {} /\ told.bars = AggregateTickToBar(item, csv_file'.rows)
    <3>1. ~wanted
      BY <2>5, <2>6
    <3>2. told \in {LoadFailed} \cup Told(item, loaded.rows, loaded.ticks)
      BY <2>6, <3>1
    <3>3. told # LoadFailed
      BY <2>6 DEF LoadFailed
    <3>4. loaded.ticks = TRUE \/ loaded.ticks # TRUE
      OBVIOUS
    <3>5. told \in Told(item, csv_file'.rows, csv_file'.ticks)
      BY <2>5, <3>2, <3>3
    <3>6. Told(item, csv_file'.rows, csv_file'.ticks) = Told(item, csv_file'.rows, TRUE)
      BY <2>6 DEF Told, AsBars
    <3> QED
      BY <2>6, <3>5, <3>6, ToldOfTicks
  <2>7. told.at \in {"done", "failed"}
    <3>1. told = LoadFailed \/ \E bars : told = Loaded(bars)
      <4>1. \A rows, ticks : \A t \in Told(item, rows, ticks) \cup AsBars(rows, ticks) : t = LoadFailed \/ \E bars : t = Loaded(bars)
        BY DEF Told, AsTicks, AsBars
      <4> QED
        BY <4>1
    <3> QED
      BY <3>1 DEF LoadFailed, Loaded
  <2> HIDE DEF outcomes, loaded, wanted
  <2> QED
    BY <2>1, <2>4, <2>5, <2>6, <2>7, <1>a DEF BarsInv, IsLoad
<1>3. CASE StartTunnel
  BY <1>3, GoesElsewhere DEF StartTunnel, Elsewhere
<1>4. CASE Connect
  BY <1>4, GoesElsewhere DEF Connect, Elsewhere
<1>5. CASE QueryFails
  BY <1>5, GoesElsewhere DEF QueryFails, Elsewhere
<1>6. CASE Query
  <2>1. csv_file' = csv_file
    BY <1>6 DEF Query
  <2>2. CASE job.attempt = "server"
    <3>1. PICK bars \in PostgresTickToBar(job.item, Selected(job.item, tick_data)) :
             job' = [job EXCEPT !.at = "received", !.rows = Selected(job.item, tick_data), !.bars = bars]
      BY <1>6, <2>2 DEF Query
    <3> QED
      BY <2>1, <2>2, <3>1, <1>a DEF BarsInv, IsLoad
  <2>3. CASE job.attempt # "server"
    <3>1. PICK rows \in Ordered(Selected(job.item, tick_data)) : job' = [job EXCEPT !.at = "received", !.rows = rows]
      BY <1>6, <2>3 DEF Query
    <3>2. job.item.source = "postgres"
      BY <1>6 DEF Query, BarsInv
    <3> QED
      BY <2>1, <2>3, <3>1, <3>2, <1>a DEF BarsInv, IsLoad
  <2> QED
    BY <2>2, <2>3
<1>7. CASE FallBack
  BY <1>7 DEF FallBack, BarsInv, IsLoad
<1>8. CASE PostgresFails
  BY <1>8, GoesElsewhere DEF PostgresFails, Elsewhere
<1>9. CASE ServerBarsArrive
  <2>1. /\ job.bars \in PostgresTickToBar(job.item, Selected(job.item, tick_data)) /\ job.attempt = "server"
        /\ job' = [job EXCEPT !.at = "done"] /\ csv_file' = csv_file
    BY <1>9 DEF ServerBarsArrive, BarsInv, JobGoes
  <2>2. /\ job.item \in Items /\ job'.item = job.item /\ job'.bars = job.bars /\ job'.at = "done"
        /\ job'.attempt = "server" /\ job.item.source = "postgres"
    BY <2>1 DEF BarsInv, IsLoad
  <2> QED
    BY <2>1, <2>2, <1>a DEF BarsInv, IsLoad
<1>10. CASE RowsArrive
  <2>1. job.rows \in Ordered(Selected(job.item, tick_data)) /\ csv_file' = csv_file /\ job.attempt = "rows"
    BY <1>10 DEF RowsArrive, BarsInv
  <2>2. PICK told \in Told(job.item, job.rows, job.item.table # "bars") :
             job' = [job EXCEPT !.at = told.at, !.bars = told.bars]
    BY <1>10 DEF RowsArrive
  <2>3. told.at = "done" /\ job.item.table # "bars" =>
           Priced(job.rows) # {} /\ told.bars = AggregateTickToBar(job.item, job.rows)
    <3> SUFFICES ASSUME told.at = "done", job.item.table # "bars"
                 PROVE  Priced(job.rows) # {} /\ told.bars = AggregateTickToBar(job.item, job.rows)
      OBVIOUS
    <3>1. (job.item.table # "bars") = TRUE
      OBVIOUS
    <3>2. told \in Told(job.item, job.rows, TRUE)
      BY <2>2, <3>1
    <3> QED
      BY <3>2, ToldOfTicks
  <2>4. told.at \in {"done", "failed"}
    <3>1. told = LoadFailed \/ \E bars : told = Loaded(bars)
      BY <2>2 DEF Told, AsTicks, AsBars
    <3> QED
      BY <3>1 DEF LoadFailed, Loaded
  <2>5. job'.item = job.item /\ job'.bars = told.bars /\ job'.at = told.at /\ job'.attempt = job.attempt
    BY <2>2 DEF BarsInv, IsLoad
  <2>6. job.item.source = "postgres"
    BY <1>10 DEF RowsArrive, BarsInv
  <2> QED
    BY <2>1, <2>2, <2>3, <2>4, <2>5, <2>6, <1>a DEF BarsInv, IsLoad
<1>11. CASE LoadEnds
  BY <1>11, GoesElsewhere DEF LoadEnds, Elsewhere
<1>12. CASE UNCHANGED loadVars
  BY <1>12 DEF loadVars, BarsInv, IsLoad
<1> QED
  BY <1>1, <1>2, <1>3, <1>4, <1>5, <1>6, <1>7, <1>8, <1>9, <1>10, <1>11, <1>12 DEF LoadNext

\* Rows of the table that the query ordered.
LEMMA OrderedRows ==
    ASSUME NEW rows \in Seq(TickRow), NEW s \in Ordered(rows)
    PROVE  s \in Seq(TickRow) /\ \E p : Moved(s, rows, p)
<1>1. PICK p \in Bijection(DOMAIN rows, DOMAIN rows) : s = [i \in DOMAIN rows |-> rows[p[i]]]
  BY DEF Ordered
<1>2. Moved(s, rows, p)
  BY <1>1 DEF Moved
<1>3. DOMAIN rows = 1 .. Len(rows) /\ Len(rows) \in Nat /\ \A i \in DOMAIN rows : rows[i] \in TickRow
  OBVIOUS
<1>4. p \in [DOMAIN rows -> DOMAIN rows]
  BY <1>1 DEF Bijection, Injection
<1>5. s \in [1 .. Len(rows) -> TickRow]
  BY <1>1, <1>3, <1>4
<1>6. s \in Seq(TickRow)
  BY <1>3, <1>5
<1> QED
  BY <1>2, <1>6

\* The bars of each place tell the selected ticks, or those of the file.
LEMMA BarsHold == LoadAssumption /\ BarsInv => BarsAreTheTicks
<1> SUFFICES ASSUME LoadAssumption, BarsInv, job.at = "done", EvenPeriod(job.item) PROVE BarsAreTheTicks
  BY DEF BarsAreTheTicks
<1> DEFINE item == job.item
           rows == Selected(item, tick_data)
           len == PeriodLen(item)
<1>1. item \in Items /\ tick_data \in Seq(TickRow)
  BY DEF BarsInv, LoadAssumption, TickRow
<1>2. rows \in Seq(TickRow)
  BY <1>1, WherePicks DEF Selected
<1>3. csv_file.rows \in Seq(TickRow)
  <2>1. \A f \in Files : f.rows \in Seq(TickRow)
    BY DEF LoadAssumption, TickRow
  <2>2. NoFile.rows = <<>> /\ <<>> \in Seq(TickRow)
    BY DEF NoFile
  <2> QED
    BY <2>1, <2>2 DEF BarsInv
<1>4. CASE item.source = "csv" /\ csv_file.ticks
  <2>1. job.attempt # "server"
    BY <1>4 DEF BarsInv
  <2>2. Priced(csv_file.rows) # {} /\ job.bars = AggregateTickToBar(item, csv_file.rows)
    BY <1>4 DEF BarsInv
  <2>3. Tell(job.bars, csv_file.rows, Priced(csv_file.rows), len)
    BY <1>1, <1>3, <2>2, LocalTells
  <2> QED
    BY <1>4, <2>1, <2>3 DEF BarsAreTheTicks
<1>5. CASE item.source = "postgres" /\ item.table # "bars"
  <2>1. CASE job.attempt = "server"
    <3>1. job.bars \in PostgresTickToBar(item, rows)
      BY <1>5, <2>1 DEF BarsInv
    <3>2. Tell(job.bars, rows, DOMAIN rows, len)
      <4> HIDE DEF rows
      <4> QED
        BY <1>1, <1>2, <3>1, ServerTells
    <3> QED
      BY <1>5, <2>1, <3>2 DEF BarsAreTheTicks
  <2>2. CASE job.attempt # "server"
    <3>1. PICK s \in Ordered(rows) : Priced(s) # {} /\ job.bars = AggregateTickToBar(item, s)
      BY <1>5, <2>2 DEF BarsInv
    <3>2. Tell(job.bars, rows, Priced(rows), len)
      <4> HIDE DEF rows, len
      <4>1. PICK p : s \in Seq(TickRow) /\ Moved(s, rows, p)
        BY <1>2, <3>1, OrderedRows
      <4>2. Tell(job.bars, s, Priced(s), len)
        BY <1>1, <3>1, <4>1, LocalTells DEF len
      <4> QED
        BY <1>2, <4>1, <4>2, MovedTells
    <3> QED
      BY <1>5, <2>2, <3>2 DEF BarsAreTheTicks
  <2> QED
    BY <2>1, <2>2
<1> QED
  BY <1>4, <1>5 DEF BarsAreTheTicks

\* Whether a load of ticks got its bars from the database or made them of the rows after the
\* database failed, they are the bars of the selected ticks.
THEOREM BarsTellTheTicks == LoadSpec => []BarsAreTheTicks
<1>1. LoadAssumption
  BY LoadIsTyped
<1>2. LoadInit => BarsInv
  BY <1>1, BarsInitial DEF LoadAssumption
<1>3. BarsInv /\ [LoadNext]_loadVars => BarsInv'
  BY <1>1, BarsStep
<1>4. BarsInv => BarsAreTheTicks
  BY <1>1, BarsHold
<1> QED
  BY <1>2, <1>3, <1>4, PTL DEF LoadSpec

-----------------------------------------------------------------------------
\* Cleaning up the cache.

\* The total size of files of a directory is a fold over them.
AddSize(d, total, f) == total + d[f].size
NoSize(d) == 0
Z == INSTANCE FoldLemmas WITH op <- AddSize, base <- NoSize

\* SizeOf is that fold.
LEMMA SizeIsFold == \A d, files : SizeOf(d, files) = Z!FoldOver(d, files)
BY DEF SizeOf, FoldSet, MapThenFoldSet, Z!FoldOver, Z!MapThenFoldSet, AddSize, NoSize

\* Finite here is finite in the lemmas on folds.
LEMMA Finite == \A S : IsFiniteSet(S) => Z!IsFiniteSet(S)
BY DEF IsFiniteSet, Z!IsFiniteSet

\* Sizes of files are numbers.
Sized(d, S) == IsFiniteSet(S) /\ \A f \in S : d[f].size \in Nat

\* A total is a number, and is that without a file and the size of that file.
LEMMA SizeOfIs ==
    ASSUME NEW d, NEW S, Sized(d, S)
    PROVE  SizeOf(d, S) \in Int /\ \A f \in S : SizeOf(d, S \ {f}) \in Int /\ SizeOf(d, S) = SizeOf(d, S \ {f}) + d[f].size
<1>1. Z!Commutes(d, Int, S)
  BY DEF Z!Commutes, AddSize, NoSize, Sized
<1>2. \A T \in SUBSET S : SizeOf(d, T) \in Int /\ \A f \in T : SizeOf(d, T) = SizeOf(d, T \ {f}) + d[f].size
  <2> TAKE T \in SUBSET S
  <2>1. IsFiniteSet(T)
    BY FS_Subset DEF Sized
  <2>2. Z!FoldOver(d, T) \in Int /\ \A f \in T : Z!FoldOver(d, T) = AddSize(d, Z!FoldOver(d, T \ {f}), f)
    BY <1>1, <2>1, Finite, Z!FoldOverAny
  <2> QED
    BY <2>2, SizeIsFold DEF AddSize
<1> QED
  BY <1>2

\* Files that two directories have alike have the same total.
LEMMA SameSize ==
    ASSUME NEW d, NEW e, NEW S, IsFiniteSet(S), \A f \in S : d[f] = e[f]
    PROVE  SizeOf(d, S) = SizeOf(e, S)
<1>1. Z!Alike(d, e, S)
  BY DEF Z!Alike, AddSize, NoSize
<1> QED
  BY <1>1, SizeIsFold, Finite, Z!FoldOverAlike

\* A total without some of the files.
LEMMA SizeWithout ==
    ASSUME NEW d, NEW S, Sized(d, S), NEW T \in SUBSET S
    PROVE  SizeOf(d, S \ T) = SizeOf(d, S) - SizeOf(d, T)
<1> DEFINE Good == {U \in SUBSET T : SizeOf(d, S \ U) = SizeOf(d, S) - SizeOf(d, U)}
<1>0. IsFiniteSet(T) /\ SizeOf(d, S) \in Int
  BY FS_Subset, SizeOfIs DEF Sized
<1>1. {} \in Good
  <2>1. SizeOf(d, {}) = 0 /\ S \ {} = S
    BY SizeIsFold, Z!FoldOverEmpty DEF NoSize
  <2> QED
    BY <1>0, <2>1
<1>2. ASSUME NEW U \in SUBSET T, NEW x \in T, x \notin U, U \in Good PROVE U \union {x} \in Good
  <2> DEFINE V == U \union {x}
  <2>1. Sized(d, V) /\ Sized(d, S \ U) /\ Sized(d, U)
    BY FS_Subset, V \subseteq S, S \ U \subseteq S DEF Sized
  <2>2. V \ {x} = U /\ x \in V /\ x \in S \ U /\ (S \ U) \ {x} = S \ V /\ d[x].size \in Nat
    BY <1>2 DEF Sized
  <2> HIDE DEF V
  <2>3. SizeOf(d, V) = SizeOf(d, U) + d[x].size /\ SizeOf(d, U) \in Int
    <3>1. SizeOf(d, V \ {x}) \in Int /\ SizeOf(d, V) = SizeOf(d, V \ {x}) + d[x].size
      BY <2>1, <2>2, SizeOfIs
    <3> QED
      BY <2>2, <3>1
  <2>4. SizeOf(d, S \ U) = SizeOf(d, S \ V) + d[x].size /\ SizeOf(d, S \ V) \in Int
    <3>1. SizeOf(d, (S \ U) \ {x}) \in Int /\ SizeOf(d, S \ U) = SizeOf(d, (S \ U) \ {x}) + d[x].size
      BY <2>1, <2>2, SizeOfIs
    <3> QED
      BY <2>2, <3>1
  <2>5. SizeOf(d, S \ U) = SizeOf(d, S) - SizeOf(d, U)
    BY <1>2
  <2>6. SizeOf(d, S \ V) = SizeOf(d, S) - SizeOf(d, V)
    BY <1>0, <2>2, <2>3, <2>4, <2>5
  <2> QED
    BY <2>6 DEF V
<1> HIDE DEF Good
<1>3. T \in Good
  BY <1>0, <1>1, <1>2, Finite, Z!SetInduction
<1> QED
  BY <1>3 DEF Good

-----------------------------------------------------------------------------
\* The files by age.

\* Before: the order of two files is that of their ages and places.
LEMMA OlderOrders ==
    ASSUME CleanupAssumption, NEW S \in SUBSET CacheFiles, NEW d, \A f \in S : d[f].mtime \in Int
    PROVE  /\ \A f, g \in S : f # g => Older(d, f, g) \/ Older(d, g, f)
           /\ \A f, g \in S : ~ (Older(d, f, g) /\ Older(d, g, f))
           /\ \A f, g, h \in S : Older(d, f, g) /\ Older(d, g, h) => Older(d, f, h)
<1>1. \A f \in S : Listing[f] \in Nat /\ \A g \in S : Listing[f] = Listing[g] => f = g
  BY DEF CleanupAssumption
<1>2. \A f, g \in S : f # g => Older(d, f, g) \/ Older(d, g, f)
  BY <1>1 DEF Older
<1>3. \A f, g \in S : ~ (Older(d, f, g) /\ Older(d, g, f))
  BY <1>1 DEF Older
<1>4. \A f, g, h \in S : Older(d, f, g) /\ Older(d, g, h) => Older(d, f, h)
  BY <1>1 DEF Older
<1> QED
  BY <1>2, <1>3, <1>4

\* Of some files one is the newest.
LEMMA NewestExists ==
    ASSUME CleanupAssumption, NEW S \in SUBSET CacheFiles, NEW d, \A f \in S : d[f].mtime \in Int, IsFiniteSet(S), S # {}
    PROVE  \E f \in S : \A g \in S \ {f} : Older(d, g, f)
<1> DEFINE Good == {T \in SUBSET S : T # {} => \E f \in T : \A g \in T \ {f} : Older(d, g, f)}
<1>1. {} \in Good
  OBVIOUS
<1>2. ASSUME NEW T \in SUBSET S, NEW x \in S, x \notin T, T \in Good PROVE T \union {x} \in Good
  <2>1. CASE T = {}
    BY <2>1
  <2>2. CASE T # {}
    <3>1. PICK f \in T : \A g \in T \ {f} : Older(d, g, f)
      BY <1>2, <2>2
    <3>2. CASE Older(d, x, f)
      BY <3>1, <3>2
    <3>3. CASE Older(d, f, x)
      <4>1. \A g \in (T \union {x}) \ {x} : Older(d, g, x)
        BY <3>1, <3>3, OlderOrders
      <4> QED
        BY <4>1
    <3> QED
      BY <1>2, <3>2, <3>3, OlderOrders
  <2> QED
    BY <2>1, <2>2
<1> HIDE DEF Good
<1>3. S \in Good
  BY <1>1, <1>2, Finite, Z!SetInduction
<1> QED
  BY <1>3 DEF Good

\* An order of files by age.
ByAge(d, files, order) ==
    /\ order \in [1 .. Cardinality(files) -> files] /\ ToSet(order) = files
    /\ \A i, j \in DOMAIN order : i < j => Older(d, order[i], order[j])

\* There is one.
LEMMA OrderExists ==
    ASSUME CleanupAssumption, NEW S \in SUBSET CacheFiles, NEW d, \A f \in S : d[f].mtime \in Int, IsFiniteSet(S)
    PROVE  \E order : ByAge(d, S, order)
<1> DEFINE Good == {n \in Nat : \A T \in SUBSET S : Cardinality(T) = n => \E order : ByAge(d, T, order)}
<1>0. \A T \in SUBSET S : IsFiniteSet(T) /\ Cardinality(T) \in Nat
  BY FS_Subset, FS_CardinalityType
<1>1. 0 \in Good
  <2> SUFFICES ASSUME NEW T \in SUBSET S, Cardinality(T) = 0 PROVE \E order : ByAge(d, T, order)
    OBVIOUS
  <2>1. T = {}
    BY <1>0, FS_EmptySet
  <2>2. ByAge(d, T, <<>>)
    BY <2>1 DEF ByAge, ToSet
  <2> QED
    BY <2>2
<1>2. ASSUME NEW n \in Nat, n \in Good PROVE n + 1 \in Good
  <2> SUFFICES ASSUME NEW T \in SUBSET S, Cardinality(T) = n + 1 PROVE \E order : ByAge(d, T, order)
    OBVIOUS
  <2>1. IsFiniteSet(T) /\ T # {}
    BY <1>0, FS_EmptySet
  <2>2. PICK f \in T : \A g \in T \ {f} : Older(d, g, f)
    BY <2>1, NewestExists
  <2> DEFINE U == T \ {f}
  <2>3. U \in SUBSET S /\ Cardinality(U) = n
    <3>1. Cardinality(U) = Cardinality(T) - 1
      BY <2>1, FS_RemoveElement
    <3> QED
      BY <3>1
  <2>4. PICK s : ByAge(d, U, s)
    BY <1>2, <2>3
  <2> HIDE DEF U
  <2>5. s \in [1 .. n -> U] /\ ToSet(s) = U /\ U \subseteq T /\ T = U \cup {f}
    BY <2>3, <2>4 DEF ByAge, U
  <2>6. s \in Seq(T) /\ Len(s) = n
    BY <2>5
  <2> DEFINE t == Append(s, f)
  <2>7. /\ DOMAIN t = 1 .. n + 1 /\ t \in [1 .. n + 1 -> T] /\ t[n + 1] = f /\ ToSet(t) = T
        /\ \A i \in 1 .. n : t[i] = s[i] /\ s[i] \in U
    <3>1. t \in Seq(T) /\ Len(t) = n + 1
      BY <2>6
    <3>2. t[n + 1] = f /\ \A i \in 1 .. n : t[i] = s[i] /\ s[i] \in U
      BY <2>5, <2>6
    <3>3. ToSet(t) = T
      BY <2>5, <2>6, ToSetAppend
    <3> HIDE DEF t
    <3> QED
      BY <3>1, <3>2, <3>3
  <2>8. \A i, j \in 1 .. n + 1 : i < j => Older(d, t[i], t[j])
    <3> HIDE DEF t
    <3> TAKE i, j \in 1 .. n + 1
    <3> HAVE i < j
    <3>1. i \in 1 .. n /\ t[i] = s[i] /\ s[i] \in U
      BY <2>7
    <3>2. CASE j = n + 1
      BY <2>2, <2>7, <3>1, <3>2 DEF U
    <3>3. CASE j \in 1 .. n
      BY <2>4, <2>5, <2>7, <3>1, <3>3 DEF ByAge
    <3> QED
      BY <3>2, <3>3
  <2>9. ByAge(d, T, t)
    <3> HIDE DEF t
    <3> QED
      BY <2>7, <2>8 DEF ByAge
  <2> QED
    BY <2>9
<1>3. Nat \subseteq Good
  <2> HIDE DEF Good
  <2> QED
    BY <1>1, <1>2, Z!Induction
<1> QED
  BY <1>0, <1>3

\* The candidates are in such an order.
LEMMA OldestFirstIs ==
    ASSUME CleanupAssumption, NEW S \in SUBSET CacheFiles, NEW d, \A f \in S : d[f].mtime \in Int, IsFiniteSet(S)
    PROVE  ByAge(d, S, OldestFirst(d, S)) /\ OldestFirst(d, S) \in Seq(S)
<1>1. \E order \in [1 .. Cardinality(S) -> S] : ToSet(order) = S /\ \A i, j \in DOMAIN order : i < j => Older(d, order[i], order[j])
  BY OrderExists DEF ByAge
<1>2. ByAge(d, S, OldestFirst(d, S))
  BY <1>1 DEF OldestFirst, ByAge
<1>3. Cardinality(S) \in Nat
  BY FS_CardinalityType
<1> QED
  BY <1>2, <1>3 DEF ByAge

-----------------------------------------------------------------------------
\* The second pass.

\* p is the configuration, the files that cannot be deleted, the directory and the total.
Sweep(p, acc, f) ==
    IF acc.total <= p[1].max_total THEN acc
    ELSE IF f \in p[2] /\ ~ p[1].dry_run THEN [acc EXCEPT !.tried = @ + 1]
    ELSE [total |-> acc.total - p[3][f].size, gone |-> acc.gone \cup {f}, tried |-> acc.tried + 1]
SweepStart(p) == [total |-> p[4], gone |-> {}, tried |-> 0]
W == INSTANCE FoldLemmas WITH op <- Sweep, base <- SweepStart

\* OverCap is a fold.
LEMMA OverCapIsFold ==
    \A c, total, candidates, stuck : OverCap(c, total, candidates, stuck) = W!Fold(<<c, stuck, dir, total>>, candidates)
BY DEF OverCap, Sweep, SweepStart, W!Fold, FoldLeft, MapThenFoldSet, Max, W!MapThenFoldSet, W!Max

\* What holds of the pass when it has been through the files of s: what it deleted is not stuck
\* and is no longer counted; while the total is over the cap, and before each file that it deleted,
\* there is nothing it spared; each file is reported once.
Swept(c, stuck, d, total, s, acc) ==
    /\ acc \in [total : Int, gone : SUBSET ToSet(s), tried : Nat]
    /\ acc.gone \cap stuck = {}
    /\ acc.total = total - SizeOf(d, acc.gone)
    /\ acc.total > c.max_total => ToSet(s) \subseteq acc.gone \cup stuck
    /\ \A i, j \in DOMAIN s : i < j /\ s[j] \in acc.gone => s[i] \in acc.gone \cup stuck
    /\ acc.tried <= Cardinality(acc.gone \cup (stuck \cap ToSet(s)))

\* One file more.
LEMMA SweptAppend ==
    ASSUME NEW c, c.max_total \in Nat, ~ c.dry_run, NEW stuck, NEW d, NEW E, Sized(d, E), NEW total \in Int,
           NEW s \in Seq(E), NEW acc, Swept(c, stuck, d, total, s, acc), NEW x \in E, x \notin ToSet(s)
    PROVE  Swept(c, stuck, d, total, Append(s, x), Sweep(<<c, stuck, d, total>>, acc, x))
<1> DEFINE t == Append(s, x)
           next == Sweep(<<c, stuck, d, total>>, acc, x)
           old == acc.gone \cup (stuck \cap ToSet(s))
<1>1. /\ t \in Seq(E) /\ ToSet(t) = ToSet(s) \cup {x} /\ Len(s) \in Nat /\ DOMAIN s = 1 .. Len(s)
      /\ DOMAIN t = 1 .. Len(s) + 1 /\ t[Len(s) + 1] = x /\ \A i \in 1 .. Len(s) : t[i] = s[i] /\ s[i] \in ToSet(s)
  <2>1. t \in Seq(E) /\ ToSet(t) = ToSet(s) \cup {x}
    BY ToSetAppend
  <2>2. \A i \in 1 .. Len(s) : s[i] \in ToSet(s)
    BY DEF ToSet
  <2> QED
    BY <2>1, <2>2
<1>2. ToSet(s) \subseteq E
  BY DEF ToSet
<1>3. /\ acc \in [total : Int, gone : SUBSET ToSet(s), tried : Nat]
      /\ acc.total \in Int /\ acc.gone \subseteq ToSet(s) /\ acc.tried \in Nat /\ x \notin acc.gone
  BY DEF Swept
<1>4. IsFiniteSet(old) /\ Cardinality(old) \in Nat /\ x \notin old
  BY <1>2, <1>3, FS_Subset, FS_CardinalityType, old \subseteq E DEF Sized
<1> DEFINE more == old \cup {x}
<1>5. IsFiniteSet(more) /\ Cardinality(more) = Cardinality(old) + 1
  BY <1>4, FS_AddElement
<1>a. acc.tried <= Cardinality(old) /\ d[x].size \in Nat
  BY DEF Swept, Sized
<1> HIDE DEF t, old, more
<1>6. \A i, j \in DOMAIN t : i < j => i \in DOMAIN s /\ t[i] = s[i] /\ ((j \in DOMAIN s /\ t[j] = s[j]) \/ t[j] = x)
  BY <1>1
<1>7. CASE acc.total <= c.max_total
  <2>1. next = acc
    BY <1>7 DEF Sweep
  <2> DEFINE u == acc.gone \cup (stuck \cap ToSet(t))
  <2>2. u = old \/ u = more
    BY <1>1 DEF old, more
  <2>3. acc.tried <= Cardinality(acc.gone \cup (stuck \cap ToSet(t)))
    <3> HIDE DEF u
    <3>1. Cardinality(u) = Cardinality(old) \/ Cardinality(u) = Cardinality(old) + 1
      BY <1>5, <2>2
    <3> QED
      BY <1>a, <1>3, <1>4, <3>1 DEF u
  <2>4. \A i, j \in DOMAIN t : i < j /\ t[j] \in acc.gone => t[i] \in acc.gone \cup stuck
    BY <1>3, <1>6 DEF Swept
  <2>5. acc \in [total : Int, gone : SUBSET ToSet(t), tried : Nat]
    BY <1>1, <1>3
  <2>6. Swept(c, stuck, d, total, t, acc)
    BY <1>3, <1>7, <2>3, <2>4, <2>5 DEF Swept
  <2> QED
    BY <2>1, <2>6 DEF t
<1>8. ASSUME acc.total > c.max_total, x \in stuck PROVE Swept(c, stuck, d, total, t, next)
  <2>1. next = [acc EXCEPT !.tried = @ + 1]
    BY <1>3, <1>8 DEF Sweep
  <2>2. /\ next \in [total : Int, gone : SUBSET ToSet(t), tried : Nat]
        /\ next.total = acc.total /\ next.gone = acc.gone /\ next.tried = acc.tried + 1
    BY <1>1, <1>3, <2>1
  <2> HIDE DEF next
  <2>3. next.gone \cup (stuck \cap ToSet(t)) = more
    BY <1>1, <1>8, <2>2 DEF old, more
  <2>4. next.tried <= Cardinality(next.gone \cup (stuck \cap ToSet(t)))
    <3> DEFINE u == next.gone \cup (stuck \cap ToSet(t))
    <3>1. u = more
      BY <2>3
    <3> HIDE DEF u
    <3>2. Cardinality(u) = Cardinality(old) + 1
      BY <1>5, <3>1
    <3> QED
      BY <1>a, <1>3, <1>4, <2>2, <3>2 DEF u
  <2>5. \A i, j \in DOMAIN t : i < j /\ t[j] \in next.gone => t[i] \in next.gone \cup stuck
    BY <1>3, <1>6, <2>2 DEF Swept
  <2>6. next.total > c.max_total => ToSet(t) \subseteq next.gone \cup stuck
    BY <1>1, <1>8, <2>2 DEF Swept
  <2> QED
    BY <2>2, <2>4, <2>5, <2>6 DEF Swept
<1>9. ASSUME acc.total > c.max_total, x \notin stuck PROVE Swept(c, stuck, d, total, t, next)
  <2>1. next = [total |-> acc.total - d[x].size, gone |-> acc.gone \cup {x}, tried |-> acc.tried + 1]
    BY <1>3, <1>9 DEF Sweep
  <2>2. /\ next \in [total : Int, gone : SUBSET ToSet(t), tried : Nat]
        /\ next.total = acc.total - d[x].size /\ next.gone = acc.gone \cup {x} /\ next.tried = acc.tried + 1
    <3>1. acc.total - d[x].size \in Int /\ acc.tried + 1 \in Nat /\ acc.gone \cup {x} \subseteq ToSet(t)
      BY <1>a, <1>1, <1>3
    <3> HIDE DEF next
    <3> QED
      BY <2>1, <3>1
  <2> HIDE DEF next
  <2>3. next.gone \cup (stuck \cap ToSet(t)) = more
    BY <1>1, <1>9, <2>2 DEF old, more
  <2>4. next.tried <= Cardinality(next.gone \cup (stuck \cap ToSet(t)))
    <3> DEFINE u == next.gone \cup (stuck \cap ToSet(t))
    <3>1. u = more
      BY <2>3
    <3> HIDE DEF u
    <3>2. Cardinality(u) = Cardinality(old) + 1
      BY <1>5, <3>1
    <3> QED
      BY <1>a, <1>3, <1>4, <2>2, <3>2 DEF u
  <2>5. ToSet(s) \subseteq acc.gone \cup stuck
    BY <1>9 DEF Swept
  <2>6. \A i, j \in DOMAIN t : i < j /\ t[j] \in next.gone => t[i] \in next.gone \cup stuck
    BY <1>1, <1>6, <2>2, <2>5
  <2>7. ToSet(t) \subseteq next.gone \cup stuck
    BY <1>1, <2>2, <2>5
  <2>8. next.total = total - SizeOf(d, next.gone)
    <3>1. Sized(d, next.gone) /\ x \in next.gone /\ next.gone \ {x} = acc.gone
      BY <1>2, <1>3, <2>2, FS_Subset, next.gone \subseteq E DEF Sized
    <3>2. /\ SizeOf(d, next.gone \ {x}) \in Int
          /\ SizeOf(d, next.gone) = SizeOf(d, next.gone \ {x}) + d[x].size
      BY <3>1, SizeOfIs
    <3>3. acc.total = total - SizeOf(d, acc.gone)
      BY DEF Swept
    <3>4. SizeOf(d, acc.gone) \in Int /\ SizeOf(d, next.gone) = SizeOf(d, acc.gone) + d[x].size
      BY <3>1, <3>2
    <3> QED
      BY <1>a, <2>2, <3>3, <3>4
  <2>9. next.gone \cap stuck = {}
    BY <1>9, <2>2 DEF Swept
  <2> QED
    BY <2>2, <2>4, <2>6, <2>7, <2>8, <2>9 DEF Swept
<1> QED
  BY <1>3, <1>7, <1>8, <1>9 DEF t

\* No file twice.
Distinct(s) == \A i, j \in DOMAIN s : i # j => s[i] # s[j]

\* The whole pass.
LEMMA OverCapIs ==
    ASSUME NEW c, c.max_total \in Nat, ~ c.dry_run, NEW stuck, NEW E, Sized(dir, E), NEW total \in Int,
           NEW candidates \in Seq(E), Distinct(candidates)
    PROVE  Swept(c, stuck, dir, total, candidates, OverCap(c, total, candidates, stuck))
<1> DEFINE p == <<c, stuck, dir, total>>
           Good == {s \in Seq(E) : Distinct(s) => Swept(c, stuck, dir, total, s, W!Fold(p, s))}
<1>1. <<>> \in Good
  <2>1. W!Fold(p, <<>>) = [total |-> total, gone |-> {}, tried |-> 0]
    <3>1. W!Fold(p, <<>>) = SweepStart(p)
      BY W!FoldEmpty
    <3> QED
      BY <3>1 DEF SweepStart
  <2>2. SizeOf(dir, {}) = 0
    BY SizeIsFold, Z!FoldOverEmpty DEF NoSize
  <2>3. Swept(c, stuck, dir, total, <<>>, [total |-> total, gone |-> {}, tried |-> 0])
    <3> DEFINE start == [total |-> total, gone |-> {}, tried |-> 0]
    <3>1. start.total = total /\ start.gone = {} /\ start.tried = 0 /\ ToSet(<<>>) = {}
      BY DEF ToSet
    <3>2. start \in [total : Int, gone : SUBSET ToSet(<<>>), tried : Nat]
      OBVIOUS
    <3> HIDE DEF start
    <3>4. Cardinality(start.gone \cup (stuck \cap ToSet(<<>>))) = 0
      BY <3>1, FS_EmptySet, start.gone \cup (stuck \cap ToSet(<<>>)) = {}
    <3>5. start.total = total - SizeOf(dir, start.gone)
      BY <2>2, <3>1
    <3>6. Swept(c, stuck, dir, total, <<>>, start)
      BY <3>1, <3>2, <3>4, <3>5 DEF Swept
    <3> QED
      BY <3>6 DEF start
  <2> QED
    BY <2>1, <2>3
<1>2. ASSUME NEW s \in Seq(E), NEW x \in E, s \in Good PROVE Append(s, x) \in Good
  <2> SUFFICES ASSUME Distinct(Append(s, x)) PROVE Swept(c, stuck, dir, total, Append(s, x), W!Fold(p, Append(s, x)))
    OBVIOUS
  <2>1. /\ DOMAIN Append(s, x) = 1 .. Len(s) + 1 /\ Append(s, x)[Len(s) + 1] = x /\ DOMAIN s = 1 .. Len(s) /\ Len(s) \in Nat
        /\ \A i \in DOMAIN s : Append(s, x)[i] = s[i]
    OBVIOUS
  <2>2. Distinct(s) /\ x \notin ToSet(s)
    BY <2>1 DEF Distinct, ToSet
  <2>3. W!Fold(p, Append(s, x)) = Sweep(p, W!Fold(p, s), x)
    BY W!FoldAppend
  <2>4. Swept(c, stuck, dir, total, s, W!Fold(p, s))
    BY <1>2, <2>2
  <2>5. Swept(c, stuck, dir, total, Append(s, x), Sweep(p, W!Fold(p, s), x))
    BY <2>2, <2>4, SweptAppend
  <2> QED
    BY <2>3, <2>5
<1>3. Seq(E) \subseteq Good
  <2> HIDE DEF Good
  <2> QED
    BY <1>1, <1>2, W!SequenceInduction
<1> QED
  BY <1>3, OverCapIsFold

-----------------------------------------------------------------------------
\* A cleanup.

DirTypeOK ==
    /\ DOMAIN dir \subseteq CacheFiles /\ now \in Nat
    /\ \A f \in DOMAIN dir : dir[f].size \in Nat /\ dir[f].mtime \in Int

\* The second pass of a cleanup, and what it goes through.
Young(c) == (DOMAIN dir \ Expired(c)) \ Pinned(c)
Second(c, stuck) == OverCap(c, Counted(DOMAIN dir \ Expired(c)), OldestFirst(dir, Young(c)), stuck)

\* What it leaves over, and what it deletes.
LEMMA CleanupDoes ==
    ASSUME CleanupAssumption, DirTypeOK, NEW c \in Configs, ~ c.dry_run, NEW stuck \in SUBSET DOMAIN dir
    PROVE  /\ Second(c, stuck).gone \subseteq Young(c) /\ Second(c, stuck).gone \cap stuck = {}
           /\ \/ SizeOf(dir, (DOMAIN dir \ Expired(c)) \ Second(c, stuck).gone) <= c.max_total
              \/ Young(c) \subseteq Second(c, stuck).gone \cup stuck
           /\ \A f \in Second(c, stuck).gone, g \in Young(c) :
                 dir[g].mtime < dir[f].mtime => g \in Second(c, stuck).gone \cup stuck
           /\ Second(c, stuck).tried \in Nat
           /\ Second(c, stuck).tried <= Cardinality(Second(c, stuck).gone \cup (stuck \cap Young(c)))
<1> DEFINE young == Young(c)
           capped == Second(c, stuck)
           kept == DOMAIN dir \ Expired(c)
           order == OldestFirst(dir, young)
           total == SizeOf(dir, kept)
<1>1. IsFiniteSet(DOMAIN dir) /\ Sized(dir, kept) /\ Sized(dir, young) /\ young \subseteq kept /\ c.max_total \in Nat
  <2>1. IsFiniteSet(DOMAIN dir)
    BY FS_Subset DEF CleanupAssumption, DirTypeOK
  <2>2. IsFiniteSet(kept) /\ IsFiniteSet(young)
    BY <2>1, FS_Subset, kept \subseteq DOMAIN dir, young \subseteq DOMAIN dir DEF Young
  <2> QED
    BY <2>1, <2>2 DEF Sized, DirTypeOK, CleanupAssumption, Young
<1>2. young \subseteq CacheFiles /\ \A f \in young : dir[f].mtime \in Int
  BY DEF DirTypeOK, Young
<1> HIDE DEF young
<1>3. ByAge(dir, young, order) /\ order \in Seq(young)
  BY <1>1, <1>2, OldestFirstIs DEF Sized, order
<1>4. total \in Int
  BY <1>1, SizeOfIs
<1> HIDE DEF order, capped
<1>5. \A i, j \in DOMAIN order : i < j => Older(dir, order[i], order[j])
  BY <1>3 DEF ByAge
<1>6. \A i \in DOMAIN order : order[i] \in young /\ i \in Int
  BY <1>3
<1>7. \A f, g \in young : ~ (Older(dir, f, g) /\ Older(dir, g, f))
  BY <1>2, OlderOrders
<1>8. Distinct(order)
  <2> SUFFICES ASSUME NEW i \in DOMAIN order, NEW j \in DOMAIN order, i # j, order[i] = order[j] PROVE FALSE
    BY DEF Distinct
  <2>1. i < j \/ j < i
    BY <1>6
  <2>2. Older(dir, order[i], order[i])
    BY <1>5, <2>1
  <2> QED
    BY <1>6, <1>7, <2>2
<1>9. capped = OverCap(c, total, order, stuck)
  BY DEF Counted, order, young, capped, Second
<1>10. Swept(c, stuck, dir, total, order, capped)
  BY <1>1, <1>3, <1>4, <1>8, <1>9, OverCapIs
<1>11. ToSet(order) = young
  BY <1>3 DEF ByAge
<1>12. capped.gone \subseteq young /\ capped.gone \cap stuck = {} /\ capped.tried \in Nat
  BY <1>10, <1>11 DEF Swept
<1>13. SizeOf(dir, kept \ capped.gone) <= c.max_total \/ young \subseteq capped.gone \cup stuck
  <2>1. SizeOf(dir, kept \ capped.gone) = total - SizeOf(dir, capped.gone)
    BY <1>1, <1>12, SizeWithout
  <2>2. capped.total = total - SizeOf(dir, capped.gone) /\ capped.total \in Int
    BY <1>10 DEF Swept
  <2>3. capped.total > c.max_total => young \subseteq capped.gone \cup stuck
    BY <1>10, <1>11 DEF Swept
  <2> DEFINE left == SizeOf(dir, kept \ capped.gone)
  <2>4. left = capped.total
    BY <2>1, <2>2
  <2> HIDE DEF left
  <2>5. left <= c.max_total \/ capped.total > c.max_total
    BY <1>1, <2>2, <2>4
  <2> QED
    BY <2>3, <2>5 DEF left
<1>14. ASSUME NEW f \in capped.gone, NEW g \in young, dir[g].mtime < dir[f].mtime PROVE g \in capped.gone \cup stuck
  <2>1. PICK i, j \in DOMAIN order : order[i] = g /\ order[j] = f
    BY <1>11, <1>12 DEF ToSet
  <2>2. Older(dir, g, f) /\ f \in young /\ f # g
    BY <1>2, <1>12, <1>14 DEF Older
  <2>3. i < j
    <3>1. ~ (j < i)
      BY <1>5, <1>7, <2>1, <2>2
    <3>2. i # j
      BY <2>1, <2>2
    <3> QED
      BY <1>6, <3>1, <3>2
  <2> QED
    BY <1>10, <2>1, <2>3 DEF Swept
<1>15. capped.tried <= Cardinality(capped.gone \cup (stuck \cap young))
  BY <1>10, <1>11 DEF Swept
<1> QED
  BY <1>12, <1>13, <1>14, <1>15 DEF young, capped

\* What a cleanup has just done is what it should do.
LEMMA CleanupKeeps ==
    ASSUME CleanupAssumption, DirTypeOK, NEW c \in Configs, Cleanup(c)
    PROVE  DirTypeOK' /\ CleanupTakesTheOldest'
<1> DEFINE expired == Expired(c)
           kept == DOMAIN dir \ expired
           young == kept \ Pinned(c)
           pinned == IF c.keep_current THEN c.referenced ELSE {}
<1>1. PICK stuck \in SUBSET DOMAIN dir :
        LET capped == OverCap(c, Counted(kept), OldestFirst(dir, young), stuck)
            gone == IF c.dry_run THEN {} ELSE (expired \ stuck) \cup capped.gone
        IN  /\ dir' = WithoutFiles(gone)
            /\ summary' = [config |-> c, before |-> dir, stuck |-> stuck, deleted |-> Cardinality(expired) + capped.tried,
                           bytes_freed |-> SizeOf(dir, gone)]
            /\ now' = now
  BY DEF Cleanup
<1> DEFINE capped == OverCap(c, Counted(kept), OldestFirst(dir, young), stuck)
           gone == IF c.dry_run THEN {} ELSE (expired \ stuck) \cup capped.gone
<1>2. dir' = [f \in DOMAIN dir \ gone |-> dir[f]] /\ now' = now
  BY <1>1 DEF WithoutFiles
<1>3. summary'.config = c /\ summary'.before = dir /\ summary'.stuck = stuck /\ summary'.deleted = Cardinality(expired) + capped.tried
  BY <1>1
<1>4. Pinned(c) = pinned \cap DOMAIN dir
  BY DEF Pinned
<1>5. expired \subseteq DOMAIN dir \ Pinned(c)
  BY DEF Expired
<1>6. young = {f \in DOMAIN dir \ pinned : now - dir[f].mtime <= c.max_age}
  <2>1. \A f \in DOMAIN dir : now - dir[f].mtime > c.max_age <=> ~ (now - dir[f].mtime <= c.max_age)
    BY DEF DirTypeOK, CleanupAssumption
  <2> HIDE DEF pinned
  <2> QED
    BY <1>4, <2>1 DEF Expired
<1>7. c.dry_run => gone = {}
  OBVIOUS
<1>8. ASSUME ~ c.dry_run
      PROVE  /\ gone = (expired \ stuck) \cup capped.gone
             /\ capped.gone \subseteq young /\ capped.gone \cap stuck = {}
             /\ SizeOf(dir, kept \ capped.gone) <= c.max_total \/ young \subseteq capped.gone \cup stuck
             /\ \A f \in capped.gone, g \in young : dir[g].mtime < dir[f].mtime => g \in capped.gone \cup stuck
             /\ capped.tried \in Nat /\ capped.tried <= Cardinality(capped.gone \cup (stuck \cap young))
  <2>1. gone = (expired \ stuck) \cup capped.gone
    BY <1>8
  <2>2. capped = Second(c, stuck) /\ young = Young(c)
    BY DEF Second, Young
  <2> HIDE DEF gone, capped, young
  <2>5. /\ capped.gone \subseteq young /\ capped.gone \cap stuck = {}
        /\ SizeOf(dir, (DOMAIN dir \ Expired(c)) \ capped.gone) <= c.max_total \/ young \subseteq capped.gone \cup stuck
        /\ \A f \in capped.gone, g \in young : dir[g].mtime < dir[f].mtime => g \in capped.gone \cup stuck
        /\ capped.tried \in Nat /\ capped.tried <= Cardinality(capped.gone \cup (stuck \cap young))
    BY <1>8, <2>2, CleanupDoes
  <2> QED
    BY <2>1, <2>5
<1> HIDE DEF expired, capped, gone, young, pinned
<1>9. gone \subseteq DOMAIN dir /\ gone \cap pinned = {}
  BY <1>4, <1>5, <1>7, <1>8 DEF young
<1>10. DOMAIN dir' = DOMAIN dir \ gone /\ \A f \in DOMAIN dir' : dir'[f] = dir[f]
  BY <1>2
<1>11. DirTypeOK'
  BY <1>2, <1>10 DEF DirTypeOK
<1>12. IsFiniteSet(DOMAIN dir)
  BY FS_Subset DEF CleanupAssumption, DirTypeOK
<1>13. DOMAIN dir \ DOMAIN dir' = gone
  BY <1>9, <1>10
<1>14. ASSUME ~ c.dry_run
       PROVE  SizeOf(dir', DOMAIN dir' \cap (young \cup pinned)) <= c.max_total \/ DOMAIN dir' \subseteq pinned \cup stuck
  <2> DEFINE rest == DOMAIN dir' \cap (young \cup pinned)
  <2>1. rest = kept \ capped.gone
    BY <1>4, <1>5, <1>8, <1>10, <1>14 DEF young
  <2>2. SizeOf(dir', rest) = SizeOf(dir, rest)
    <3>1. IsFiniteSet(rest) /\ \A f \in rest : dir'[f] = dir[f]
      BY <1>10, <1>12, FS_Subset, rest \subseteq DOMAIN dir
    <3> HIDE DEF rest
    <3> QED
      BY <3>1, SameSize
  <2>3. young \subseteq capped.gone \cup stuck => DOMAIN dir' \subseteq pinned \cup stuck
    BY <1>4, <1>8, <1>10, <1>14 DEF young
  <2> QED
    BY <1>8, <1>14, <2>1, <2>2, <2>3
<1>15. ASSUME NEW f \in gone \cap young, NEW g \in young \cap DOMAIN dir', dir[g].mtime < dir[f].mtime PROVE g \in stuck
  <2>1. ~ c.dry_run
    BY <1>7
  <2>2. f \in capped.gone
    BY <1>8, <2>1 DEF young
  <2>3. g \notin capped.gone
    BY <1>8, <1>10, <2>1
  <2> QED
    BY <1>8, <1>15, <2>1, <2>2, <2>3
<1>16. ASSUME ~ c.dry_run PROVE Cardinality(expired) + capped.tried <= Cardinality(gone \cup stuck)
  <2> DEFINE reported == capped.gone \cup (stuck \cap young)
             all == expired \cup reported
  <2>1. IsFiniteSet(expired) /\ IsFiniteSet(reported) /\ expired \cap reported = {}
    BY <1>5, <1>8, <1>12, <1>16, FS_Subset, expired \subseteq DOMAIN dir, reported \subseteq DOMAIN dir DEF young
  <2>2. Cardinality(all) = Cardinality(expired) + Cardinality(reported) /\ Cardinality(expired) \in Nat
        /\ Cardinality(reported) \in Nat
    <3> HIDE DEF reported
    <3>1. Cardinality(all) = Cardinality(expired) + Cardinality(reported) - Cardinality(expired \cap reported)
      BY <2>1, FS_Union
    <3>2. Cardinality(expired \cap reported) = 0
      BY <2>1, FS_EmptySet
    <3>3. Cardinality(expired) \in Nat /\ Cardinality(reported) \in Nat
      BY <2>1, FS_CardinalityType
    <3> QED
      BY <3>1, <3>2, <3>3
  <2>3. all \subseteq gone \cup stuck /\ IsFiniteSet(gone \cup stuck)
    BY <1>8, <1>9, <1>12, <1>16, FS_Subset, gone \cup stuck \subseteq DOMAIN dir
  <2>4. Cardinality(all) <= Cardinality(gone \cup stuck) /\ Cardinality(gone \cup stuck) \in Nat
    <3> HIDE DEF all
    <3> QED
      BY <2>3, FS_Subset, FS_CardinalityType
  <2>5. capped.tried \in Nat /\ capped.tried <= Cardinality(reported)
    BY <1>8, <1>16
  <2> HIDE DEF all, reported
  <2> QED
    BY <2>2, <2>4, <2>5
<1>17. CleanupTakesTheOldest'
  BY <1>2, <1>3, <1>6, <1>7, <1>9, <1>13, <1>14, <1>15, <1>16 DEF CleanupTakesTheOldest, pinned
<1> QED
  BY <1>11, <1>17

ClInv == DirTypeOK /\ CleanupTakesTheOldest

\* The other steps end what is said of a cleanup.
LEMMA ClStep == ASSUME CleanupAssumption, ClInv, [ClNext]_clVars PROVE ClInv'
<1>1. ASSUME NEW c \in Configs, Cleanup(c) PROVE ClInv'
  BY <1>1, CleanupKeeps DEF ClInv
<1>2. ASSUME summary' = NoSummary PROVE CleanupTakesTheOldest'
  BY <1>2 DEF CleanupTakesTheOldest, NoSummary, NoFiles
<1>3. ASSUME NEW f \in CacheFiles, NEW size \in Sizes, Saved(f, size) PROVE ClInv'
  <2> DEFINE new == [size |-> size, mtime |-> now]
  <2>2. dir' = [g \in DOMAIN dir \cup {f} |-> IF g = f THEN new ELSE dir[g]] /\ now' = now
    BY <1>3 DEF Saved
  <2>3. new.size \in Nat /\ new.mtime \in Int /\ now \in Nat
    <3>1. now \in Nat
      BY DEF ClInv, DirTypeOK
    <3>2. size \in Nat
      BY DEF CleanupAssumption
    <3> QED
      BY <3>1, <3>2
  <2> HIDE DEF new
  <2>4. DOMAIN dir' = DOMAIN dir \cup {f} /\ \A g \in DOMAIN dir' : dir'[g] = IF g = f THEN new ELSE dir[g]
    BY <2>2
  <2>5. DOMAIN dir \subseteq CacheFiles /\ \A g \in DOMAIN dir : dir[g].size \in Nat /\ dir[g].mtime \in Int
    BY DEF ClInv, DirTypeOK
  <2>6. \A g \in DOMAIN dir' : dir'[g].size \in Nat /\ dir'[g].mtime \in Int
    BY <2>3, <2>4, <2>5
  <2>1. DirTypeOK'
    BY <2>2, <2>3, <2>4, <2>5, <2>6 DEF DirTypeOK
  <2> QED
    BY <1>2, <1>3, <2>1 DEF Saved, ClInv
<1>4. CASE NextDay
  <2>1. DirTypeOK'
    BY <1>4 DEF NextDay, ClInv, DirTypeOK, CleanupAssumption
  <2> QED
    BY <1>2, <1>4, <2>1 DEF NextDay, ClInv
<1>5. CASE UNCHANGED clVars
  BY <1>5 DEF clVars, ClInv, DirTypeOK, CleanupTakesTheOldest
<1> QED
  BY <1>1, <1>3, <1>4, <1>5 DEF ClNext

\* Every cleanup takes the oldest files and no more than it needs to, spares those in use, and
\* reports no file twice, whatever files there are and whichever cannot be deleted.
THEOREM CleanupsTakeTheOldest == ClSpec => []CleanupTakesTheOldest
<1>1. CleanupAssumption
  BY CleanupIsTyped
<1>2. ClInit => ClInv
  BY DEF ClInit, ClInv, DirTypeOK, CleanupTakesTheOldest, NoFiles, NoSummary
<1>3. ClInv /\ [ClNext]_clVars => ClInv'
  BY <1>1, ClStep
<1>4. ClInv => CleanupTakesTheOldest
  BY DEF ClInv
<1> QED
  BY <1>2, <1>3, <1>4, PTL DEF ClSpec

-----------------------------------------------------------------------------
\* The tables of the editor.

IsSeq(s) == \E n \in Nat : s = [i \in 1 .. n |-> s[i]]
NamesOf(rows) == {r.name : r \in rows}

\* A sequence is one of its elements, and what is a sequence of anything is one.
LEMMA SeqOfItself ==
    ASSUME NEW s
    PROVE  /\ IsSeq(s) => s \in Seq(ToSet(s)) /\ DOMAIN s = 1 .. Len(s) /\ Len(s) \in Nat
           /\ \A E : s \in Seq(E) => IsSeq(s)
<1>1. ASSUME IsSeq(s) PROVE s \in Seq(ToSet(s)) /\ DOMAIN s = 1 .. Len(s) /\ Len(s) \in Nat
  <2>1. PICK n \in Nat : s = [i \in 1 .. n |-> s[i]]
    BY <1>1 DEF IsSeq
  <2>2. s \in [1 .. n -> ToSet(s)]
    BY <2>1 DEF ToSet
  <2> QED
    BY <2>2
<1>2. ASSUME NEW E, s \in Seq(E) PROVE IsSeq(s)
  BY <1>2 DEF IsSeq
<1> QED
  BY <1>1, <1>2

\* Conditions that the rows do not tell apart pick the same ones.
LEMMA WhereAlike ==
    ASSUME NEW E, NEW s \in Seq(E), NEW A, NEW B, \A x \in ToSet(s) : x \in A <=> x \in B
    PROVE  Where(s, A) = Where(s, B)
<1> DEFINE Good == {r \in Seq(E) : (\A x \in ToSet(r) : x \in A <=> x \in B) => R!Fold(A, r) = R!Fold(B, r)}
<1>1. <<>> \in Good
  BY R!FoldEmpty DEF NoRows
<1>2. ASSUME NEW r \in Seq(E), NEW x \in E, r \in Good PROVE Append(r, x) \in Good
  <2>1. R!Fold(A, Append(r, x)) = Keep(A, R!Fold(A, r), x) /\ R!Fold(B, Append(r, x)) = Keep(B, R!Fold(B, r), x)
    BY R!FoldAppend
  <2>2. ToSet(Append(r, x)) = ToSet(r) \cup {x} /\ Append(r, x) \in Seq(E)
    BY ToSetAppend
  <2>3. (\A y \in ToSet(r) : y \in A <=> y \in B) => R!Fold(A, r) = R!Fold(B, r)
    BY <1>2
  <2> DEFINE a == R!Fold(A, r)
             b == R!Fold(B, r)
             s1 == Append(r, x)
             a1 == R!Fold(A, s1)
             b1 == R!Fold(B, s1)
  <2>4. a1 = Keep(A, a, x) /\ b1 = Keep(B, b, x)
    BY <2>1
  <2> HIDE DEF a1, b1, s1
  <2>5. ASSUME \A y \in ToSet(s1) : y \in A <=> y \in B PROVE a1 = b1
    <3>1. (x \in A <=> x \in B) /\ \A y \in ToSet(r) : y \in A <=> y \in B
      BY <2>2, <2>5 DEF s1
    <3>2. a = b
      BY <2>3, <3>1
    <3> HIDE DEF a, b
    <3> QED
      BY <2>4, <3>1, <3>2 DEF Keep
  <2>6. s1 \in Seq(E)
    BY <2>2 DEF s1
  <2> HIDE DEF a, b
  <2> QED
    BY <2>5, <2>6 DEF a1, b1, s1
<1>3. Seq(E) \subseteq Good
  <2> HIDE DEF Good
  <2> QED
    BY <1>1, <1>2, R!SequenceInduction
<1> QED
  BY <1>3, WhereIsFold

\* To pick twice is to pick by both conditions.
LEMMA WhereTwice ==
    ASSUME NEW E, NEW s \in Seq(E), NEW A, NEW B
    PROVE  Where(Where(s, A), B) = Where(s, A \cap B)
<1> DEFINE Good == {r \in Seq(E) : R!Fold(A, r) \in Seq(E) /\ R!Fold(B, R!Fold(A, r)) = R!Fold(A \cap B, r)}
<1>1. <<>> \in Good
  <2>1. R!Fold(A, <<>>) = <<>> /\ R!Fold(B, <<>>) = <<>> /\ R!Fold(A \cap B, <<>>) = <<>>
    BY R!FoldEmpty DEF NoRows
  <2>2. R!Fold(B, R!Fold(A, <<>>)) = <<>>
    BY <2>1
  <2>3. <<>> \in Seq(E)
    OBVIOUS
  <2> QED
    BY <2>1, <2>2, <2>3
<1>2. ASSUME NEW r \in Seq(E), NEW x \in E, r \in Good PROVE Append(r, x) \in Good
  <2> DEFINE t == R!Fold(A, r)
  <2>1. /\ R!Fold(A, Append(r, x)) = Keep(A, t, x)
        /\ R!Fold(A \cap B, Append(r, x)) = Keep(A \cap B, R!Fold(A \cap B, r), x)
    BY R!FoldAppend
  <2>2. t \in Seq(E) /\ R!Fold(B, t) = R!Fold(A \cap B, r)
    BY <1>2
  <2> HIDE DEF t
  <2>3. R!Fold(B, Append(t, x)) = Keep(B, R!Fold(B, t), x) /\ Append(t, x) \in Seq(E)
    BY <2>2, R!FoldAppend
  <2> DEFINE u == R!Fold(A \cap B, r)
             s1 == Append(r, x)
             t1 == R!Fold(A, s1)
             u1 == R!Fold(A \cap B, s1)
  <2>4. t1 = Keep(A, t, x) /\ u1 = Keep(A \cap B, u, x) /\ R!Fold(B, t) = u
    BY <2>1, <2>2
  <2>5. s1 \in Seq(E)
    OBVIOUS
  <2>6. t1 \in Seq(E) /\ R!Fold(B, t1) = u1
    <3> HIDE DEF t1, u1, u, s1
    <3>1. CASE x \in A
      <4>1. t1 = Append(t, x)
        BY <2>4, <3>1 DEF Keep
      <4>2. R!Fold(B, t1) = Keep(B, u, x) /\ t1 \in Seq(E)
        BY <2>3, <2>4, <4>1
      <4>3. Keep(B, u, x) = Keep(A \cap B, u, x)
        BY <3>1 DEF Keep
      <4> QED
        BY <2>4, <4>2, <4>3
    <3>2. CASE x \notin A
      <4>1. t1 = t /\ u1 = u
        BY <2>4, <3>2 DEF Keep
      <4> QED
        BY <2>2, <2>4, <4>1
    <3> QED
      BY <3>1, <3>2
  <2> HIDE DEF u
  <2> QED
    BY <2>5, <2>6 DEF t1, u1, s1
<1>3. Seq(E) \subseteq Good
  <2> HIDE DEF Good
  <2> QED
    BY <1>1, <1>2, R!SequenceInduction
<1> QED
  BY <1>3, WhereIsFold

\* The rows that are left.
LEMMA ToSetWhere ==
    ASSUME NEW s, IsSeq(s), NEW A
    PROVE  ToSet(Where(s, A)) = ToSet(s) \cap A /\ IsSeq(Where(s, A)) /\ Where(s, A) \in Seq(ToSet(s))
<1> DEFINE t == Where(s, A)
<1>1. s \in Seq(ToSet(s)) /\ DOMAIN s = 1 .. Len(s)
  BY SeqOfItself
<1>2. t \in Seq(ToSet(s)) /\ \E g : Picks(s, A, t, g)
  BY <1>1, WherePicks
<1>3. PICK g : Picks(s, A, t, g)
  BY <1>2
<1> HIDE DEF t
<1>4. IsSeq(t) /\ DOMAIN t = 1 .. Len(t)
  BY <1>2, SeqOfItself
<1>5. ASSUME NEW k \in DOMAIN t PROVE t[k] \in ToSet(s) \cap A
  BY <1>3, <1>4, <1>5 DEF Picks, ToSet
<1>6. ASSUME NEW i \in DOMAIN s, s[i] \in A PROVE s[i] \in ToSet(t)
  BY <1>3, <1>4, <1>6 DEF Picks, ToSet
<1>7. ToSet(t) = ToSet(s) \cap A
  BY <1>5, <1>6 DEF ToSet
<1> QED
  BY <1>2, <1>4, <1>7 DEF t

\* A row that has a name is not blank: to leave the blank rows out takes none of those with names.
LEMMA NamedRows ==
    ASSUME NEW table, IsSeq(table)
    PROVE  /\ WithName(TableRows(table)) = WithName(table) /\ IsSeq(WithName(table))
           /\ ToSet(WithName(table)) = {r \in ToSet(table) : r.name # EmptyText}
<1> DEFINE A == ToSet(table) \ {BlankData, BlankSymbol}
           t == Where(table, A)
           B == {r \in ToSet(t) : r.name # EmptyText}
           N == {r \in ToSet(table) : r.name # EmptyText}
<1>1. table \in Seq(ToSet(table))
  BY SeqOfItself
<1>2. ToSet(t) = ToSet(table) \cap A
  BY ToSetWhere
<1>3. \A r \in ToSet(table) : r \in A \cap B <=> r \in N
  <2>1. BlankData.name = EmptyText /\ BlankSymbol.name = EmptyText
    BY DEF BlankData, BlankSymbol
  <2>2. \A r \in ToSet(table) : r.name # EmptyText => r # BlankData /\ r # BlankSymbol
    BY <2>1
  <2>3. \A r \in ToSet(table) : r \in A \cap B <=> r \in A /\ r.name # EmptyText
    <3> HIDE DEF t
    <3> QED
      BY <1>2
  <2> QED
    BY <2>2, <2>3
<1>4. Where(table, A \cap B) = Where(table, N)
  <2> HIDE DEF A, B, N
  <2> QED
    BY <1>1, <1>3, WhereAlike
<1>5. Where(t, B) = Where(table, A \cap B)
  <2> HIDE DEF A, B
  <2> QED
    BY <1>1, WhereTwice
<1>6. WithName(TableRows(table)) = Where(t, B) /\ WithName(table) = Where(table, N)
  BY DEF WithName, TableRows
<1>7. ToSet(Where(table, N)) = N /\ IsSeq(Where(table, N))
  <2>1. ToSet(Where(table, N)) = ToSet(table) \cap N /\ IsSeq(Where(table, N))
    BY ToSetWhere
  <2> QED
    BY <2>1
<1> QED
  BY <1>4, <1>5, <1>6, <1>7

\* Rows that all have names are all kept.
LEMMA AllNamed ==
    ASSUME NEW rows, IsSeq(rows), EmptyText \notin NamesOf(ToSet(rows))
    PROVE  TableRows(rows) = rows /\ WithName(rows) = rows
<1>1. rows \in Seq(ToSet(rows))
  BY SeqOfItself
<1>2. \A r \in ToSet(rows) : r.name # EmptyText /\ r # BlankData /\ r # BlankSymbol
  <2>1. BlankData.name = EmptyText /\ BlankSymbol.name = EmptyText
    BY DEF BlankData, BlankSymbol
  <2>2. \A r \in ToSet(rows) : r.name # EmptyText
    BY DEF NamesOf
  <2> QED
    BY <2>1, <2>2
<1>3. ToSet(rows) \subseteq ToSet(rows) \ {BlankData, BlankSymbol} /\ ToSet(rows) \subseteq {r \in ToSet(rows) : r.name # EmptyText}
  BY <1>2
<1> QED
  BY <1>1, <1>3, WhereAll DEF TableRows, WithName

-----------------------------------------------------------------------------
\* Specs of symbols and the rows that show them.

SpecAdded(p, specs, r) == SpecStored(specs, r)
NoSpecs(p) == <<>>
T == INSTANCE FoldLemmas WITH op <- SpecAdded, base <- NoSpecs

\* SpecsOf is a fold.
LEMMA SpecsOfIsFold == \A table : SpecsOf(table) = T!Fold(0, WithName(TableRows(table)))
BY DEF SpecsOf, SpecAdded, NoSpecs, T!Fold, FoldLeft, MapThenFoldSet, Max, T!MapThenFoldSet, T!Max

IsFcn(f) == f = [n \in DOMAIN f |-> f[n]]

\* The fold has a spec for each name, and the one of its row where all rows with a name have the same.
LEMMA SpecsOfRows ==
    ASSUME NEW s, IsSeq(s)
    PROVE  /\ DOMAIN T!Fold(0, s) = NamesOf(ToSet(s))
           /\ \A S : (\A r \in ToSet(s) : r.spec = S[r.name]) => \A n \in DOMAIN T!Fold(0, s) : T!Fold(0, s)[n] = S[n]
           /\ s # <<>> => IsFcn(T!Fold(0, s))
<1> DEFINE E == ToSet(s)
           Right(r) == /\ DOMAIN T!Fold(0, r) = NamesOf(ToSet(r))
                       /\ \A S : (\A x \in E : x.spec = S[x.name]) => \A n \in DOMAIN T!Fold(0, r) : T!Fold(0, r)[n] = S[n]
                       /\ r # <<>> => IsFcn(T!Fold(0, r))
           Good == {r \in Seq(E) : Right(r)}
<1>1. <<>> \in Good
  <2>1. T!Fold(0, <<>>) = <<>>
    BY T!FoldEmpty DEF NoSpecs
  <2>2. DOMAIN <<>> = {} /\ NamesOf(ToSet(<<>>)) = {}
    BY DEF NamesOf, ToSet
  <2>3. Right(<<>>)
    BY <2>1, <2>2
  <2>4. <<>> \in Seq(E)
    OBVIOUS
  <2> HIDE DEF Right
  <2> QED
    BY <2>3, <2>4
<1>2. ASSUME NEW r \in Seq(E), NEW x \in E, r \in Good PROVE Append(r, x) \in Good
  <2> DEFINE f == T!Fold(0, r)
             g == T!Fold(0, Append(r, x))
             s1 == Append(r, x)
  <2>1. g = SpecStored(f, x)
    BY T!FoldAppend DEF SpecAdded
  <2>2. ToSet(s1) = ToSet(r) \cup {x} /\ s1 \in Seq(E)
    BY ToSetAppend
  <2>3. /\ DOMAIN f = NamesOf(ToSet(r))
        /\ \A S : (\A y \in E : y.spec = S[y.name]) => \A n \in DOMAIN f : f[n] = S[n]
    BY <1>2
  <2> HIDE DEF f, g, s1
  <2>4. DOMAIN g = NamesOf(ToSet(s1)) /\ IsFcn(g)
    BY <2>1, <2>2, <2>3 DEF SpecStored, NamesOf, IsFcn
  <2>5. ASSUME NEW S, \A y \in E : y.spec = S[y.name], NEW n \in DOMAIN g PROVE g[n] = S[n]
    BY <2>1, <2>3, <2>5 DEF SpecStored
  <2>6. Right(s1)
    BY <2>4, <2>5 DEF g, s1
  <2> HIDE DEF Right
  <2> QED
    BY <2>2, <2>6 DEF s1
<1>3. Seq(E) \subseteq Good
  <2> HIDE DEF Good
  <2> QED
    BY <1>1, <1>2, T!SequenceInduction
<1>4. s \in Seq(E)
  BY SeqOfItself
<1>5. Right(s)
  <2> HIDE DEF Right
  <2> QED
    BY <1>3, <1>4
<1> QED
  BY <1>5

\* SetToSeq lists a finite set.
LEMMA Listed ==
    ASSUME NEW S, IsFiniteSet(S)
    PROVE  \E n \in Nat : SetToSeq(S) \in [1 .. n -> S] /\ \A x \in S : \E i \in 1 .. n : SetToSeq(S)[i] = x
<1> DEFINE f == SetToSeq(S)
<1>1. PICK n \in Nat : n = Cardinality(S) /\ ExistsBijection(1 .. n, S)
  BY FS_CardinalityType
<1>2. \E g : g \in [1 .. n -> S] /\ IsInjective(g)
  BY <1>1 DEF ExistsBijection, Bijection, Injection, IsInjective
<1>3. f \in [1 .. n -> S] /\ IsInjective(f)
  BY <1>1, <1>2 DEF SetToSeq
<1> HIDE DEF f
<1>4. f \in Injection(1 .. n, S)
  BY <1>3 DEF Injection, IsInjective
<1>5. IsFiniteSet(1 .. n) /\ Cardinality(1 .. n) = n
  BY FS_Interval
<1>6. f \in Surjection(1 .. n, S)
  <2> DEFINE I == 1 .. n
  <2>1. IsFiniteSet(I) /\ Cardinality(I) = Cardinality(S) /\ f \in Injection(I, S)
    BY <1>1, <1>4, <1>5
  <2> HIDE DEF I
  <2>2. f \in Surjection(I, S)
    BY <2>1, FS_Injection
  <2> QED
    BY <2>2 DEF I
<1> QED
  BY <1>3, <1>6 DEF Surjection, f

\* The rows that show a finite set of specs: one for each name.
LEMMA RowsOfSpecs ==
    ASSUME NEW specs, IsFiniteSet(DOMAIN specs), EmptyText \notin DOMAIN specs
    PROVE  /\ IsSeq(SymbolRowsOf(specs))
           /\ NamesOf(ToSet(SymbolRowsOf(specs))) = DOMAIN specs
           /\ \A r \in ToSet(SymbolRowsOf(specs)) : r.spec = specs[r.name]
<1> DEFINE S == DOMAIN specs
           f == SetToSeq(S)
           rows == SymbolRowsOf(specs)
<1>1. PICK n \in Nat : f \in [1 .. n -> S] /\ \A x \in S : \E i \in 1 .. n : f[i] = x
  BY Listed
<1>2. rows = [i \in DOMAIN f |-> [name |-> f[i], spec |-> specs[f[i]]]]
  BY DEF SymbolRowsOf
<1> HIDE DEF f, S, rows
<1>3. DOMAIN f = 1 .. n
  BY <1>1
<1>4. \A x \in S : \E i \in 1 .. n : f[i] = x
  BY <1>1
<1>5. rows = [i \in 1 .. n |-> [name |-> f[i], spec |-> specs[f[i]]]]
  BY <1>2, <1>3
<1>6. DOMAIN rows = 1 .. n /\ \A i \in 1 .. n : f[i] \in S /\ rows[i].name = f[i] /\ rows[i].spec = specs[f[i]]
  BY <1>1, <1>5
<1>7. IsSeq(rows)
  BY <1>5, <1>6 DEF IsSeq
<1>9. ASSUME NEW r \in ToSet(rows) PROVE r.name \in S /\ r.spec = specs[r.name]
  <2>1. PICK i \in 1 .. n : r = rows[i]
    BY <1>6 DEF ToSet
  <2>2. r.name = f[i] /\ f[i] \in S /\ r.spec = specs[f[i]]
    BY <1>6, <2>1
  <2> QED
    BY <2>2
<1>10. ASSUME NEW x \in S PROVE \E r \in ToSet(rows) : x = r.name
  <2>1. PICK i \in 1 .. n : f[i] = x
    BY <1>4
  <2>2. rows[i] \in ToSet(rows) /\ rows[i].name = x
    BY <1>6, <2>1 DEF ToSet
  <2> QED
    BY <2>2
<1>11. NamesOf(ToSet(rows)) = S
  BY <1>9, <1>10 DEF NamesOf
<1> QED
  BY <1>7, <1>9, <1>11 DEF rows, S

-----------------------------------------------------------------------------
\* What is built from a sequence is one.

\* A sequence has a length, and a first and a last element if it is not empty.
LEMMA SeqLen ==
    ASSUME NEW s, IsSeq(s)
    PROVE  /\ Len(s) \in Nat /\ DOMAIN s = 1 .. Len(s)
           /\ s # <<>> => Len(s) > 0 /\ 1 \in DOMAIN s /\ Len(s) \in DOMAIN s /\ 1 \in 0 .. Len(s)
<1> DEFINE E == ToSet(s)
<1>1. s \in Seq(E)
  BY SeqOfItself
<1> HIDE DEF E
<1> QED
  BY <1>1

\* One element more.
LEMMA SeqAppend ==
    ASSUME NEW s, IsSeq(s), NEW x
    PROVE  IsSeq(Append(s, x)) /\ Len(Append(s, x)) = Len(s) + 1 /\ Append(s, x) # <<>>
<1> DEFINE E == ToSet(s) \cup {x}
<1>1. s \in Seq(ToSet(s))
  BY SeqOfItself
<1>2. s \in Seq(E) /\ x \in E
  BY <1>1
<1> HIDE DEF E
<1>3. Append(s, x) \in Seq(E) /\ Len(Append(s, x)) = Len(s) + 1 /\ Len(s) \in Nat
  BY <1>2
<1>4. Append(s, x) # <<>>
  <2> DEFINE t == Append(s, x)
  <2>1. Len(t) > 0 /\ Len(<<>>) = 0
    BY <1>3
  <2> HIDE DEF t
  <2> QED
    BY <2>1
<1> QED
  BY <1>3, <1>4, SeqOfItself

\* Two sequences, one after the other.
LEMMA SeqConcat ==
    ASSUME NEW s, NEW t, IsSeq(s), IsSeq(t)
    PROVE  IsSeq(s \o t) /\ (t # <<>> => s \o t # <<>>)
<1> DEFINE E == ToSet(s) \cup ToSet(t)
<1>1. s \in Seq(ToSet(s)) /\ t \in Seq(ToSet(t))
  BY SeqOfItself
<1>2. s \in Seq(E) /\ t \in Seq(E)
  BY <1>1
<1> HIDE DEF E
<1>3. s \o t \in Seq(E) /\ Len(s \o t) = Len(s) + Len(t) /\ Len(s) \in Nat /\ (t # <<>> => Len(t) > 0)
  BY <1>2
<1>4. t # <<>> => s \o t # <<>>
  BY <1>3
<1> QED
  BY <1>3, <1>4, SeqOfItself

\* One element less.
LEMMA SeqRemove ==
    ASSUME NEW s, IsSeq(s), NEW i \in 1 .. Len(s)
    PROVE  IsSeq(RemoveAt(s, i))
<1> DEFINE E == ToSet(s)
<1>1. s \in Seq(E)
  BY SeqOfItself
<1>2. Len(s) \in Nat
  BY SeqLen
<1> HIDE DEF E
<1>3. SubSeq(s, 1, i - 1) \in Seq(E)
  BY <1>1, <1>2
<1>4. SubSeq(s, i + 1, Len(s)) \in Seq(E)
  BY <1>1, <1>2
<1>5. RemoveAt(s, i) \in Seq(E)
  BY <1>3, <1>4 DEF RemoveAt
<1> QED
  BY <1>5, SeqOfItself

\* One element changed.
LEMMA SeqExcept ==
    ASSUME NEW s, IsSeq(s), NEW i, NEW x
    PROVE  IsSeq([s EXCEPT ![i] = x]) /\ Len([s EXCEPT ![i] = x]) = Len(s)
<1> DEFINE t == [s EXCEPT ![i] = x]
<1>1. IsSeq(t)
  BY DEF IsSeq
<1>2. DOMAIN t = DOMAIN s /\ DOMAIN s = 1 .. Len(s) /\ Len(s) \in Nat
  BY SeqLen
<1> HIDE DEF t
<1>3. Len(t) = Len(s)
  BY <1>2
<1> QED
  BY <1>1, <1>3 DEF t

-----------------------------------------------------------------------------
\* Panels: a table, the selected row and the fields.

Panel(rows, i, r) == [table |-> rows, at |-> i, fields |-> r]
PanelOK(p) == \E rows, i, r : p = Panel(rows, i, r) /\ IsSeq(rows) /\ i \in 0 .. Len(rows)

\* Its parts.
LEMMA PanelParts ==
    \A rows, i, r : Panel(rows, i, r).table = rows /\ Panel(rows, i, r).at = i /\ Panel(rows, i, r).fields = r
BY DEF Panel

\* Rows are shown, the first one selected.
LEMMA RowsSet ==
    ASSUME NEW p, NEW rows, IsSeq(rows)
    PROVE  /\ PanelOK(SetRows(p, rows))
           /\ rows # <<>> => SetRows(p, rows) = Panel(rows, 1, Shown(rows, 1, p.fields))
<1> DEFINE i == IF rows = <<>> THEN 0 ELSE 1
           r == Shown(rows, 1, p.fields)
<1>1. i \in 0 .. Len(rows)
  BY SeqLen
<1>2. SetRows(p, rows) = Panel(rows, i, r)
  BY DEF SetRows, Panel
<1>3. rows # <<>> => i = 1
  OBVIOUS
<1> HIDE DEF i, r
<1> QED
  BY <1>1, <1>2, <1>3 DEF PanelOK, r

\* A blank row is added and selected.
LEMMA RowAdded ==
    ASSUME NEW rows, IsSeq(rows), NEW i \in 0 .. Len(rows), NEW r, NEW blank
    PROVE  AddRow(Panel(rows, i, r), blank) = Panel(Append(rows, blank), Len(rows) + 1, r)
<1> DEFINE p == Panel(rows, i, r)
<1>1. AddRow(p, blank) = [p EXCEPT !.table = Append(p.table, blank), !.at = Len(p.table) + 1]
  BY DEF AddRow
<1>2. p.table = rows
  BY PanelParts
<1> DEFINE t == Append(rows, blank)
           n == Len(rows) + 1
<1>3. AddRow(p, blank) = [p EXCEPT !.table = t, !.at = n]
  BY <1>1, <1>2
<1> HIDE DEF p, t, n
<1>4. AddRow(p, blank) = [[p EXCEPT !.table = t] EXCEPT !.at = n]
  BY <1>3
<1>5. [p EXCEPT !.table = t] = Panel(t, i, r)
  BY DEF p, Panel
<1>6. [Panel(t, i, r) EXCEPT !.at = n] = Panel(t, n, r)
  BY DEF Panel
<1> QED
  BY <1>4, <1>5, <1>6 DEF p, t, n

\* The fields are stored in a row of the table.
LEMMA FieldsStored ==
    ASSUME NEW rows, IsSeq(rows), NEW i \in 0 .. Len(rows), NEW r, NEW blank
    PROVE  \E t, k : /\ IsSeq(t) /\ k \in 0 .. Len(t) /\ r \in ToSet(t)
                     /\ StoreFields(Panel(rows, i, r), blank) = Panel(t, k, r)
                     /\ rows # <<>> /\ i # 0 => t = [rows EXCEPT ![i] = r]
<1> DEFINE held == IF rows = <<>> THEN Append(rows, blank) ELSE rows
           at == IF rows = <<>> THEN Len(rows) + 1 ELSE i
           row == IF at = 0 THEN 1 ELSE at
           t == [held EXCEPT ![row] = r]
<1>1. IsSeq(held) /\ held # <<>>
  BY SeqAppend
<1>2. at \in 0 .. Len(held)
  <2>1. Len(rows) \in Nat /\ Len(Append(rows, blank)) = Len(rows) + 1
    BY SeqLen, SeqAppend
  <2> QED
    BY <2>1
<1>3. StoreFields(Panel(rows, i, r), blank) = [Panel(held, at, r) EXCEPT !.table[row] = r]
  <2>1. (IF rows = <<>> THEN AddRow(Panel(rows, i, r), blank) ELSE Panel(rows, i, r)) = Panel(held, at, r)
    BY RowAdded
  <2>2. Panel(rows, i, r).table = rows /\ Panel(rows, i, r).fields = r /\ Panel(held, at, r).at = at
    BY PanelParts
  <2> HIDE DEF held, at
  <2> QED
    BY <2>1, <2>2 DEF StoreFields
<1>4. rows # <<>> /\ i # 0 => t = [rows EXCEPT ![i] = r]
  OBVIOUS
<1> HIDE DEF held, at
<1>5. row \in DOMAIN held
  <2>1. Len(held) \in Nat /\ DOMAIN held = 1 .. Len(held) /\ Len(held) > 0
    BY <1>1, SeqLen
  <2> QED
    BY <1>2, <2>1
<1> HIDE DEF row
<1>6. [Panel(held, at, r) EXCEPT !.table[row] = r] = Panel(t, at, r)
  BY DEF Panel
<1>7. IsSeq(t) /\ Len(t) = Len(held)
  BY <1>1, SeqExcept
<1>8. r \in ToSet(t)
  BY <1>5 DEF ToSet
<1> HIDE DEF t
<1> QED
  BY <1>2, <1>3, <1>4, <1>6, <1>7, <1>8

\* What the handlers of a table make of a panel is one.
LEMMA PanelsStay ==
    ASSUME NEW p, PanelOK(p)
    PROVE  /\ \A blank : PanelOK(AddRow(p, blank)) /\ PanelOK(StoreFields(p, blank))
           /\ PanelOK(RemoveRow(p))
           /\ \A i \in DOMAIN p.table : PanelOK(SelectRow(p, i))
           /\ \A r : PanelOK([p EXCEPT !.fields = r])
           /\ \A rows : IsSeq(rows) => PanelOK(AppendRows(p, rows))
<1>1. PICK held, at, fs : p = Panel(held, at, fs) /\ IsSeq(held) /\ at \in 0 .. Len(held)
  BY DEF PanelOK
<1>2. p.table = held /\ p.at = at /\ p.fields = fs
  BY <1>1 DEF Panel
<1>3. ASSUME NEW blank PROVE PanelOK(AddRow(p, blank))
  <2> DEFINE t == Append(held, blank)
  <2>1. AddRow(p, blank) = Panel(t, Len(held) + 1, fs)
    BY <1>1, RowAdded
  <2>2. IsSeq(t) /\ Len(t) = Len(held) + 1 /\ Len(held) \in Nat
    BY <1>1, SeqAppend, SeqLen
  <2> HIDE DEF t
  <2>3. Len(held) + 1 \in 0 .. Len(t)
    BY <2>2
  <2> QED
    BY <2>1, <2>2, <2>3 DEF PanelOK
<1>4. ASSUME NEW blank PROVE PanelOK(StoreFields(p, blank))
  <2>1. \E t, k : IsSeq(t) /\ k \in 0 .. Len(t) /\ StoreFields(p, blank) = Panel(t, k, fs)
    BY <1>1, FieldsStored
  <2> QED
    BY <2>1 DEF PanelOK
<1>5. PanelOK(RemoveRow(p))
  <2>1. CASE at = 0
    BY <1>1, <1>2, <2>1, RowsSet DEF RemoveRow
  <2>2. CASE at # 0
    <3>1. at \in 1 .. Len(held)
      BY <1>1, <2>2, SeqLen
    <3>2. IsSeq(RemoveAt(held, at))
      BY <1>1, <3>1, SeqRemove
    <3> QED
      BY <1>2, <2>2, <3>2, RowsSet DEF RemoveRow
  <2> QED
    BY <2>1, <2>2
<1>6. ASSUME NEW rows, IsSeq(rows), NEW k, NEW r, NEW i \in DOMAIN rows PROVE PanelOK(SelectRow(Panel(rows, k, r), i))
  <2> DEFINE q == Panel(rows, k, r)
             fields == Shown(q.table, i, q.fields)
  <2>1. SelectRow(q, i) = [q EXCEPT !.at = i, !.fields = fields]
    BY DEF SelectRow
  <2> HIDE DEF fields, q
  <2>3. SelectRow(q, i) = [[q EXCEPT !.at = i] EXCEPT !.fields = fields]
    BY <2>1
  <2>4. [q EXCEPT !.at = i] = Panel(rows, i, r)
    BY DEF q, Panel
  <2>5. [Panel(rows, i, r) EXCEPT !.fields = fields] = Panel(rows, i, fields)
    BY DEF Panel
  <2>2. i \in 0 .. Len(rows)
    BY <1>6, SeqLen
  <2> QED
    BY <1>6, <2>2, <2>3, <2>4, <2>5 DEF PanelOK, q
<1>7. ASSUME NEW r PROVE PanelOK([p EXCEPT !.fields = r])
  <2>1. [p EXCEPT !.fields = r] = Panel(held, at, r)
    BY <1>1 DEF Panel
  <2> QED
    BY <1>1, <2>1 DEF PanelOK
<1>8. ASSUME NEW rows, IsSeq(rows) PROVE PanelOK(AppendRows(p, rows))
  <2> DEFINE merged == TableRows(held) \o rows
  <2>1. CASE rows = <<>>
    BY <2>1 DEF AppendRows
  <2>2. CASE rows # <<>>
    <3>1. IsSeq(TableRows(held))
      BY <1>1, ToSetWhere DEF TableRows
    <3>2. IsSeq(merged) /\ merged # <<>>
      BY <1>8, <2>2, <3>1, SeqConcat
    <3>3. AppendRows(p, rows) = SelectRow(SetRows(p, merged), Len(merged))
      BY <1>2, <2>2 DEF AppendRows
    <3> HIDE DEF merged
    <3>4. SetRows(p, merged) = Panel(merged, 1, Shown(merged, 1, p.fields))
      BY <3>2, RowsSet
    <3>5. Len(merged) \in DOMAIN merged
      BY <3>2, SeqLen
    <3> QED
      BY <1>6, <3>2, <3>3, <3>4, <3>5
  <2> QED
    BY <2>1, <2>2
<1>9. \A i \in DOMAIN p.table : PanelOK(SelectRow(p, i))
  BY <1>1, <1>2, <1>6
<1> QED
  BY <1>3, <1>4, <1>5, <1>7, <1>8, <1>9

\* Rows that have been loaded and all have names are those of the table still when the fields are
\* stored, the first of them as the fields show it.
LEMMA LoadedPanel ==
    ASSUME NEW p, NEW rows, IsSeq(rows), rows # <<>>, EmptyText \notin NamesOf(ToSet(rows)), NEW blank
    PROVE  \E fields : StoreFields(SetRows(p, rows), blank).table = [rows EXCEPT ![1] = Boxed(rows[1], fields)]
<1> DEFINE first == Boxed(rows[1], p.fields)
<1>1. PICK i : i = 1 /\ i \in 0 .. Len(rows) /\ i \in DOMAIN rows
  BY SeqLen
<1>2. TableRows(rows) = rows
  BY AllNamed
<1>3. SetRows(p, rows) = Panel(rows, i, first)
  <2>1. Shown(rows, 1, p.fields) = first
    BY <1>1, <1>2 DEF Shown
  <2>2. SetRows(p, rows) = Panel(rows, 1, Shown(rows, 1, p.fields))
    BY RowsSet
  <2> HIDE DEF first
  <2> QED
    BY <1>1, <2>1, <2>2
<1>4. i # 0
  BY <1>1
<1> HIDE DEF first
<1>5. PICK t, k : /\ IsSeq(t) /\ k \in 0 .. Len(t) /\ first \in ToSet(t)
                  /\ StoreFields(Panel(rows, i, first), blank) = Panel(t, k, first)
                  /\ rows # <<>> /\ i # 0 => t = [rows EXCEPT ![i] = first]
  <2>1. i \in 0 .. Len(rows) /\ IsSeq(rows)
    BY <1>1
  <2> QED
    BY <2>1, FieldsStored, Zenon
<1>6. StoreFields(SetRows(p, rows), blank) = Panel(t, k, first)
  BY <1>3, <1>5
<1>7. Panel(t, k, first).table = t
  BY PanelParts
<1>8. StoreFields(SetRows(p, rows), blank).table = [rows EXCEPT ![1] = first]
  BY <1>1, <1>4, <1>5, <1>6, <1>7
<1> QED
  BY <1>8 DEF first

\* The fields show a row of symbols as it is.
LEMMA SymbolsAreShown ==
    ASSUME NEW S, NEW fields, SymbolRowsOf(S) # <<>>, IsSeq(SymbolRowsOf(S))
    PROVE  [SymbolRowsOf(S) EXCEPT ![1] = Boxed(SymbolRowsOf(S)[1], fields)] = SymbolRowsOf(S)
<1> DEFINE rows == SymbolRowsOf(S)
<1>1. \A i \in DOMAIN rows : \E n, x : rows[i] = [name |-> n, spec |-> x]
  BY DEF SymbolRowsOf
<1>2. 1 \in DOMAIN rows /\ rows = [i \in DOMAIN rows |-> rows[i]]
  BY SeqLen DEF IsSeq
<1> HIDE DEF rows
<1>3. PICK n, x : rows[1] = [name |-> n, spec |-> x]
  BY <1>1, <1>2
<1>4. "timeframe" \notin DOMAIN rows[1]
  BY <1>3
<1>5. Boxed(rows[1], fields) = rows[1]
  BY <1>4 DEF Boxed
<1> QED
  BY <1>2, <1>5 DEF rows

\* The fields that have been stored are in a row of the table.
LEMMA StoredPanel ==
    ASSUME NEW p, PanelOK(p), NEW blank
    PROVE  /\ StoreFields(p, blank).fields = p.fields
           /\ p.fields \in ToSet(StoreFields(p, blank).table)
<1>1. PICK rows, i, r : p = Panel(rows, i, r) /\ IsSeq(rows) /\ i \in 0 .. Len(rows)
  BY DEF PanelOK
<1>2. PICK t, k : StoreFields(p, blank) = Panel(t, k, r) /\ r \in ToSet(t)
  BY <1>1, FieldsStored
<1> QED
  BY <1>1, <1>2, PanelParts

-----------------------------------------------------------------------------
\* The widgets: what they show and two panels.

Widgets(n, ps, a, d, s) == [strategy |-> n, params |-> ps, account |-> a, data |-> d, symbols |-> s]
WidgetsOK(w) == \E n, ps, a, d, s : w = Widgets(n, ps, a, d, s) /\ PanelOK(d) /\ PanelOK(s)

\* Their parts.
LEMMA WidgetParts ==
    \A n, ps, a, d, s :
        /\ Widgets(n, ps, a, d, s).strategy = n /\ Widgets(n, ps, a, d, s).params = ps
        /\ Widgets(n, ps, a, d, s).account = a
        /\ Widgets(n, ps, a, d, s).data = d /\ Widgets(n, ps, a, d, s).symbols = s
BY DEF Widgets

\* One of them is changed.
LEMMA WidgetsChanged ==
    ASSUME NEW w, WidgetsOK(w)
    PROVE  /\ PanelOK(w.data) /\ PanelOK(w.symbols)
           /\ \A d : PanelOK(d) => WidgetsOK([w EXCEPT !.data = d]) /\ WidgetsOK([w EXCEPT !.symbols = d])
           /\ \A a : WidgetsOK([w EXCEPT !.account = a])
           /\ \A k, v : WidgetsOK([w EXCEPT !.params[k] = v])
<1>1. PICK n, ps, ac, da, sy : w = Widgets(n, ps, ac, da, sy) /\ PanelOK(da) /\ PanelOK(sy)
  BY DEF WidgetsOK
<1>2. w.data = da /\ w.symbols = sy
  BY <1>1, WidgetParts
<1>3. ASSUME NEW d, PanelOK(d) PROVE WidgetsOK([w EXCEPT !.data = d]) /\ WidgetsOK([w EXCEPT !.symbols = d])
  <2>1. [w EXCEPT !.data = d] = Widgets(n, ps, ac, d, sy)
    BY <1>1 DEF Widgets
  <2>2. [w EXCEPT !.symbols = d] = Widgets(n, ps, ac, da, d)
    BY <1>1 DEF Widgets
  <2> QED
    BY <1>1, <1>3, <2>1, <2>2 DEF WidgetsOK
<1>4. ASSUME NEW a PROVE WidgetsOK([w EXCEPT !.account = a])
  <2>1. [w EXCEPT !.account = a] = Widgets(n, ps, a, da, sy)
    BY <1>1 DEF Widgets
  <2> QED
    BY <1>1, <2>1 DEF WidgetsOK
<1>5. ASSUME NEW k, NEW v PROVE WidgetsOK([w EXCEPT !.params[k] = v])
  <2> DEFINE changed == [ps EXCEPT ![k] = v]
  <2>1. [w EXCEPT !.params[k] = v] = Widgets(n, changed, ac, da, sy)
    BY <1>1 DEF Widgets
  <2> HIDE DEF changed
  <2> QED
    BY <1>1, <2>1 DEF WidgetsOK
<1> QED
  BY <1>1, <1>2, <1>3, <1>4, <1>5

\* The fields are stored in both tables.
LEMMA StoredIs ==
    ASSUME NEW n, NEW ps, NEW a, NEW d, NEW s, PanelOK(d), PanelOK(s)
    PROVE  /\ Stored(Widgets(n, ps, a, d, s)) = Widgets(n, ps, a, StoreFields(d, BlankData), StoreFields(s, BlankSymbol))
           /\ PanelOK(StoreFields(d, BlankData)) /\ PanelOK(StoreFields(s, BlankSymbol))
<1> DEFINE w == Widgets(n, ps, a, d, s)
           d1 == StoreFields(d, BlankData)
           s1 == StoreFields(s, BlankSymbol)
<1>1. w.data = d /\ w.symbols = s
  BY WidgetParts
<1>2. Stored(w) = [w EXCEPT !.data = d1, !.symbols = s1]
  <2> HIDE DEF w
  <2> QED
    BY <1>1 DEF Stored
<1>3. PanelOK(d1) /\ PanelOK(s1)
  BY PanelsStay
<1> HIDE DEF w, d1, s1
<1>4. Stored(w) = [[w EXCEPT !.data = d1] EXCEPT !.symbols = s1]
  BY <1>2
<1>5. [w EXCEPT !.data = d1] = Widgets(n, ps, a, d1, s)
  BY DEF w, Widgets
<1>6. [Widgets(n, ps, a, d1, s) EXCEPT !.symbols = s1] = Widgets(n, ps, a, d1, s1)
  BY DEF Widgets
<1> QED
  BY <1>3, <1>4, <1>5, <1>6 DEF w, d1, s1

\* What a sync leaves: widgets, and what they show in the configuration.
LEMMA SyncedIs ==
    ASSUME NEW w, WidgetsOK(w), NEW cfg
    PROVE  /\ WidgetsOK(Synced(w, cfg).w) /\ Synced(w, cfg).w = Stored(w)
           /\ Synced(w, cfg).cfg = BuildCfg(Stored(w), cfg)
           /\ Stored(w).strategy = w.strategy /\ Stored(w).params = w.params /\ Stored(w).account = w.account
           /\ Stored(w).data = StoreFields(w.data, BlankData) /\ Stored(w).symbols = StoreFields(w.symbols, BlankSymbol)
<1>1. PICK n, ps, a, d, s : w = Widgets(n, ps, a, d, s) /\ PanelOK(d) /\ PanelOK(s)
  BY DEF WidgetsOK
<1> DEFINE d1 == StoreFields(d, BlankData)
           s1 == StoreFields(s, BlankSymbol)
<1>2. Stored(w) = Widgets(n, ps, a, d1, s1) /\ PanelOK(d1) /\ PanelOK(s1)
  BY <1>1, StoredIs
<1>3. WidgetsOK(Stored(w))
  <2> HIDE DEF d1, s1
  <2> QED
    BY <1>2 DEF WidgetsOK
<1>4. Synced(w, cfg).w = Stored(w) /\ Synced(w, cfg).cfg = BuildCfg(Stored(w), cfg)
  BY DEF Synced
<1>5. /\ Stored(w).strategy = n /\ Stored(w).params = ps /\ Stored(w).account = a
      /\ Stored(w).data = d1 /\ Stored(w).symbols = s1
  <2> HIDE DEF d1, s1
  <2> QED
    BY <1>2, WidgetParts
<1>6. w.strategy = n /\ w.params = ps /\ w.account = a /\ w.data = d /\ w.symbols = s
  BY <1>1, WidgetParts
<1> QED
  BY <1>3, <1>4, <1>5, <1>6

\* Another strategy is shown: its name, the parameters, and a sync.
LEMMA ChangedIs ==
    ASSUME NEW w, WidgetsOK(w), NEW cfg, NEW name
    PROVE  /\ WidgetsOK(StrategyChanged(w, cfg, name).w)
           /\ StrategyChanged(w, cfg, name).w.strategy = name
           /\ StrategyChanged(w, cfg, name).cfg.hidden = cfg.hidden
           /\ Overlap(StrategyChanged(w, cfg, name).cfg) = Overlap(cfg)
<1>1. PICK n, ps, a, d, s : w = Widgets(n, ps, a, d, s) /\ PanelOK(d) /\ PanelOK(s)
  BY DEF WidgetsOK
<1> DEFINE defaults == StrategyDefaults[name]
           merged == [k \in DOMAIN defaults |-> IF k \in DOMAIN w.params THEN w.params[k] ELSE defaults[k]]
           v == [w EXCEPT !.strategy = name, !.params = merged]
<1>2. StrategyChanged(w, cfg, name) = Synced(v, cfg)
  BY DEF StrategyChanged
<1> HIDE DEF merged
<1>3. v = [[w EXCEPT !.strategy = name] EXCEPT !.params = merged]
  OBVIOUS
<1>4. [w EXCEPT !.strategy = name] = Widgets(name, ps, a, d, s)
  BY <1>1 DEF Widgets
<1>5. [Widgets(name, ps, a, d, s) EXCEPT !.params = merged] = Widgets(name, merged, a, d, s)
  BY DEF Widgets
<1>6. v = Widgets(name, merged, a, d, s)
  BY <1>3, <1>4, <1>5
<1> HIDE DEF v
<1>7. WidgetsOK(v) /\ v.strategy = name
  BY <1>1, <1>6, WidgetParts DEF WidgetsOK
<1>8. WidgetsOK(Synced(v, cfg).w) /\ Synced(v, cfg).w.strategy = name /\ Synced(v, cfg).cfg = BuildCfg(Stored(v), cfg)
  BY <1>7, SyncedIs
<1>9. BuildCfg(Stored(v), cfg).hidden = cfg.hidden /\ Overlap(BuildCfg(Stored(v), cfg)) = Overlap(cfg)
  BY DEF BuildCfg, Overlap
<1> QED
  BY <1>2, <1>8, <1>9

-----------------------------------------------------------------------------
\* A template that is shown.

\* The rows of its items: all have names.
LEMMA RowsOfItems ==
    ASSUME EditorAssumption, NEW t \in Templates
    PROVE  /\ IsSeq(DataRowsOf(t.data)) /\ EmptyText \notin NamesOf(ToSet(DataRowsOf(t.data)))
           /\ DOMAIN DataRowsOf(t.data) = DOMAIN t.data /\ IsSeq(t.data)
           /\ IsSeq(SymbolRowsOf(t.symbols))
<1> DEFINE items == t.data
           rows == DataRowsOf(items)
<1>1. items \in Seq(ToSet(items)) /\ \A i \in DOMAIN items : items[i].name # EmptyText
  BY DEF EditorAssumption
<1>2. IsSeq(items)
  BY <1>1, SeqOfItself
<1>3. rows = [i \in DOMAIN items |-> DataRowOf(items[i])] /\ DOMAIN rows = DOMAIN items
  BY DEF DataRowsOf
<1>4. \A i \in DOMAIN items : rows[i].name = items[i].name
  BY <1>3 DEF DataRowOf
<1>5. IsSeq(rows)
  <2>1. DOMAIN items = 1 .. Len(items) /\ Len(items) \in Nat
    BY <1>2, SeqLen
  <2>2. rows = [i \in 1 .. Len(items) |-> rows[i]]
    BY <1>3, <2>1
  <2> QED
    BY <2>1, <2>2 DEF IsSeq
<1>6. IsSeq(SymbolRowsOf(t.symbols))
  BY RowsOfSpecs DEF EditorAssumption
<1> HIDE DEF rows, items
<1>7. EmptyText \notin NamesOf(ToSet(rows))
  <2>1. \A i \in DOMAIN rows : rows[i].name # EmptyText
    BY <1>1, <1>3, <1>4
  <2> QED
    BY <2>1 DEF NamesOf, ToSet
<1> QED
  BY <1>2, <1>3, <1>5, <1>6, <1>7 DEF rows, items

\* What _populate_form leaves.
LEMMA PopulatedIs ==
    ASSUME EditorAssumption, NEW t \in Templates, NEW w, WidgetsOK(w)
    PROVE  LET p == Populated(w, t) IN
           /\ WidgetsOK(p.w)
           /\ t.strategy \in DOMAIN StrategyDefaults => p.w.strategy = t.strategy
           /\ p.w.params = t.params /\ p.w.account = t.account
           /\ \E q : p.w.data = SetRows(q, DataRowsOf(t.data))
           /\ \E q : p.w.symbols = SetRows(q, SymbolRowsOf(t.symbols))
           /\ p.cfg.hidden = t.hidden /\ Overlap(p.cfg) = Overlap(t)
<1> DEFINE p == Populated(w, t)
           switched == IF t.strategy \in DOMAIN StrategyDefaults \ {w.strategy}
                       THEN StrategyChanged(w, t, t.strategy)
                       ELSE [w |-> w, cfg |-> t]
           d == SetRows(switched.w.data, DataRowsOf(t.data))
           s == SetRows(switched.w.symbols, SymbolRowsOf(t.symbols))
<1>1. /\ switched.cfg.hidden = t.hidden /\ Overlap(switched.cfg) = Overlap(t)
      /\ t.strategy \in DOMAIN StrategyDefaults => switched.w.strategy = t.strategy
  <2>1. CASE t.strategy \in DOMAIN StrategyDefaults \ {w.strategy}
    BY <2>1, ChangedIs
  <2>2. CASE t.strategy \notin DOMAIN StrategyDefaults \ {w.strategy}
    BY <2>2
  <2> QED
    BY <2>1, <2>2
<1>2. PanelOK(d) /\ PanelOK(s)
  BY RowsOfItems, RowsSet
<1>3. p = [w |-> [strategy |-> switched.w.strategy, params |-> t.params, account |-> t.account,
                  data |-> d, symbols |-> s],
           cfg |-> switched.cfg]
  BY DEF Populated
<1> HIDE DEF switched
<1>4. \E q : d = SetRows(q, DataRowsOf(t.data))
  OBVIOUS
<1>5. \E q : s = SetRows(q, SymbolRowsOf(t.symbols))
  OBVIOUS
<1> HIDE DEF p, d, s
<1>6. p.w = Widgets(switched.w.strategy, t.params, t.account, d, s) /\ p.cfg = switched.cfg
  BY <1>3 DEF Widgets
<1>7. WidgetsOK(p.w)
  BY <1>2, <1>6 DEF WidgetsOK
<1>8. p.w.strategy = switched.w.strategy /\ p.w.params = t.params /\ p.w.account = t.account /\ p.w.data = d /\ p.w.symbols = s
  BY <1>6, WidgetParts
<1>9. /\ p.cfg.hidden = t.hidden /\ Overlap(p.cfg) = Overlap(t)
      /\ t.strategy \in DOMAIN StrategyDefaults => p.w.strategy = t.strategy
  BY <1>1, <1>6, <1>8
<1> QED
  BY <1>4, <1>5, <1>7, <1>8, <1>9 DEF p

-----------------------------------------------------------------------------
\* A template that is loaded, and a run.

\* Specs that are shown as rows and read from them are those they were.
LEMMA SpecsComeBack ==
    ASSUME NEW S, IsFiniteSet(DOMAIN S), EmptyText \notin DOMAIN S, DOMAIN S # {}, IsFcn(S)
    PROVE  /\ SpecsOf(SymbolRowsOf(S)) = S
           /\ IsSeq(SymbolRowsOf(S)) /\ SymbolRowsOf(S) # <<>> /\ EmptyText \notin NamesOf(ToSet(SymbolRowsOf(S)))
<1> DEFINE rows == SymbolRowsOf(S)
           f == T!Fold(0, rows)
<1>1. IsSeq(rows) /\ NamesOf(ToSet(rows)) = DOMAIN S /\ \A r \in ToSet(rows) : r.spec = S[r.name]
  BY RowsOfSpecs
<1> HIDE DEF rows
<1>2. EmptyText \notin NamesOf(ToSet(rows))
  BY <1>1
<1>3. rows # <<>>
  <2>1. NamesOf(ToSet(<<>>)) = {}
    BY DEF NamesOf, ToSet
  <2> QED
    BY <1>1, <2>1
<1>4. TableRows(rows) = rows /\ WithName(rows) = rows
  BY <1>1, <1>2, AllNamed
<1>5. SpecsOf(rows) = f
  BY <1>4, SpecsOfIsFold
<1>6. DOMAIN f = NamesOf(ToSet(rows)) /\ (\A n \in DOMAIN f : f[n] = S[n]) /\ IsFcn(f)
  BY <1>1, <1>3, SpecsOfRows
<1> HIDE DEF f
<1>7. f = S
  BY <1>1, <1>6 DEF IsFcn
<1> QED
  BY <1>1, <1>2, <1>3, <1>5, <1>7 DEF rows

\* An item that is shown as a row and read from it, with the row among the fields or not.
LEMMA ItemComesBack ==
    ASSUME NEW item, item.source \in DataSources, NEW fields
    PROVE  /\ ItemTakenOver(item, ItemOf(DataRowOf(item)), FALSE)
           /\ ItemTakenOver(item, ItemOf(Boxed(DataRowOf(item), fields)), TRUE)
           /\ Boxed(DataRowOf(item), fields).name = item.name
<1> DEFINE row == DataRowOf(item)
           shown == Boxed(row, fields)
<1>1. /\ row.name = item.name /\ row.source = item.source /\ row.rest = item.rest /\ row.code = CodeOf(item)
      /\ row.timeframe = TimeframeOf(item.timeframe) /\ row.cols = item.schema
  BY DEF DataRowOf
<1>2. /\ DOMAIN row = {"name", "source", "rest", "code", "timeframe", "cols", "extra"}
      /\ row = [k \in DOMAIN row |-> row[k]]
  BY DEF DataRowOf
<1> HIDE DEF row
<1>3. /\ shown.name = row.name /\ shown.source = row.source /\ shown.rest = row.rest /\ shown.code = row.code
      /\ shown.cols = row.cols
      /\ row.timeframe \in Timeframes => shown.timeframe = row.timeframe
  BY <1>2 DEF Boxed
<1> HIDE DEF shown
<1>4. \A q : /\ ItemOf(q).name = q.name /\ ItemOf(q).source = q.source /\ ItemOf(q).rest = q.rest
             /\ ItemOf(q).timeframe = TimeframeOf(q.timeframe)
             /\ q.source = "tushare" => ItemOf(q).ts_code = q.code
             /\ q.source # "tushare" => ItemOf(q).code = q.code
             /\ q.source = "db" => ItemOf(q).schema = q.cols
  BY DEF ItemOf
<1>5. \A text : TimeframeOf(TimeframeOf(text)) = TimeframeOf(text)
  BY DEF TimeframeOf, EmptyText
<1>6. item.timeframe \in Timeframes \cup {EmptyText} => row.timeframe \in Timeframes
  BY <1>1 DEF TimeframeOf, Timeframes
<1>7. ItemTakenOver(item, ItemOf(row), FALSE)
  BY <1>1, <1>4, <1>5 DEF ItemTakenOver
<1>8. ItemTakenOver(item, ItemOf(shown), TRUE)
  <2>1. item.timeframe \in Timeframes \cup {EmptyText} => ItemOf(shown).timeframe = TimeframeOf(item.timeframe)
    BY <1>1, <1>3, <1>4, <1>5, <1>6
  <2> QED
    BY <1>1, <1>3, <1>4, <2>1 DEF ItemTakenOver
<1> QED
  BY <1>1, <1>3, <1>7, <1>8 DEF row, shown

\* Items that are shown as rows and read from them, the first one from the fields.
LEMMA ItemsComeBack ==
    ASSUME EditorAssumption, NEW t \in Templates, t.data # <<>>, NEW table, NEW fields,
           table = [DataRowsOf(t.data) EXCEPT ![1] = Boxed(DataRowsOf(t.data)[1], fields)]
    PROVE  /\ Len(ItemsOf(table)) = Len(t.data)
           /\ \A i \in DOMAIN t.data : ItemTakenOver(t.data[i], ItemsOf(table)[i], i = 1)
<1> DEFINE items == t.data
           rows == DataRowsOf(items)
           back == ItemsOf(table)
<1>1. IsSeq(rows) /\ DOMAIN rows = DOMAIN items /\ IsSeq(items)
  BY RowsOfItems
<1>2. \A i \in DOMAIN items : rows[i] = DataRowOf(items[i])
  BY DEF DataRowsOf
<1>3. \A i \in DOMAIN items : items[i].source \in DataSources /\ items[i].name # EmptyText
  BY DEF EditorAssumption
<1>4. table = [rows EXCEPT ![1] = Boxed(rows[1], fields)]
  OBVIOUS
<1>5. 1 \in DOMAIN items /\ DOMAIN items = 1 .. Len(items) /\ Len(items) \in Nat
  BY <1>1, SeqLen
<1> HIDE DEF rows, items
<1>6. IsSeq(table) /\ DOMAIN table = DOMAIN items
  <2> DEFINE first == Boxed(rows[1], fields)
  <2>1. table = [rows EXCEPT ![1] = first]
    BY <1>4
  <2> HIDE DEF first
  <2>2. IsSeq([rows EXCEPT ![1] = first])
    BY <1>1, SeqExcept
  <2> QED
    BY <1>1, <2>1, <2>2
<1>7. \A i \in DOMAIN items : table[i] = IF i = 1 THEN Boxed(rows[1], fields) ELSE rows[i]
  BY <1>1, <1>4
<1>8. ASSUME NEW i \in DOMAIN items
      PROVE  table[i].name # EmptyText /\ ItemTakenOver(items[i], ItemOf(table[i]), i = 1)
  <2>1. PICK item : item = items[i] /\ item.source \in DataSources /\ item.name # EmptyText /\ rows[i] = DataRowOf(item)
    BY <1>2, <1>3
  <2>2. CASE i = 1
    <3>1. table[i] = Boxed(DataRowOf(item), fields)
      BY <1>7, <2>1, <2>2
    <3>2. Boxed(DataRowOf(item), fields).name = item.name /\ ItemTakenOver(item, ItemOf(Boxed(DataRowOf(item), fields)), TRUE)
      BY <2>1, ItemComesBack
    <3>3. (i = 1) = TRUE
      BY <2>2
    <3> QED
      BY <2>1, <3>1, <3>2, <3>3
  <2>3. CASE i # 1
    <3>1. table[i] = DataRowOf(item) /\ DataRowOf(item).name = item.name
      BY <1>7, <2>1, <2>3 DEF DataRowOf
    <3>2. ItemTakenOver(item, ItemOf(DataRowOf(item)), FALSE)
      BY <2>1, ItemComesBack
    <3>3. (i = 1) = FALSE
      BY <2>3
    <3> QED
      BY <2>1, <3>1, <3>2, <3>3
  <2> QED
    BY <2>2, <2>3
<1>9. WithName(TableRows(table)) = table
  <2>1. EmptyText \notin NamesOf(ToSet(table))
    BY <1>6, <1>8 DEF NamesOf, ToSet
  <2> QED
    BY <1>6, <2>1, AllNamed
<1>10. back = [i \in DOMAIN items |-> ItemOf(table[i])]
  BY <1>6, <1>9 DEF ItemsOf
<1> HIDE DEF back
<1>11. Len(back) = Len(items)
  BY <1>5, <1>10
<1>12. \A i \in DOMAIN items : back[i] = ItemOf(table[i])
  BY <1>10
<1>13. \A i \in DOMAIN items : ItemTakenOver(items[i], back[i], i = 1)
  BY <1>8, <1>12
<1> QED
  BY <1>11, <1>13 DEF back, items

TakenOver(t, cfg) ==
    /\ cfg.strategy = t.strategy /\ cfg.account = t.account
    /\ cfg.hidden = t.hidden /\ cfg.overlap_days = Overlap(t)
    /\ \A k \in DOMAIN t.params : cfg.params[k] = t.params[k]
    /\ cfg.symbols = t.symbols
    /\ Len(cfg.data) = Len(t.data)
    /\ \A i \in DOMAIN t.data : ItemTakenOver(t.data[i], cfg.data[i], i = 1)

\* A template that is loaded is taken over, whatever the widgets showed.
LEMMA TemplateLoads ==
    ASSUME EditorAssumption, NEW t \in Templates, NEW w, WidgetsOK(w)
    PROVE  LET p == Populated(w, t)
               s == Synced(p.w, p.cfg)
           IN  /\ WidgetsOK(s.w)
               /\ t.strategy \in DOMAIN StrategyDefaults /\ t.data # <<>> /\ DOMAIN t.symbols # {} => TakenOver(t, s.cfg)
<1> DEFINE p == Populated(w, t)
           s == Synced(p.w, p.cfg)
           v == p.w
<1>1. /\ WidgetsOK(v)
      /\ t.strategy \in DOMAIN StrategyDefaults => v.strategy = t.strategy
      /\ v.params = t.params /\ v.account = t.account
      /\ \E q : v.data = SetRows(q, DataRowsOf(t.data))
      /\ \E q : v.symbols = SetRows(q, SymbolRowsOf(t.symbols))
      /\ p.cfg.hidden = t.hidden /\ Overlap(p.cfg) = Overlap(t)
  BY PopulatedIs
<1> HIDE DEF p
<1>2. /\ WidgetsOK(s.w) /\ s.cfg = BuildCfg(Stored(v), p.cfg)
      /\ Stored(v).strategy = v.strategy /\ Stored(v).params = v.params /\ Stored(v).account = v.account
      /\ Stored(v).data = StoreFields(v.data, BlankData) /\ Stored(v).symbols = StoreFields(v.symbols, BlankSymbol)
  <2> HIDE DEF v
  <2> QED
    BY <1>1, SyncedIs DEF v
<1> DEFINE u == Stored(v)
           cfg == BuildCfg(u, p.cfg)
<1>3. /\ cfg.strategy = u.strategy /\ cfg.params = Updated(p.cfg.params, u.params) /\ cfg.account = u.account
      /\ cfg.data = ItemsOf(u.data.table) /\ cfg.symbols = SpecsOf(u.symbols.table)
      /\ cfg.hidden = p.cfg.hidden /\ cfg.overlap_days = Overlap(p.cfg)
  BY DEF BuildCfg
<1> HIDE DEF s, u, v, cfg
<1>4. ASSUME t.strategy \in DOMAIN StrategyDefaults, t.data # <<>>, DOMAIN t.symbols # {} PROVE TakenOver(t, cfg)
  <2>1. \E fields : u.data.table = [DataRowsOf(t.data) EXCEPT ![1] = Boxed(DataRowsOf(t.data)[1], fields)]
    <3> DEFINE rows == DataRowsOf(t.data)
    <3>1. IsSeq(rows) /\ EmptyText \notin NamesOf(ToSet(rows)) /\ DOMAIN rows = DOMAIN t.data /\ IsSeq(t.data)
      BY RowsOfItems
    <3> HIDE DEF rows
    <3>2. rows # <<>>
      <4>1. 1 \in DOMAIN rows
        BY <1>4, <3>1, SeqLen
      <4> QED
        BY <4>1
    <3>3. PICK q : v.data = SetRows(q, rows)
      BY <1>1 DEF rows
    <3>4. \E fields : StoreFields(SetRows(q, rows), BlankData).table = [rows EXCEPT ![1] = Boxed(rows[1], fields)]
      BY <3>1, <3>2, LoadedPanel
    <3> QED
      BY <1>2, <3>3, <3>4 DEF u, rows
  <2>2. cfg.symbols = t.symbols
    <3> DEFINE S == t.symbols
               rows == SymbolRowsOf(S)
    <3>1. S = [n \in DOMAIN S |-> S[n]] /\ IsFiniteSet(DOMAIN S) /\ EmptyText \notin DOMAIN S
      BY DEF EditorAssumption
    <3>2. DOMAIN S # {}
      BY <1>4
    <3>3. PICK q : v.symbols = SetRows(q, rows)
      BY <1>1
    <3> HIDE DEF S
    <3>4. SpecsOf(rows) = S /\ IsSeq(rows) /\ rows # <<>> /\ EmptyText \notin NamesOf(ToSet(rows))
      BY <3>1, <3>2, SpecsComeBack DEF IsFcn
    <3>6. \A fields : [rows EXCEPT ![1] = Boxed(rows[1], fields)] = rows
      BY <3>4, SymbolsAreShown
    <3> HIDE DEF rows
    <3>5. StoreFields(SetRows(q, rows), BlankSymbol).table = rows
      BY <3>4, <3>6, LoadedPanel
    <3> QED
      BY <1>2, <1>3, <3>3, <3>4, <3>5 DEF u, S
  <2>3. cfg.params = Updated(p.cfg.params, t.params)
    BY <1>1, <1>2, <1>3 DEF u
  <2>4. \A k \in DOMAIN t.params : cfg.params[k] = t.params[k]
    BY <2>3 DEF Updated
  <2>5. cfg.strategy = t.strategy /\ cfg.account = t.account /\ cfg.hidden = t.hidden /\ cfg.overlap_days = Overlap(t)
    BY <1>1, <1>2, <1>3, <1>4 DEF u
  <2>6. PICK table : table = u.data.table
    OBVIOUS
  <2>7. PICK fields : table = [DataRowsOf(t.data) EXCEPT ![1] = Boxed(DataRowsOf(t.data)[1], fields)]
    BY <2>1, <2>6
  <2>8. /\ Len(ItemsOf(table)) = Len(t.data)
        /\ \A i \in DOMAIN t.data : ItemTakenOver(t.data[i], ItemsOf(table)[i], i = 1)
    BY <1>4, <2>7, ItemsComeBack
  <2>9. cfg.data = ItemsOf(table)
    BY <1>3, <2>6
  <2> QED
    BY <2>2, <2>4, <2>5, <2>8, <2>9 DEF TakenOver
<1> QED
  BY <1>2, <1>4 DEF s, cfg, u, v, p

Uses(w, cfg) ==
    /\ cfg.strategy = w.strategy /\ cfg.account = w.account
    /\ \A k \in DOMAIN w.params : cfg.params[k] = w.params[k]
    /\ w.data.fields.name # EmptyText => ItemOf(w.data.fields) \in ToSet(cfg.data)
    /\ Len(cfg.data) = Len(WithName(w.data.table))
    /\ {r.name : r \in ToSet(w.symbols.table)} \ {EmptyText} = DOMAIN cfg.symbols

\* What a sync makes of widgets is a configuration that uses them.
LEMMA SyncUses ==
    ASSUME NEW w, WidgetsOK(w), NEW cfg
    PROVE  Uses(Synced(w, cfg).w, Synced(w, cfg).cfg)
<1> DEFINE v == Stored(w)
           c == BuildCfg(v, cfg)
           table == v.data.table
           named == WithName(table)
           symbolRows == v.symbols.table
<1>1. /\ Synced(w, cfg).w = v /\ Synced(w, cfg).cfg = c /\ WidgetsOK(v)
      /\ v.data = StoreFields(w.data, BlankData)
  BY SyncedIs
<1>2. PanelOK(w.data) /\ PanelOK(v.data) /\ PanelOK(v.symbols)
  BY <1>1, WidgetsChanged
<1>3. /\ c.strategy = v.strategy /\ c.params = Updated(cfg.params, v.params) /\ c.account = v.account
      /\ c.data = ItemsOf(table) /\ c.symbols = SpecsOf(symbolRows)
  BY DEF BuildCfg
<1>4. IsSeq(table) /\ IsSeq(symbolRows)
  <2> HIDE DEF v
  <2>1. \A q : PanelOK(q) => IsSeq(q.table)
    BY PanelParts DEF PanelOK
  <2> QED
    BY <1>2, <2>1
<1>5. v.data.fields \in ToSet(table)
  BY <1>1, <1>2, StoredPanel
<1> HIDE DEF v, c
<1>6. \A k \in DOMAIN v.params : c.params[k] = v.params[k]
  BY <1>3 DEF Updated
<1>7. WithName(TableRows(table)) = named /\ IsSeq(named) /\ ToSet(named) = {r \in ToSet(table) : r.name # EmptyText}
  <2> HIDE DEF table
  <2> QED
    BY <1>4, NamedRows
<1>8. c.data = [i \in DOMAIN named |-> ItemOf(named[i])]
  <2> HIDE DEF table, named
  <2> QED
    BY <1>3, <1>7 DEF ItemsOf
<1>9. v.data.fields.name # EmptyText => ItemOf(v.data.fields) \in ToSet(c.data)
  <2> SUFFICES ASSUME v.data.fields.name # EmptyText PROVE ItemOf(v.data.fields) \in ToSet(c.data)
    OBVIOUS
  <2>1. v.data.fields \in ToSet(named)
    BY <1>5, <1>7
  <2> HIDE DEF named
  <2>2. PICK i \in DOMAIN named : named[i] = v.data.fields
    BY <2>1 DEF ToSet
  <2>3. c.data[i] = ItemOf(v.data.fields) /\ i \in DOMAIN c.data
    BY <1>8, <2>2
  <2> QED
    BY <2>3 DEF ToSet
<1>10. Len(c.data) = Len(named)
  <2> HIDE DEF named
  <2>1. DOMAIN named = 1 .. Len(named) /\ Len(named) \in Nat
    BY <1>7, SeqLen
  <2> QED
    BY <1>8, <2>1
<1>11. {r.name : r \in ToSet(symbolRows)} \ {EmptyText} = DOMAIN c.symbols
  <2> DEFINE some == WithName(symbolRows)
  <2> HIDE DEF symbolRows
  <2>1. WithName(TableRows(symbolRows)) = some /\ IsSeq(some) /\ ToSet(some) = {r \in ToSet(symbolRows) : r.name # EmptyText}
    BY <1>4, NamedRows
  <2> HIDE DEF some
  <2>2. c.symbols = T!Fold(0, some)
    BY <1>3, <2>1, SpecsOfIsFold
  <2>3. DOMAIN c.symbols = NamesOf(ToSet(some))
    BY <2>1, <2>2, SpecsOfRows
  <2> QED
    BY <2>1, <2>3 DEF NamesOf
<1> QED
  BY <1>1, <1>3, <1>6, <1>9, <1>10, <1>11 DEF Uses

-----------------------------------------------------------------------------
\* The editor.

\* What the user does apart from that leaves panels, and is told apart by its kind.
LEMMA EditsStay ==
    ASSUME NEW d, PanelOK(d), WidgetsOK(form), Edits([form EXCEPT !.data = d]) \/ Edits([form EXCEPT !.symbols = d])
    PROVE  WidgetsOK(form') /\ event'.kind = "edit"
<1>1. WidgetsOK([form EXCEPT !.data = d]) /\ WidgetsOK([form EXCEPT !.symbols = d])
  BY WidgetsChanged
<1> QED
  BY <1>1 DEF Edits

\* The fields of a row are changed.
LEMMA FieldsStay ==
    ASSUME WidgetsOK(form), NEW r, EditDataFields(r) \/ EditSymbolFields(r)
    PROVE  WidgetsOK(form') /\ event'.kind = "edit"
<1>1. PICK n, ps, a, d, s : form = Widgets(n, ps, a, d, s) /\ PanelOK(d) /\ PanelOK(s)
  BY DEF WidgetsOK
<1> DEFINE d1 == [d EXCEPT !.fields = r]
           s1 == [s EXCEPT !.fields = r]
<1>2. PanelOK(d1) /\ PanelOK(s1)
  BY <1>1, PanelsStay
<1>3. [form EXCEPT !.data.fields = r] = Widgets(n, ps, a, d1, s)
  BY <1>1 DEF Widgets
<1>4. [form EXCEPT !.symbols.fields = r] = Widgets(n, ps, a, d, s1)
  BY <1>1 DEF Widgets
<1> HIDE DEF d1, s1
<1>5. form' = Widgets(n, ps, a, d1, s) \/ form' = Widgets(n, ps, a, d, s1)
  BY <1>3, <1>4 DEF EditDataFields, EditSymbolFields, Edits
<1>6. event'.kind = "edit"
  BY DEF EditDataFields, EditSymbolFields, Edits
<1>7. WidgetsOK(form')
  BY <1>1, <1>2, <1>5 DEF WidgetsOK
<1> QED
  BY <1>6, <1>7

\* Rows are appended.
LEMMA AppendsStay ==
    ASSUME WidgetsOK(form), NEW rows, IsSeq(rows), Appends(rows)
    PROVE  WidgetsOK(form') /\ event'.kind = "edit"
<1> DEFINE d == AppendRows(form.data, rows)
<1>1. PanelOK(d)
  BY WidgetsChanged, PanelsStay
<1>2. Edits([form EXCEPT !.data = d])
  BY DEF Appends
<1> HIDE DEF d
<1> QED
  BY <1>1, <1>2, EditsStay

EdInv == WidgetsOK(form) /\ FormAndConfigurationAgree

\* A template is loaded, by the user or as the window opens.
LEMMA LoadAgrees ==
    ASSUME EditorAssumption, NEW t \in Templates, NEW w, WidgetsOK(w),
           NEW f, NEW c, f = Synced(Populated(w, t).w, Populated(w, t).cfg).w, c = Synced(Populated(w, t).w, Populated(w, t).cfg).cfg
    PROVE  /\ WidgetsOK(f)
           /\ t.strategy \in DOMAIN StrategyDefaults /\ t.data # <<>> /\ DOMAIN t.symbols # {} => TakenOver(t, c)
BY TemplateLoads

\* The window opens.
LEMMA EditorOpens == ASSUME EditorAssumption, EdInit PROVE EdInv
<1> DEFINE Opened(name) == [strategy |-> name, params |-> <<>>, account |-> EmptyText,
                            data |-> [table |-> <<>>, at |-> 0, fields |-> [BlankData EXCEPT !.source = "csv", !.timeframe = "minutes"]],
                            symbols |-> [table |-> <<>>, at |-> 0, fields |-> BlankSymbol]]
<1>1. PICK t \in Templates, name \in DOMAIN StrategyDefaults :
          LET p == Populated(Opened(name), t)
              s == Synced(p.w, p.cfg)
          IN  form = s.w /\ current_cfg = s.cfg /\ event = [kind |-> "template", cfg |-> t]
  BY DEF EdInit
<1>2. WidgetsOK(Opened(name))
  <2> DEFINE r == [BlankData EXCEPT !.source = "csv", !.timeframe = "minutes"]
  <2>1. Opened(name) = Widgets(name, <<>>, EmptyText, Panel(<<>>, 0, r), Panel(<<>>, 0, BlankSymbol))
    BY DEF Widgets, Panel
  <2> HIDE DEF r
  <2>2. IsSeq(<<>>) /\ 0 \in 0 .. Len(<<>>)
    BY DEF IsSeq
  <2>3. PanelOK(Panel(<<>>, 0, r)) /\ PanelOK(Panel(<<>>, 0, BlankSymbol))
    BY <2>2 DEF PanelOK
  <2> HIDE DEF Opened
  <2> QED
    BY <2>1, <2>3 DEF WidgetsOK
<1> HIDE DEF Opened
<1>3. /\ WidgetsOK(form)
      /\ t.strategy \in DOMAIN StrategyDefaults /\ t.data # <<>> /\ DOMAIN t.symbols # {} => TakenOver(t, current_cfg)
  BY <1>1, <1>2, LoadAgrees
<1>4. event.kind = "template" /\ event.cfg = t
  BY <1>1
<1>5. LoadsTheTemplate
  BY <1>3, <1>4 DEF LoadsTheTemplate, TakenOver
<1>6. RunUsesTheForm
  BY <1>4 DEF RunUsesTheForm
<1> QED
  BY <1>3, <1>5, <1>6 DEF EdInv, FormAndConfigurationAgree

\* What leaves neither a template nor a run leaves nothing to agree on.
LEMMA OthersAgree ==
    ASSUME event'.kind \notin {"template", "run"}, WidgetsOK(form')
    PROVE  EdInv'
<1>1. LoadsTheTemplate' /\ RunUsesTheForm'
  BY DEF LoadsTheTemplate, RunUsesTheForm
<1> QED
  BY <1>1 DEF EdInv, FormAndConfigurationAgree

\* What the user does keeps the two telling the same.
LEMMA EditorStep == ASSUME EditorAssumption, EdInv, [EdNext]_edVars PROVE EdInv'
<1>0. WidgetsOK(form)
  BY DEF EdInv
<1>1. ASSUME NEW t \in Templates, LoadTemplate(t) PROVE EdInv'
  <2>1. form' = Synced(Populated(form, t).w, Populated(form, t).cfg).w /\ current_cfg' = Synced(Populated(form, t).w, Populated(form, t).cfg).cfg
    BY <1>1 DEF LoadTemplate, Takes
  <2>2. event'.kind = "template" /\ event'.cfg = t
    BY <1>1 DEF LoadTemplate, Takes
  <2>3. /\ WidgetsOK(form')
        /\ t.strategy \in DOMAIN StrategyDefaults /\ t.data # <<>> /\ DOMAIN t.symbols # {} => TakenOver(t, current_cfg')
    BY <1>0, <2>1, LoadAgrees
  <2>4. LoadsTheTemplate'
    BY <2>2, <2>3 DEF LoadsTheTemplate, TakenOver
  <2>5. RunUsesTheForm'
    BY <2>2 DEF RunUsesTheForm
  <2> QED
    BY <2>3, <2>4, <2>5 DEF EdInv, FormAndConfigurationAgree
<1>2. ASSUME NEW t \in Templates, SyncJsonToForm(t) PROVE EdInv'
  <2>1. form' = Populated(form, t).w /\ event'.kind = "json"
    BY <1>2 DEF SyncJsonToForm
  <2>2. WidgetsOK(Populated(form, t).w)
    BY <1>0, PopulatedIs
  <2> QED
    BY <2>1, <2>2, OthersAgree
<1>3. ASSUME SyncFormToJson PROVE EdInv'
  <2>1. form' = Synced(form, current_cfg).w /\ event'.kind = "sync"
    BY <1>3 DEF SyncFormToJson, Takes
  <2> QED
    BY <1>0, <2>1, SyncedIs, OthersAgree
<1>4. ASSUME RunFromForm PROVE EdInv'
  <2>1. form' = Synced(form, current_cfg).w /\ current_cfg' = Synced(form, current_cfg).cfg /\ event'.kind = "run"
    BY <1>4 DEF RunFromForm, Takes
  <2>2. WidgetsOK(form')
    BY <1>0, <2>1, SyncedIs
  <2>3. Uses(form', current_cfg')
    BY <1>0, <2>1, SyncUses
  <2>4. RunUsesTheForm'
    BY <2>3 DEF RunUsesTheForm, Uses
  <2>5. LoadsTheTemplate'
    BY <2>1 DEF LoadsTheTemplate
  <2> QED
    BY <2>2, <2>4, <2>5 DEF EdInv, FormAndConfigurationAgree
<1>5. ASSUME NEW name, PickStrategy(name) PROVE EdInv'
  <2>1. form' = StrategyChanged(form, current_cfg, name).w /\ event'.kind = "strategy"
    BY <1>5 DEF PickStrategy, Takes
  <2> QED
    BY <1>0, <2>1, ChangedIs, OthersAgree
<1>6. ASSUME NEW k, NEW v, EditParam(k, v) PROVE EdInv'
  <2>1. form' = [form EXCEPT !.params[k] = v] /\ event'.kind = "edit"
    BY <1>6 DEF EditParam, Edits
  <2> QED
    BY <1>0, <2>1, WidgetsChanged, OthersAgree
<1>7. ASSUME NEW v, EditAccount(v) PROVE EdInv'
  <2>1. form' = [form EXCEPT !.account = v] /\ event'.kind = "edit"
    BY <1>7 DEF EditAccount, Edits
  <2> QED
    BY <1>0, <2>1, WidgetsChanged, OthersAgree
<1>8. ASSUME NEW r, EditDataFields(r) \/ EditSymbolFields(r) PROVE EdInv'
  <2>1. WidgetsOK(form') /\ event'.kind = "edit"
    BY <1>0, <1>8, FieldsStay
  <2> QED
    BY <2>1, OthersAgree
<1>9. ASSUME AddDataRow \/ RemoveSelectedDataRow \/ AddSymbolRow \/ RemoveSelectedSymbolRow PROVE EdInv'
  <2>1. PanelOK(form.data) /\ PanelOK(form.symbols)
    BY <1>0, WidgetsChanged
  <2>2. PICK d : PanelOK(d) /\ (Edits([form EXCEPT !.data = d]) \/ Edits([form EXCEPT !.symbols = d]))
    BY <1>9, <2>1, PanelsStay DEF AddDataRow, RemoveSelectedDataRow, AddSymbolRow, RemoveSelectedSymbolRow
  <2> QED
    BY <1>0, <2>2, EditsStay, OthersAgree
<1>10. ASSUME NEW i, SelectDataRow(i) \/ SelectSymbolRow(i) PROVE EdInv'
  <2>1. PanelOK(form.data) /\ PanelOK(form.symbols)
    BY <1>0, WidgetsChanged
  <2>2. PICK d : PanelOK(d) /\ (Edits([form EXCEPT !.data = d]) \/ Edits([form EXCEPT !.symbols = d]))
    BY <1>10, <2>1, PanelsStay DEF SelectDataRow, SelectSymbolRow
  <2> QED
    BY <1>0, <2>2, EditsStay, OthersAgree
<1>11. ASSUME NEW rows \in Imports, ImportDataFiles(rows) PROVE EdInv'
  <2>1. IsSeq(rows)
    BY SeqOfItself DEF EditorAssumption
  <2>2. Appends(rows)
    BY <1>11 DEF ImportDataFiles
  <2> QED
    BY <1>0, <2>1, <2>2, AppendsStay, OthersAgree
<1>12. ASSUME AddMultiSymbolRows(<<"a", "c">>) PROVE EdInv'
  <2> DEFINE codes == <<"a", "c">>
             Row(i) == [form.data.fields EXCEPT !.name = codes[i], !.code = codes[i]]
             rows == [i \in DOMAIN codes |-> Row(i)]
  <2>1. Appends(rows)
    BY <1>12 DEF AddMultiSymbolRows
  <2>2. IsSeq(rows)
    <3> HIDE DEF Row
    <3>1. DOMAIN codes = 1 .. 2
      OBVIOUS
    <3> HIDE DEF codes
    <3> QED
      BY <3>1 DEF IsSeq
  <2> QED
    BY <1>0, <2>1, <2>2, AppendsStay, OthersAgree
<1>13. ASSUME NEW tables \in {<<"b">>, <<"b", "c">>}, LoadPostgresTables(tables) PROVE EdInv'
  <2> DEFINE Row(i) == [form.data.fields EXCEPT !.name = tables[i], !.source = "db", !.rest = tables[i]]
             rows == [i \in DOMAIN tables |-> Row(i)]
  <2>1. (\E r : EditDataFields(r)) \/ Appends(rows)
    BY <1>13 DEF LoadPostgresTables
  <2>2. IsSeq(rows)
    <3> HIDE DEF Row
    <3>1. DOMAIN tables = 1 .. Len(tables) /\ Len(tables) \in Nat
      OBVIOUS
    <3> QED
      BY <3>1 DEF IsSeq
  <2> QED
    BY <1>0, <1>8, <2>1, <2>2, AppendsStay, OthersAgree
<1>14. ASSUME ChooseDataFile("c") PROVE EdInv'
  BY <1>8, <1>14 DEF ChooseDataFile
<1>15. CASE UNCHANGED edVars
  BY <1>15 DEF edVars, EdInv, FormAndConfigurationAgree, LoadsTheTemplate, RunUsesTheForm
<1> QED
  BY <1>1, <1>2, <1>3, <1>4, <1>5, <1>6, <1>7, <1>8, <1>9, <1>10, <1>11, <1>12, <1>13, <1>14, <1>15 DEF EdNext, UserActs

\* The form and the configuration tell the same, for every list of templates and strategies.
THEOREM FormsAgree == EdSpec => []FormAndConfigurationAgree
<1>1. EdInit => EdInv
  BY EditorIsTyped, EditorOpens
<1>2. EdInv /\ [EdNext]_edVars => EdInv'
  BY EditorIsTyped, EditorStep
<1>3. EdInv => FormAndConfigurationAgree
  BY DEF EdInv
<1> QED
  BY <1>1, <1>2, <1>3, PTL DEF EdSpec
=============================================================================
