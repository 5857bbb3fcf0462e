----------------------------- MODULE DesktopRuns -----------------------------
(***************************************************************************)
(* Backtests started from the desktop windows: the worker threads          *)
(* (BacktestWorker of app/mt4_desktop.py, SimpleBacktestWorker of          *)
(* app/simple_desktop.py), the run directories of reporting/writer.py and  *)
(* the handlers of the windows, which run when the window's event loop     *)
(* gets to a worker's signal.  Several windows write below one runs_root.  *)
(***************************************************************************)
EXTENDS Integers, FiniteSets, Sequences

CONSTANTS
    Workers,        \* the backtests; each is started at most once
    WindowOf,       \* the window that starts it
    KindOf,         \* "mt4" or "simple", for each window
    Combos,         \* parameter combinations of an optimization
    LastSecond,     \* bound: seconds of the clock
    NoDir, NoWorker

SharedFile == "__simple_runtime.yaml"   \* below the configurations of the installation

ASSUME RunsAssumption ==
    /\ Combos \in Nat \ {0} /\ NoDir \notin (Int \X Int) \X Int
    /\ NoWorker \notin Workers /\ SharedFile \notin Workers

VARIABLES
    worker,         \* each backtest: its position, mode, combination, directory and finished directories
    window,         \* each window: its buttons, the run it shows and who brought it
    dirs,           \* directories below runs_root: who writes in each, its config.yaml and how far it is written
    cfg_files,      \* files with configurations: the backtest and the combination each was written for
    second          \* the clock, as directory names show it

runVars == <<worker, window, dirs, cfg_files, second>>

Windows == {WindowOf[w] : w \in Workers}
IsMt4(w) == KindOf[WindowOf[w]] = "mt4"

\* config.yaml, then the results
LastFile == 2

NoConfig == <<NoWorker, 0>>

(* cfg_path: the strategy tester writes each combination into a new temporary file, of which the *)
(* last one counts; all simple windows write one file.                                           *)
\* A mutated form has the tester's runs share the file, too.
OnePath(w) == SharedFile
PathOf(w) == IF IsMt4(w) THEN w ELSE SharedFile

RunsInit ==
    /\ worker = [w \in Workers |-> [at |-> "new", mode |-> "single", combo |-> 1, dir |-> NoDir, rows |-> <<>>,
                                    disturbed |-> FALSE]]
    /\ window = [v \in Windows |-> [run_btn |-> TRUE, open_btn |-> FALSE, current |-> NoDir, term |-> "idle",
                                    shown_by |-> NoWorker]]
    /\ dirs = [d \in {} |-> NoDir]
    /\ cfg_files = [p \in Workers \cup {SharedFile} |-> NoConfig]
    /\ second = 1

Goes(w, at) == worker' = [worker EXCEPT ![w].at = at]

----------------------------------------------------------------------------
(* The windows start a backtest.  The menu entry of the strategy tester stays enabled while one is *)
(* running, the button of the simple window does not.                                              *)
StartRun(w) ==
    /\ worker[w].at = "new" /\ IsMt4(w)
    /\ \E mode \in {"single", "optimization"} :
          worker' = [worker EXCEPT ![w].at = "configure", ![w].mode = mode]
    /\ window' = [window EXCEPT ![WindowOf[w]] =
                    [run_btn |-> FALSE, open_btn |-> FALSE, current |-> NoDir, term |-> "running", shown_by |-> NoWorker]]
    /\ UNCHANGED <<dirs, cfg_files, second>>

StartBacktest(w) ==
    /\ worker[w].at = "new" /\ ~IsMt4(w) /\ window[WindowOf[w]].run_btn
    /\ Goes(w, "configure")
    /\ window' = [window EXCEPT ![WindowOf[w]].run_btn = FALSE, ![WindowOf[w]].open_btn = FALSE,
                                ![WindowOf[w]].term = "running"]
    /\ UNCHANGED <<dirs, cfg_files, second>>

\* Between the writing of its configuration and the copy of it into the directory.
AwaitsCopy(w) ==
    \/ worker[w].at \in {"place", "running"}
    \/ worker[w].at = "writing" /\ dirs[worker[w].dir].written = 0

(* The configuration is written where the run will read it.  Whoever else counts on that file, *)
(* having written it and not copied it yet, is disturbed (a mark that nothing but              *)
(* RunsAreSeparate reads; a simple backtest writes once, so that it is not marked before).     *)
WriteConfig(w) ==
    /\ worker[w].at = "configure"
    /\ cfg_files' = [cfg_files EXCEPT ![PathOf(w)] = <<w, worker[w].combo>>]
    /\ worker' = [x \in Workers |->
            IF x = w THEN [worker[x] EXCEPT !.at = "place"]
            ELSE IF PathOf(x) = PathOf(w) /\ AwaitsCopy(x) THEN [worker[x] EXCEPT !.disturbed = TRUE]
            ELSE worker[x]]
    /\ UNCHANGED <<window, dirs, second>>

(* The name of a directory is the second, the tag and the first suffix that is free. *)
Tag(w) == IF worker[w].mode = "optimization" THEN worker[w].combo ELSE 0

\* A mutated form takes the directory that is there.
AnyAttempt(base, n) == n = 0
FreeAttempt(base, n) ==
    <<base, n>> \notin DOMAIN dirs /\ \A m \in 0 .. n - 1 : <<base, m>> \in DOMAIN dirs

MakesDir(w, d) ==
    /\ dirs' = [e \in DOMAIN dirs \cup {d} |->
                  IF e # d THEN dirs[e]
                  ELSE [users |-> (IF d \in DOMAIN dirs THEN dirs[d].users ELSE {}) \cup {<<w, worker[w].combo>>},
                        config |-> NoConfig, written |-> 0]]
    /\ worker' = [worker EXCEPT ![w].at = "running", ![w].dir = d]

PrepareRunDir(w) ==
    /\ worker[w].at = "place"
    /\ LET base == <<second, Tag(w)>> IN
       \E n \in 0 .. Cardinality(DOMAIN dirs) : FreeAttempt(base, n) /\ MakesDir(w, <<base, n>>)
    /\ UNCHANGED <<window, cfg_files, second>>

EngineReturns(w) ==
    /\ worker[w].at = "running" /\ Goes(w, "writing")
    /\ UNCHANGED <<window, dirs, cfg_files, second>>

(* The grid is empty, or the engine or a file raises: the run ends, its directory stays. *)
RunRaises(w) ==
    /\ worker[w].at \in {"configure", "place", "running", "writing"} /\ Goes(w, "failed")
    /\ UNCHANGED <<window, dirs, cfg_files, second>>

(* write_result, file by file; config.yaml is a copy of what cfg_path holds at that time. *)
WriteResult(w) ==
    LET d == worker[w].dir IN
    /\ worker[w].at = "writing" /\ dirs[d].written < LastFile
    /\ dirs' = [dirs EXCEPT ![d].written = @ + 1,
                            ![d].config = IF dirs[d].written = 0 THEN cfg_files[PathOf(w)] ELSE @]
    /\ UNCHANGED <<worker, window, cfg_files, second>>

\* A mutated form reports the run while its results are still to be written.
AlmostWritten(d) == dirs[d].written >= LastFile - 1
Written(d) == dirs[d].written = LastFile

(* The payload of a run is complete; an optimization goes on with the next combination and writes *)
(* its summary after the last.                                                                    *)
RunReturns(w) ==
    /\ worker[w].at = "writing" /\ Written(worker[w].dir)
    /\ worker' = [worker EXCEPT ![w].rows = Append(@, worker[w].dir),
                                ![w].at = IF worker[w].mode = "optimization" /\ worker[w].combo < Combos
                                          THEN "configure" ELSE "completed",
                                ![w].combo = IF worker[w].mode = "optimization" /\ @ < Combos THEN @ + 1 ELSE @]
    /\ UNCHANGED <<window, dirs, cfg_files, second>>

----------------------------------------------------------------------------
(* The thread of the strategy tester reports its end once more; the simple window does not listen. *)
Handled(w) == Goes(w, IF IsMt4(w) THEN "handled" ELSE "over")

(* Slots of the windows.  load_run_payload shows the run and enables the buttons that open it. *)
Shows(v, d, by) ==
    window' = [window EXCEPT ![v].current = d, ![v].open_btn = d # NoDir, ![v].term = "done", ![v].shown_by = by]

HandleCompleted(w) ==
    /\ worker[w].at = "completed" /\ Handled(w)
    /\ IF IsMt4(w) THEN Shows(WindowOf[w], worker[w].dir, w)
       ELSE window' = [window EXCEPT ![WindowOf[w]] = [run_btn |-> TRUE, open_btn |-> TRUE, current |-> worker[w].dir,
                                                       term |-> "done", shown_by |-> w]]
    /\ UNCHANGED <<dirs, cfg_files, second>>

\* A mutated form leaves the button of the simple window disabled after a failure.
FailedNoButton(v) == [window EXCEPT ![v].term = "failed", ![v].open_btn = IF KindOf[v] = "simple" THEN FALSE ELSE @]
Failed(v) ==
    [window EXCEPT ![v].term = "failed", ![v].run_btn = IF KindOf[v] = "simple" THEN TRUE ELSE @,
                   ![v].open_btn = IF KindOf[v] = "simple" THEN FALSE ELSE @]

HandleFailed(w) ==
    /\ worker[w].at = "failed" /\ Handled(w)
    /\ window' = Failed(WindowOf[w])
    /\ UNCHANGED <<dirs, cfg_files, second>>

(* The thread has ended: the strategy tester enables its button, whoever else is running. *)
Finished(w) ==
    /\ worker[w].at = "handled" /\ Goes(w, "over")
    /\ window' = [window EXCEPT ![WindowOf[w]].run_btn = TRUE]
    /\ UNCHANGED <<dirs, cfg_files, second>>

(* A row of the history, which lists every directory there is, is opened in the strategy tester; *)
(* what is missing in the directory is shown as empty.                                           *)
LoadRunDir(v, d) ==
    /\ KindOf[v] = "mt4" /\ d \in DOMAIN dirs
    /\ Shows(v, d, NoWorker)
    /\ UNCHANGED <<worker, dirs, cfg_files, second>>

ClockTicks == second < LastSecond /\ second' = second + 1 /\ UNCHANGED <<worker, window, dirs, cfg_files>>

WorkerStep(w) ==
    WriteConfig(w) \/ PrepareRunDir(w) \/ EngineReturns(w) \/ RunRaises(w) \/ WriteResult(w) \/ RunReturns(w)
SlotStep(w) == HandleCompleted(w) \/ HandleFailed(w) \/ Finished(w)

RunsNext ==
    \/ \E w \in Workers : StartRun(w) \/ StartBacktest(w) \/ WorkerStep(w) \/ SlotStep(w)
    \/ \E v \in Windows, d \in DOMAIN dirs : LoadRunDir(v, d)
    \/ ClockTicks

RunsSpec == RunsInit /\ [][RunsNext]_runVars

(* An engine and its files take finite time, and the event loop serves every signal. *)
RunsFairness == \A w \in Workers : WF_runVars(WorkerStep(w)) /\ WF_runVars(SlotStep(w))

----------------------------------------------------------------------------
(* Runs that start in the same second with the same tag, from threads of one window or from two    *)
(* windows, never write into one directory, and the config.yaml kept with the results is the one   *)
(* that this combination of this run was made with - of a simple window's run, unless another      *)
(* simple backtest wrote the shared file after this one's write and before its copy.  What ended   *)
(* before that write, or began after that copy, does not matter.                                   *)
RunsAreSeparate ==
    /\ \A d \in DOMAIN dirs : Cardinality(dirs[d].users) = 1
    /\ \A d \in DOMAIN dirs : \A u \in dirs[d].users :
          dirs[d].written > 0 => dirs[d].config = u \/ (~IsMt4(u[1]) /\ worker[u[1]].disturbed)

(* What a window shows when a backtest reports its end is a directory written to its last file,   *)
(* and one of that backtest; an optimization reports every combination, each in a whole directory *)
(* of its own.  The buttons of the strategy tester can be pressed exactly when a run is shown.    *)
WindowShowsWholeRun ==
    /\ \A v \in Windows : LET by == window[v].shown_by IN
          by # NoWorker => /\ dirs[window[v].current].written = LastFile
                           /\ \E i \in 1 .. Combos : <<by, i>> \in dirs[window[v].current].users
                           /\ Len(worker[by].rows) = IF worker[by].mode = "optimization" THEN Combos ELSE 1
                           /\ \A i \in DOMAIN worker[by].rows :
                                 dirs[worker[by].rows[i]].written = LastFile /\ <<by, i>> \in dirs[worker[by].rows[i]].users
    /\ \A v \in Windows : KindOf[v] = "mt4" => (window[v].open_btn <=> window[v].current # NoDir)

(* A window whose button was disabled for a run can start another one in the end, however the run *)
(* ends.                                                                                          *)
RunButtonReturns == \A v \in Windows : window[v].run_btn = FALSE ~> window[v].run_btn = TRUE
=============================================================================
