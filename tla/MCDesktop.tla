------------------------------ MODULE MCDesktop ------------------------------
(***************************************************************************)
(* The desktop applications and what they are built on.  The parts share   *)
(* no state; a behaviour is of one part, the others stay as they are.      *)
(***************************************************************************)
EXTENDS TushareCache, CacheCleanup, DesktopEditor, DesktopRuns, StrategyRegistry, DataLoad

CONSTANTS
    Parts,          \* what is considered: "cache", "cleanup", "editor", "runs", "registry", "load"
    l1, l2, f1, f2, f3

VARIABLES
    part,
    session_of      \* runs: which backtests are started

allVars == <<part, session_of, tcVars, clVars, edVars, runVars, regVars, loadVars>>

-----------------------------------------------------------------------------
(* Two loads of one code and period: wide and narrow windows, refreshed, incremental or uncached. *)
Request(first, last, intraday, refresh, use_cache, incremental) ==
    [start |-> first, end |-> last, intraday |-> intraday, refresh |-> refresh, use_cache |-> use_cache,
     incremental |-> incremental]
TestRequests == {Request(1, 3, TRUE, FALSE, TRUE, TRUE), Request(2, 3, FALSE, TRUE, TRUE, TRUE),
                 Request(2, 2, FALSE, FALSE, TRUE, FALSE), Request(1, 3, TRUE, FALSE, FALSE, TRUE)}

(* Three files of two sizes; limits on age and on the total, with and without the files in use. *)
TestListing == f1 :> 1 @@ f2 :> 2 @@ f3 :> 3
Limits(enabled, age, total, keep, dry, used) ==
    [enabled |-> enabled, max_age |-> age, max_total |-> total, keep_current |-> keep, dry_run |-> dry,
     referenced |-> used]
TestConfigs == {Limits(TRUE, 1, 2, TRUE, FALSE, {f1}), Limits(TRUE, 1, 3, FALSE, FALSE, {f1}),
                Limits(TRUE, 0, 1, TRUE, TRUE, {f2}), Limits(FALSE, 1, 1, TRUE, FALSE, {f2})}

(* Two listed strategies that share a parameter, and templates: one of each and one of a strategy *)
(* that is not listed, with no data and no symbols.                                               *)
TestDefaults == [cta |-> [fast |-> 1, stop |-> 1], don |-> [fast |-> 1, lock |-> 1]]
(* Their items have a code under either name or none, and a period that is listed, that is not or *)
(* that is missing.                                                                               *)
Item(name, from, rest, code, ts_code, timeframe, schema) ==
    [name |-> name, source |-> from, rest |-> rest, code |-> code, ts_code |-> ts_code, timeframe |-> timeframe,
     schema |-> schema]
Template(strategy, params, account, data, symbols, html, overlap_days, unshown, hidden) ==
    [strategy |-> strategy, params |-> params, account |-> account, data |-> data, symbols |-> symbols,
     html |-> html, overlap_days |-> overlap_days, unshown |-> unshown, hidden |-> hidden]
TestTemplates ==
    {Template("cta", [fast |-> 2, stop |-> 2], "cash", <<Item("a", "csv", "f1", "", "k1", "", "m")>>, [a |-> "x"],
              TRUE, 0, "adj", "h1"),
     Template("don", [lock |-> 2], "fut",
              <<Item("b", "db", "t1", "k2", "", "hours", "m"), Item("a", "tushare", "f2", "", "k1", "hours", "")>>,
              [a |-> "y", b |-> "y"], FALSE, 5, "", "h2"),
     Template("own", <<>>, "cash", <<>>, <<>>, TRUE, 3, "", "")}
DataForm(name, from, rest, code, cols, extra) ==
    [name |-> name, source |-> from, rest |-> rest, code |-> code, timeframe |-> "days", cols |-> cols, extra |-> extra]
TestDataForms == {DataForm("c", "db", "t2", "k2", "", "s")}
TestSymbolForms == {[name |-> "c", spec |-> "z"]}
TestImports == {<<DataForm("c", "csv", "f3", "", "", "")>>}

(* The strategy tester and two simple windows; at most two backtests at a time. *)
TestWindows == [w \in Workers |-> IF w \in {"m1", "m2"} THEN "tester" ELSE IF w = "s1" THEN "simple1" ELSE "simple2"]
TestKinds == [v \in {"tester", "simple1", "simple2"} |-> IF v = "tester" THEN "mt4" ELSE "simple"]
Together == {{"m1", "m2"}, {"m1", "s1"}, {"s1", "s2"}}

(* Files with no class, one, two, one that names itself like a strategy there is, one that fails. *)
Class(class, name) == [class |-> class, strategy_name |-> name]
TestSources ==
    {[imports |-> FALSE, classes |-> <<>>]} \cup
    {[imports |-> TRUE, classes |-> c] :
        c \in {<<Class("a", ""), Class("c", "")>>, <<Class("a", "cta"), Class("b", "")>>, <<Class("e", "b")>>}}
BuiltInClass(stem) == [file |-> stem, class |-> "Strategy", named |-> FALSE]
TestBuiltIn == <<"cta", 1>> :> BuiltInClass("cta") @@ <<"don", 1>> :> BuiltInClass("don")
TestStems == <<"a", "b">>

(* Items about ticks of every period, for both loaders, with and without a tunnel; bars; files. *)
Postgres(loader, data_type, table, timeframe, compression, start, end, ssh) ==
    [source |-> "postgres", loader |-> loader, data_type |-> data_type, table |-> table, timeframe |-> timeframe,
     compression |-> compression, start |-> start, end |-> end, ssh |-> ssh,
     sslmode |-> IF start = 0 THEN "prefer" ELSE "disable", tushare |-> FALSE]
FileItem(from, loader, data_type, tushare) ==
    [source |-> from, loader |-> loader, data_type |-> data_type, table |-> "", timeframe |-> "minutes",
     compression |-> 2, start |-> 0, end |-> 0, ssh |-> FALSE, sslmode |-> "", tushare |-> tushare]
TestItems ==
    {Postgres("bt", "tick", "", p, c, first, 0, ssh) :
        p \in {"minutes", "hours", "days"}, c \in {1, 2}, first \in {0, 2}, ssh \in BOOLEAN}
    \cup {Postgres("bt", "bar", "tick_data", p, 1, 0, 1, TRUE) : p \in {"minutes", "weeks", "tick", "none"}}
    \cup {Postgres(l, "bar", "bars", "days", 1, 0, 0, TRUE) : l \in {"bt", "df"}}
    \cup {Postgres("bt", "tick", "bars", "minutes", 2, 0, 0, FALSE)}
    \cup {Postgres("df", "tick", "", "minutes", 2, 0, 0, FALSE), Postgres("df", "tick", "tick_data", "minutes", 2, 0, 0, TRUE)}
    \cup {FileItem(from, l, d, t) : from \in {"csv", "excel"}, l \in {"bt", "df"}, d \in {"bar", "tick"}, t \in BOOLEAN}

Row(t, p) == [time |-> t, price |-> p]
TestTables == {<<>>, <<Row(0, 2), Row(1, 3), Row(3, 1), Row(5, 2)>>, <<Row(8, 3), Row(6, 2), Row(13, 2), Row(7, 1)>>,
               <<Row(9, 3), Row(3, 1), Row(9, 2), Row(8, 2)>>, <<Row(2, 1), Row(1, 0), Row(2, 2), Row(2, 0)>>}
TestFiles == {[ticks |-> tk, rows |-> r, there |-> TRUE] :
                 tk \in BOOLEAN, r \in {<<Row(0, 1), Row(1, 2), Row(1, 3)>>, <<Row(0, 0)>>, <<Row(5, 1), Row(2, 0), Row(2, 2)>>}}

-----------------------------------------------------------------------------
\* What a behaviour does not use: the choices that an initial state leaves are made.
IdleCache == source = {} /\ load = [l \in Loads |-> NotBegun(CHOOSE r \in Requests : TRUE)]
IdleEditor == current_cfg.strategy = "cta" /\ form.strategy = "cta" /\ event.cfg.strategy = "cta"
IdleRegistry == package[Head(Stems)].imports = FALSE /\ combo.current = <<"cta", 1>>
IdleLoad == tick_data = <<>> /\ csv_file = NoFile

DesktopInit ==
    /\ part \in Parts
    /\ session_of \in Together /\ (part # "runs" => session_of = {"m1", "m2"})
    /\ TcInit /\ (part # "cache" => IdleCache)
    /\ ClInit
    /\ EdInit /\ (part # "editor" => IdleEditor)
    /\ RunsInit
    /\ RegInit /\ (part # "registry" => IdleRegistry)
    /\ LoadInit /\ (part # "load" => IdleLoad)

DesktopNext ==
    \/ part = "cache" /\ TcNext /\ UNCHANGED <<part, session_of, clVars, edVars, runVars, regVars, loadVars>>
    \/ part = "cleanup" /\ ClNext /\ UNCHANGED <<part, session_of, tcVars, edVars, runVars, regVars, loadVars>>
    \/ part = "editor" /\ EdNext /\ UNCHANGED <<part, session_of, tcVars, clVars, runVars, regVars, loadVars>>
    \/ part = "runs" /\ RunsNext /\ UNCHANGED <<part, session_of, tcVars, clVars, edVars, regVars, loadVars>>
       /\ \A w \in Workers \ session_of : worker'[w] = worker[w]
    \/ part = "registry" /\ RegNext /\ UNCHANGED <<part, session_of, tcVars, clVars, edVars, runVars, loadVars>>
    \/ part = "load" /\ LoadNext /\ UNCHANGED <<part, session_of, tcVars, clVars, edVars, runVars, regVars>>

DesktopSpec == DesktopInit /\ [][DesktopNext]_allVars /\ RunsFairness
=============================================================================
