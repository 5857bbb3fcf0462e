--------------------------- MODULE StrategyRegistry ---------------------------
(***************************************************************************)
(* The strategies a backtest can name: registry/strategy_registry.py, and  *)
(* the list of them in the window of app/simple_desktop.py.  The user      *)
(* edits the strategies/ package and files outside it while the            *)
(* application runs.  A key is <<text, n>>: n > 1 is the suffix _n.        *)
(***************************************************************************)
EXTENDS Integers, SequencesExt

CONSTANTS
    Stems,          \* module names of strategies/, in the order the directory is read
    Sources,        \* what can be in a file: whether it imports, and its classes in order of name
    Paths,          \* names of files outside the package
    BuiltIn         \* the explicit registry: key -> class

\* The modules of the explicit registry are skipped when the package is searched.
ASSUME RegistryAssumption ==
    /\ Stems \in Seq(ToSet(Stems)) /\ Stems # <<>> /\ ToSet(Stems) \cap Paths = {}
    /\ IsFiniteSet(DOMAIN BuiltIn) /\ \A k \in DOMAIN BuiltIn : BuiltIn[k].file \notin ToSet(Stems)
    /\ \A source \in Sources : source.classes \in Seq(ToSet(source.classes))

VARIABLES
    package,        \* the files of strategies/: stem -> source
    modules,        \* what this process has imported: stem -> source
    registry,       \* STRATEGY_REGISTRY and EXTERNAL_STRATEGY_REGISTRY: key -> class
    load_errors,    \* STRATEGY_LOAD_ERRORS: stems that failed
    combo           \* the window: keys in its list, and the chosen one

regVars == <<package, modules, registry, load_errors, combo>>

Empty == [k \in {} |-> 0]
Merged(f, g) == [k \in DOMAIN f \cup DOMAIN g |-> IF k \in DOMAIN g THEN g[k] ELSE f[k]]
Entry(k, v) == [x \in {k} |-> v]

----------------------------------------------------------------------------
(* A class without a strategy_name takes the file's name, then its own, then its own with a number. *)
\* A mutated form takes the file's name although another class has it.
StemOnly(stem, class, found) == <<stem, 1>>
StrategyKey(stem, class, found) ==
    IF <<stem, 1>> \notin DOMAIN found THEN <<stem, 1>>
    ELSE <<class, Min({n \in 1 .. Cardinality(DOMAIN found) + 1 : <<class, n>> \notin DOMAIN found})>>

RegisterClass(stem, c, found) ==
    Merged(found, Entry(IF c.strategy_name # "" THEN <<c.strategy_name, 1>> ELSE StrategyKey(stem, c.class, found),
                        [file |-> stem, class |-> c.class, named |-> c.strategy_name # ""]))

RegisterClasses(stem, classes, found) ==
    FoldLeft(LAMBDA acc, c : RegisterClass(stem, c, acc), found, classes)

(* What import_module finds: a module that is loaded is not read again. *)
Source(s, files, loaded) == IF s \in DOMAIN loaded THEN loaded[s] ELSE files[s]
Failing(files, loaded) == {s \in DOMAIN files : ~Source(s, files, loaded).imports}
Imported(files, loaded) ==
    Merged(loaded, [s \in DOMAIN files \ Failing(files, loaded) |-> Source(s, files, loaded)])

Registered(s, files, loaded, found) ==
    IF s \in DOMAIN files \ Failing(files, loaded) THEN RegisterClasses(s, Source(s, files, loaded).classes, found)
    ELSE found

DiscoverStrategyClasses(files, loaded, external) ==
    Merged(FoldLeft(LAMBDA found, s : Registered(s, files, loaded, found), BuiltIn, Stems), external)

----------------------------------------------------------------------------
(* The application starts: the registry is built by its import, the window lists it. *)
RegInit ==
    /\ package \in [{Head(Stems)} -> Sources]
    /\ modules = Imported(package, Empty)
    /\ registry = [all |-> DiscoverStrategyClasses(package, Empty, Empty), external |-> Empty]
    /\ load_errors = Failing(package, Empty)
    /\ \E k \in DOMAIN registry.all : combo = [items |-> DOMAIN registry.all, current |-> k]

(* A file of the package is written or deleted while the window is open. *)
EditFile(s) ==
    /\ \E source \in Sources : package' = Merged(package, Entry(s, source))
    /\ UNCHANGED <<modules, registry, load_errors, combo>>
DeleteFile(s) ==
    /\ s \in DOMAIN package
    /\ package' = [t \in DOMAIN package \ {s} |-> package[t]]
    /\ UNCHANGED <<modules, registry, load_errors, combo>>

Refreshed(external) ==
    /\ registry' = [all |-> DiscoverStrategyClasses(package, modules, external), external |-> external]
    /\ load_errors' = Failing(package, modules)
    /\ modules' = Imported(package, modules)

(* The list is built again; the choice stays if it is still listed, else the list's first is chosen. *)
\* A mutated form keeps the choice.
ChoiceKept(old, keys) == {old}
Choice(old, keys) == IF old \in keys THEN {old} ELSE keys

RefreshStrategyList ==
    /\ Refreshed(registry.external)
    /\ \E k \in Choice(combo.current, DOMAIN registry'.all) :
          combo' = [items |-> DOMAIN registry'.all, current |-> k]
    /\ UNCHANGED package

(* The first class of a file outside the package is registered under its strategy_name or the   *)
(* file's name, over whatever has that key, and chosen; a file that fails changes nothing.      *)
ChooseExternalStrategyFile(p) ==
    \E source \in Sources :
        /\ source.imports /\ source.classes # <<>>
        /\ LET c == Head(source.classes)
               key == IF c.strategy_name # "" THEN <<c.strategy_name, 1>> ELSE <<p, 1>>
               class == [file |-> p, class |-> c.class, named |-> TRUE]
           IN  /\ Refreshed(Merged(registry.external, Entry(key, class)))
               /\ combo' = [items |-> DOMAIN registry'.all, current |-> key]
        /\ UNCHANGED package

ChooseUser(k) == /\ k \in combo.items
                 /\ combo' = [combo EXCEPT !.current = k]
                 /\ UNCHANGED <<package, modules, registry, load_errors>>

RegNext ==
    \/ \E s \in ToSet(Stems) : EditFile(s) \/ DeleteFile(s)
    \/ \E p \in Paths : ChooseExternalStrategyFile(p)
    \/ \E k \in combo.items : ChooseUser(k)
    \/ RefreshStrategyList

RegSpec == RegInit /\ [][RegNext]_regVars

----------------------------------------------------------------------------
(* No refresh loses a strategy by accident: an external one stays under its key, a strategy of    *)
(* the explicit registry or of a package file gives way only to a class that asks for its key by  *)
(* strategy_name or was loaded from outside, and each class of an imported file that has no name  *)
(* of its own is registered, unless such a class took the key.                                    *)
ListedOrReplaced(reg, s, c) ==
    \/ \E k \in DOMAIN reg : reg[k] = [file |-> s, class |-> c.class, named |-> FALSE]
    \/ \E k \in DOMAIN reg : reg[k].named /\ k[1] \in {s, c.class}

NoStrategyIsLost ==
    [][registry' # registry =>
        LET reg == registry'.all IN
        /\ \A k \in DOMAIN registry'.external : reg[k] = registry'.external[k]
        /\ \A k \in DOMAIN registry.external : k \in DOMAIN registry'.external
        /\ \A k \in DOMAIN BuiltIn : reg[k] = BuiltIn[k] \/ reg[k].named
        /\ \A s \in DOMAIN package \ load_errors' : \A i \in DOMAIN modules'[s].classes :
              modules'[s].classes[i].strategy_name = "" => ListedOrReplaced(reg, s, modules'[s].classes[i])]_regVars

(* The strategy the window shows as chosen is one the engine will find, whatever was edited,      *)
(* deleted or loaded before the last refresh; and a module that failed has no class in the list.  *)
ChosenIsRegistered ==
    /\ combo.current \in combo.items /\ combo.items = DOMAIN registry.all
    /\ \A k \in DOMAIN registry.all : registry.all[k].file \notin load_errors
=============================================================================
