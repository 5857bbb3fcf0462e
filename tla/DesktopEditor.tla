---------------------------- MODULE DesktopEditor ----------------------------
(***************************************************************************)
(* The strategy tester's editor (app/mt4_desktop.py with                   *)
(* app/desktop_support.py): one configuration that is shown twice, as      *)
(* widgets and as JSON text, and is rebuilt from the widgets before every  *)
(* run.  The JSON text always holds current_cfg between two actions.       *)
(* Widgets that are copied there and back one by one are one value,        *)
(* `account' (the broker, the connections, the tag, the grid); sections    *)
(* and settings without a widget that stay are `hidden', the keys of the   *)
(* sections postgres and tushare that no widget shows are `unshown'.       *)
(***************************************************************************)
EXTENDS Integers, Rows

EmptyText == ""     \* of an empty cell, and of what has not been chosen

CONSTANTS
    StrategyDefaults,   \* the listed strategies and the default parameters of each
    Templates,          \* configurations, as YAML templates or JSON text hold them
    DataForms,          \* data rows a user enters: [name, source, rest, code, timeframe, cols, extra]
    SymbolForms,        \* symbol rows a user enters: [name, spec]
    Imports,            \* sequences of data rows that the import buttons produce
    ParamValues, Accounts,
    MaxRows,            \* bound: rows of a table
    MaxActions          \* bound: what the user does after the window has opened

DataSources == {"csv", "excel", "db", "tushare"}                    \* DATA_SOURCE_OPTIONS
Timeframes == {"minutes", "days", "weeks", "months", "tick"}        \* TIMEFRAME_OPTIONS: the loaders know more

\* Items and symbols of a template have names (the rows of others are dropped), each symbol once;
\* the sources are those the loaders know.
EditorAssumption ==
    /\ \A t \in Templates :
          /\ t.data \in Seq(ToSet(t.data))
          /\ \A i \in DOMAIN t.data : t.data[i].name # EmptyText /\ t.data[i].source \in DataSources
          /\ t.symbols = [n \in DOMAIN t.symbols |-> t.symbols[n]]
          /\ IsFiniteSet(DOMAIN t.symbols) /\ EmptyText \notin DOMAIN t.symbols
    /\ \A rows \in Imports : rows \in Seq(ToSet(rows))
ASSUME EditorIsTyped == EditorAssumption

VARIABLES
    current_cfg,    \* [strategy, params, account, data, symbols, html, overlap_days, unshown, hidden]
    form,           \* the widgets: [strategy, params, account, data, symbols]
    clicks,         \* how much the user has done
    event           \* what the user did last, and the configuration it loaded

edVars == <<current_cfg, form, clicks, event>>

----------------------------------------------------------------------------
(* A table with its selected row (0: none) and the fields that edit the selected row.  A row whose *)
(* cells are all empty counts as blank, and the rows read from a table leave the blank ones out.   *)
BlankData == [name |-> EmptyText, source |-> EmptyText, rest |-> EmptyText, code |-> EmptyText,
              timeframe |-> EmptyText, cols |-> EmptyText, extra |-> EmptyText]
BlankSymbol == [name |-> EmptyText, spec |-> EmptyText]

TableRows(table) == Where(table, ToSet(table) \ {BlankData, BlankSymbol})
WithName(rows) == Where(rows, {r \in ToSet(rows) : r.name # EmptyText})

(* The selection handler: the selected index is looked up among the rows that are not blank; the *)
(* box of timeframes ignores one that it does not list, and goes on showing the last one.        *)
Boxed(row, fields) ==
    IF "timeframe" \in DOMAIN row /\ row.timeframe \notin Timeframes
    THEN [row EXCEPT !.timeframe = fields.timeframe] ELSE row
Shown(table, at, fields) == IF at \in DOMAIN TableRows(table) THEN Boxed(TableRows(table)[at], fields) ELSE fields

SetRows(p, rows) ==
    [table |-> rows, at |-> IF rows = <<>> THEN 0 ELSE 1, fields |-> Shown(rows, 1, p.fields)]

AddRow(p, blank) == [p EXCEPT !.table = Append(@, blank), !.at = Len(p.table) + 1]

RemoveRow(p) ==
    LET rows == IF p.at = 0 THEN p.table ELSE RemoveAt(p.table, p.at) IN SetRows(p, rows)

SelectRow(p, i) == [p EXCEPT !.at = i, !.fields = Shown(p.table, i, @)]

(* Before a configuration is built the fields go into the selected row, into the first one if none *)
(* is selected, and into a new one if there is none.                                               *)
StoreFields(p, blank) ==
    LET q == IF p.table = <<>> THEN AddRow(p, blank) ELSE p
        row == IF q.at = 0 THEN 1 ELSE q.at
    IN  [q EXCEPT !.table[row] = p.fields]

AppendRows(p, rows) ==
    LET merged == TableRows(p.table) \o rows IN
    IF rows = <<>> THEN p ELSE SelectRow(SetRows(p, merged), Len(merged))

----------------------------------------------------------------------------
(* Items of the configuration and rows of the table.  A row has one column for both names of the   *)
(* code, and its source decides under which of them the item gets it; a period that is missing     *)
(* becomes "days" (a symbol, a role or a compression gets its default likewise).  The mapping of   *)
(* columns becomes columns of the row, and only a database row gives it back; a mapping in the     *)
(* extra JSON is dropped.  `rest' is what the item's own source reads: a sheet of a file that is   *)
(* no workbook, a table of a file and the like are dropped too.                                    *)
CodeOf(item) == IF item.code # EmptyText THEN item.code ELSE item.ts_code
TimeframeOf(text) == IF text = EmptyText THEN "days" ELSE text

DataRowOf(item) ==
    [name |-> item.name, source |-> item.source, rest |-> item.rest, code |-> CodeOf(item),
     timeframe |-> TimeframeOf(item.timeframe), cols |-> item.schema, extra |-> EmptyText]
ItemOf(row) ==
    [name |-> row.name, source |-> row.source, rest |-> row.rest, timeframe |-> TimeframeOf(row.timeframe),
     code |-> IF row.source = "tushare" THEN EmptyText ELSE row.code,
     ts_code |-> IF row.source = "tushare" THEN row.code ELSE EmptyText,
     schema |-> IF row.source = "db" THEN row.cols ELSE EmptyText]

DataRowsOf(items) == [i \in DOMAIN items |-> DataRowOf(items[i])]
ItemsOf(table) ==
    LET named == WithName(TableRows(table)) IN [i \in DOMAIN named |-> ItemOf(named[i])]

SymbolRowsOf(specs) ==
    LET names == SetToSeq(DOMAIN specs) IN [i \in DOMAIN names |-> [name |-> names[i], spec |-> specs[names[i]]]]
\* Of two rows with one name the later one counts.
SpecStored(specs, r) == [n \in DOMAIN specs \cup {r.name} |-> IF n = r.name THEN r.spec ELSE specs[n]]
SpecsOf(table) == FoldLeft(LAMBDA specs, r : SpecStored(specs, r), <<>>, WithName(TableRows(table)))

----------------------------------------------------------------------------
(* build_cfg_from_form: what has a widget is written over a copy of the current configuration;    *)
(* parameters that the configuration has and the widgets have not stay.  The sections postgres and *)
(* tushare are made anew: of what they have beside the widgets the use of the cache stays (hidden) *)
(* and the days of overlap, of which none means three.  A run from this window has no HTML report. *)
Updated(params, changes) ==
    [k \in DOMAIN params \cup DOMAIN changes |-> IF k \in DOMAIN changes THEN changes[k] ELSE params[k]]
Overlap(cfg) == IF cfg.overlap_days = 0 THEN 3 ELSE cfg.overlap_days
BuildCfg(w, cfg) ==
    [strategy |-> w.strategy, params |-> Updated(cfg.params, w.params), account |-> w.account,
     data |-> ItemsOf(w.data.table), symbols |-> SpecsOf(w.symbols.table),
     html |-> FALSE, overlap_days |-> Overlap(cfg), unshown |-> EmptyText, hidden |-> cfg.hidden]

Stored(w) == [w EXCEPT !.data = StoreFields(@, BlankData), !.symbols = StoreFields(@, BlankSymbol)]

(* sync_form_to_json: the fields are stored, then the configuration is built from the widgets. *)
Synced(w, cfg) == [w |-> Stored(w), cfg |-> BuildCfg(Stored(w), cfg)]

(* The strategy's defaults, with what the widgets of the same names showed; then a sync. *)
StrategyChanged(w, cfg, name) ==
    LET defaults == StrategyDefaults[name]
        merged == [k \in DOMAIN defaults |-> IF k \in DOMAIN w.params THEN w.params[k] ELSE defaults[k]]
    IN  Synced([w EXCEPT !.strategy = name, !.params = merged], cfg)

(* _populate_form.  The combo box ignores a name it does not list; a name it did not show calls    *)
(* the handler above in the middle of the work, which builds a configuration from the new template *)
(* and the widgets of the old one.                                                                 *)
\* A mutated form reads the rows after the handler has run, from what it left.
PopulatedLate(w, shown) ==
    LET switched == IF shown.strategy \in DOMAIN StrategyDefaults \ {w.strategy}
                    THEN StrategyChanged(w, shown, shown.strategy)
                    ELSE [w |-> w, cfg |-> shown]
    IN  [w |-> [strategy |-> switched.w.strategy, params |-> shown.params, account |-> shown.account,
                data |-> SetRows(switched.w.data, DataRowsOf(switched.cfg.data)),
                symbols |-> SetRows(switched.w.symbols, SymbolRowsOf(switched.cfg.symbols))],
         cfg |-> switched.cfg]

Populated(w, shown) ==
    LET switched == IF shown.strategy \in DOMAIN StrategyDefaults \ {w.strategy}
                    THEN StrategyChanged(w, shown, shown.strategy)
                    ELSE [w |-> w, cfg |-> shown]
    IN  [w |-> [strategy |-> switched.w.strategy, params |-> shown.params, account |-> shown.account,
                data |-> SetRows(switched.w.data, DataRowsOf(shown.data)),
                symbols |-> SetRows(switched.w.symbols, SymbolRowsOf(shown.symbols))],
         cfg |-> switched.cfg]

----------------------------------------------------------------------------
EmptyCfg == [strategy |-> EmptyText, params |-> <<>>, account |-> EmptyText, data |-> <<>>, symbols |-> <<>>,
             html |-> FALSE, overlap_days |-> 3, unshown |-> EmptyText, hidden |-> EmptyText]

Takes(kind, cfg, s) ==
    /\ form' = s.w /\ current_cfg' = s.cfg
    /\ event' = [kind |-> kind, cfg |-> cfg]

LoadTemplate(t) == LET p == Populated(form, t) IN Takes("template", t, Synced(p.w, p.cfg))

SyncFormToJson == LET s == Synced(form, current_cfg) IN Takes("sync", EmptyCfg, s)

(* A run takes what a sync has just written. *)
RunFromForm == LET s == Synced(form, current_cfg) IN Takes("run", EmptyCfg, s)

(* The JSON text is edited and read back.  Nothing is synced at the end: the text changes only if *)
(* the handler of the strategy box did so.                                                        *)
SyncJsonToForm(t) ==
    LET p == Populated(form, t) IN
    /\ form' = p.w /\ current_cfg' = p.cfg
    /\ event' = [kind |-> "json", cfg |-> EmptyCfg]

PickStrategy(name) ==
    /\ name # form.strategy
    /\ LET s == StrategyChanged(form, current_cfg, name) IN Takes("strategy", EmptyCfg, s)

Edits(w) ==
    /\ form' = w /\ event' = [kind |-> "edit", cfg |-> EmptyCfg]
    /\ UNCHANGED current_cfg

EditParam(k, v) == k \in DOMAIN form.params /\ Edits([form EXCEPT !.params[k] = v])
EditAccount(v) == Edits([form EXCEPT !.account = v])
EditDataFields(r) == Edits([form EXCEPT !.data.fields = r])
EditSymbolFields(r) == Edits([form EXCEPT !.symbols.fields = r])

AddDataRow == Len(form.data.table) < MaxRows /\ Edits([form EXCEPT !.data = AddRow(@, BlankData)])
RemoveSelectedDataRow == Edits([form EXCEPT !.data = RemoveRow(@)])
SelectDataRow(i) ==
    i \in DOMAIN form.data.table \ {form.data.at} /\ Edits([form EXCEPT !.data = SelectRow(@, i)])
AddSymbolRow == Len(form.symbols.table) < MaxRows /\ Edits([form EXCEPT !.symbols = AddRow(@, BlankSymbol)])
RemoveSelectedSymbolRow == Edits([form EXCEPT !.symbols = RemoveRow(@)])
SelectSymbolRow(i) ==
    i \in DOMAIN form.symbols.table \ {form.symbols.at} /\ Edits([form EXCEPT !.symbols = SelectRow(@, i)])

Appends(rows) ==
    /\ Len(form.data.table) + Len(rows) <= MaxRows
    /\ Edits([form EXCEPT !.data = AppendRows(@, rows)])

ImportDataFiles(rows) == Appends(rows)

(* One row for each code, from the fields. *)
AddMultiSymbolRows(codes) ==
    Appends([i \in DOMAIN codes |-> [form.data.fields EXCEPT !.name = codes[i], !.code = codes[i]]])

(* One row for each table of the database that is selected; a single one goes into the fields. *)
LoadPostgresTables(tables) ==
    IF Len(tables) = 1
    THEN EditDataFields([form.data.fields EXCEPT !.source = "db", !.rest = tables[1],
                                                 !.name = IF @ = EmptyText THEN tables[1] ELSE @])
    ELSE Appends([i \in DOMAIN tables |->
                    [form.data.fields EXCEPT !.name = tables[i], !.source = "db", !.rest = tables[i]]])

ChooseDataFile(f) ==
    EditDataFields([form.data.fields EXCEPT !.source = "csv", !.rest = f, !.name = IF @ = EmptyText THEN f ELSE @])

----------------------------------------------------------------------------
(* The window opens with empty widgets, the first strategy of the list, and loads a template. *)
EdInit ==
    \E t \in Templates, name \in DOMAIN StrategyDefaults :
        LET opened == [strategy |-> name, params |-> <<>>, account |-> EmptyText,
                       data |-> [table |-> <<>>, at |-> 0, fields |-> [BlankData EXCEPT !.source = "csv", !.timeframe = "minutes"]],
                       symbols |-> [table |-> <<>>, at |-> 0, fields |-> BlankSymbol]]
            p == Populated(opened, t)
            s == Synced(p.w, p.cfg)
        IN  form = s.w /\ current_cfg = s.cfg /\ clicks = 0 /\ event = [kind |-> "template", cfg |-> t]

UserActs ==
    \/ \E t \in Templates : LoadTemplate(t) \/ SyncJsonToForm(t)
    \/ SyncFormToJson \/ RunFromForm
    \/ \E name \in DOMAIN StrategyDefaults : PickStrategy(name)
    \/ \E k \in UNION {DOMAIN StrategyDefaults[n] : n \in DOMAIN StrategyDefaults}, v \in ParamValues : EditParam(k, v)
    \/ \E v \in Accounts : EditAccount(v)
    \/ \E r \in DataForms : EditDataFields(r)
    \/ \E r \in SymbolForms : EditSymbolFields(r)
    \/ AddDataRow \/ RemoveSelectedDataRow \/ AddSymbolRow \/ RemoveSelectedSymbolRow
    \/ \E i \in 1 .. MaxRows : SelectDataRow(i) \/ SelectSymbolRow(i)
    \/ \E rows \in Imports : ImportDataFiles(rows)
    \/ AddMultiSymbolRows(<<"a", "c">>)
    \/ \E tables \in {<<"b">>, <<"b", "c">>} : LoadPostgresTables(tables)
    \/ ChooseDataFile("c")

EdNext == clicks < MaxActions /\ clicks' = clicks + 1 /\ UserActs

EdSpec == EdInit /\ [][EdNext]_edVars

----------------------------------------------------------------------------
(* An item that was loaded and the one that the configuration has: its code under the key that its *)
(* source is asked for (a file's ts_code, which the loader of a file that is missing looks for,    *)
(* becomes its code), its period, a missing one being days, unless the row is shown (the first     *)
(* one) and the box does not list it, and the columns of a database table.                         *)
ItemTakenOver(was, is, shown) ==
    /\ is.name = was.name /\ is.source = was.source /\ is.rest = was.rest
    /\ CodeOf(was) = IF was.source = "tushare" THEN is.ts_code ELSE is.code
    /\ (~shown \/ was.timeframe \in Timeframes \cup {EmptyText}) => is.timeframe = TimeframeOf(was.timeframe)
    /\ was.source = "db" => is.schema = was.schema

(* Whatever the form showed before, a template that lists data and symbols, with a strategy of the *)
(* list, is taken over by load_template: its strategy, every parameter it gives, what has a widget *)
(* or a section of its own, its data and its symbols, although the configuration passes through    *)
(* one built from the old form.  Not taken over: the HTML report, which is switched off, the keys  *)
(* of the sections postgres and tushare that no widget shows, no overlap of days, which becomes    *)
(* three, the columns of a file, and what ItemTakenOver leaves out; parameters that the template   *)
(* does not give may be left of the old form (StrategyChanged).                                    *)
LoadsTheTemplate ==
    LET t == event.cfg IN
    /\ event.kind = "template" /\ t.strategy \in DOMAIN StrategyDefaults /\ t.data # <<>> /\ DOMAIN t.symbols # {}
    => /\ current_cfg.strategy = t.strategy /\ current_cfg.account = t.account
       /\ current_cfg.hidden = t.hidden /\ current_cfg.overlap_days = Overlap(t)
       /\ \A k \in DOMAIN t.params : current_cfg.params[k] = t.params[k]
       /\ current_cfg.symbols = t.symbols
       /\ Len(current_cfg.data) = Len(t.data)
       /\ \A i \in DOMAIN t.data : ItemTakenOver(t.data[i], current_cfg.data[i], i = 1)

(* A run uses what the window shows: strategy, parameters, account, the fields of the data row and *)
(* of the symbol row that are being edited, even if no button was pressed since, and every other   *)
(* named row of the tables.                                                                        *)
RunUsesTheForm ==
    event.kind = "run" =>
        /\ current_cfg.strategy = form.strategy /\ current_cfg.account = form.account
        /\ \A k \in DOMAIN form.params : current_cfg.params[k] = form.params[k]
        /\ form.data.fields.name # EmptyText => ItemOf(form.data.fields) \in ToSet(current_cfg.data)
        /\ Len(current_cfg.data) = Len(WithName(form.data.table))
        /\ {r.name : r \in ToSet(form.symbols.table)} \ {EmptyText} = DOMAIN current_cfg.symbols

(* The form and the configuration tell the same: when a template is loaded and when a run is *)
(* started from the form.                                                                    *)
FormAndConfigurationAgree == LoadsTheTemplate /\ RunUsesTheForm
=============================================================================
