---------------------------- MODULE SqlTables ----------------------------
(***************************************************************************)
(* The SQL adapter (adapters/sql_adapter): what its sources and sinks are, *)
(* what a source loads, and what one transaction of a sink deletes and     *)
(* writes.                                                                 *)
(*                                                                         *)
(* A frame is a bag of rows [metric, time, value] with the attributes its  *)
(* DataFrame.attrs carry; a table is a bag of rows.  A metric is the       *)
(* string or the integer of an id, so that str() and int() change its      *)
(* "as" only.  An id "db/kind/table" is the sequence of its parts.  Column *)
(* names, time zones and the text of queries are left out.                 *)
(***************************************************************************)
EXTENDS Naturals, Sequences, Bags

CONSTANTS
    None,
    Databases,      \* key -> [append_tables, replace_tables, ignore_tables,
                    \*         explicit_source_tables, timeseries_tables]
    Numerals,       \* the ids of metrics that int() accepts
    InferMetrics    \* infer_metrics_from_metric_column_for_deletion_if_not_present

Str(m) == [m EXCEPT !.as = "str"]
Int(m) == [m EXCEPT !.as = "int"]
Column(c, m) == IF c.metric_type = "str" THEN Str(m) ELSE Int(m)
ColumnFits(c, metrics) == c.metric_type = "str" \/ \A m \in metrics : m.id \in Numerals

Part(rows, Test(_)) == [r \in {x \in DOMAIN rows : Test(x)} |-> rows[r]]

(* The attributes of a frame that sets none, and the interval of none.     *)
NoInterval == [from |-> None, to |-> None, type |-> "closed"]
Plain == [by_metric |-> {}, ref_metrics |-> {}, discrete |-> FALSE,
          ref |-> NoInterval, invalidation |-> NoInterval,
          invalidate |-> TRUE, delete |-> None, only |-> FALSE]

Given(i) == i.from # None /\ i.to # None /\ i.type # None

Holds(i, t) ==
    /\ IF i.type \in {"closed", "left_closed", "right_open"} THEN i.from <= t ELSE i.from < t
    /\ IF i.type \in {"closed", "right_closed", "left_open"} THEN t <= i.to ELSE t < i.to

(* DatasetMetadata.validate_constraints.                                   *)
MetadataValid(a) ==
    /\ a.only => a.invalidate
    /\ \A i \in {a.ref, a.invalidation} :
           /\ (i.from = None) = (i.to = None)
           /\ i.from # None => i.type # None

-----------------------------------------------------------------------------
(* Sources and sinks.                                                      *)

AllowedAsSource(d, t) ==
    /\ d.explicit_source_tables = None \/ t \in d.explicit_source_tables
    /\ t \notin d.ignore_tables
    /\ t \notin DOMAIN d.timeseries_tables

Sources(stored) == UNION {
    LET d == Databases[k] IN
       {<<k, "query">>}
       \cup {<<k, "table", t>> : t \in {x \in DOMAIN stored[k] : AllowedAsSource(d, x)}}
       \cup {<<k, "ts_table", t>> : t \in DOMAIN d.timeseries_tables} : k \in DOMAIN Databases}

Sinks == UNION {
    LET d == Databases[k] IN
       {<<k, "append_table", t>> : t \in d.append_tables}
       \cup {<<k, "replace_table", t>> : t \in d.replace_tables}
       \cup {<<k, "appendable_ts_table", t>> :
               t \in {x \in DOMAIN d.timeseries_tables : d.timeseries_tables[x].appendable}} :
    k \in DOMAIN Databases}

(* get_source_by_id looks at the form of the id only.                      *)
SourceFound(id) ==
    /\ Len(id) >= 2 /\ id[1] \in DOMAIN Databases
    /\ \/ id[2] = "query" /\ Len(id) = 2
       \/ id[2] \in {"table", "ts_table"} /\ Len(id) = 3

Modes == [append_table |-> "APPEND", replace_table |-> "REPLACE",
          appendable_ts_table |-> "TIMESERIES_APPEND"]

WriteTableValid(id) ==
    Len(id) = 3 /\ id[1] \in DOMAIN Databases /\ id[2] \in DOMAIN Modes

SinkFound(id) ==
    /\ WriteTableValid(id)
    /\ LET d == Databases[id[1]] IN
       CASE id[2] = "appendable_ts_table" -> d.timeseries_tables[id[3]].appendable
         [] id[2] = "append_table" -> id[3] \in d.append_tables
         [] id[2] = "replace_table" -> id[3] \in d.replace_tables

-----------------------------------------------------------------------------
(* Loading.  "handling" is an AdapterHandlingException, "raised" any other *)
(* exception: it leaves runtime_service, which answers nothing.            *)

Failed(how) == [error |-> how]
Loaded(frame) == [error |-> "no", frame |-> frame]

(* resolve_interval: the filters, else the time interval of the execution. *)
Resolved(filters, interval) ==
    LET from == IF filters.timestampFrom # None THEN filters.timestampFrom ELSE interval.from
        to == IF filters.timestampTo # None THEN filters.timestampTo ELSE interval.to
    IN  IF from = None \/ to = None THEN None
        ELSE IF to < from THEN None ELSE [from |-> from, to |-> to, type |-> "closed"]

LoadTimeseries(rows, config, filters, interval) ==
    LET range == Resolved(filters, interval)
        metrics == {Column(config, m) : m \in filters.metrics}
        found == Part(rows, LAMBDA r : /\ Holds(range, r.time)
                                       /\ filters.metrics = None \/ r.metric \in metrics)
        attrs == [Plain EXCEPT !.ref = range,
                               !.by_metric = IF filters.metrics = None THEN {} ELSE filters.metrics]
    IN  IF range = None \/ (filters.metrics # None /\ ~ColumnFits(config, filters.metrics))
        THEN Failed("handling")
        ELSE Loaded([rows |-> BagOfAll(LAMBDA r : [r EXCEPT !.metric = Str(@)], found),
                     attrs |-> attrs])

LoadTable(id, filters, interval, stored) ==
    IF Len(id) < 2 \/ id[1] \notin DOMAIN Databases THEN Failed("handling")
    ELSE LET tables == stored[id[1]]
             configs == Databases[id[1]].timeseries_tables
         IN  CASE id[2] = "query" /\ Len(id) = 2 ->
                    IF filters.sql_query = None THEN Failed("handling")
                    ELSE IF filters.sql_query \notin DOMAIN tables THEN Failed("handling")
                    ELSE Loaded([rows |-> tables[filters.sql_query], attrs |-> Plain])
               [] id[2] = "table" /\ Len(id) = 3 ->
                    IF id[3] \notin DOMAIN tables THEN Failed("raised")
                    ELSE Loaded([rows |-> tables[id[3]], attrs |-> Plain])
               [] id[2] = "ts_table" /\ Len(id) = 3 ->
                    IF id[3] \notin DOMAIN configs
                    THEN IF Resolved(filters, interval) = None THEN Failed("handling")
                         ELSE Failed("raised")
                    ELSE LoadTimeseries(tables[id[3]], configs[id[3]], filters, interval)
               [] OTHER -> Failed("handling")

-----------------------------------------------------------------------------
(* Writing: what is checked before the transaction, what the transaction   *)
(* deletes and what it writes.                                             *)

IsTimeseries(id) == id[2] = "appendable_ts_table"
TableConfig(id) == Databases[id[1]].timeseries_tables[id[3]]

Metrics(frame) ==
    CASE frame.attrs.by_metric # {} -> frame.attrs.by_metric
      [] frame.attrs.by_metric = {} /\ frame.attrs.ref_metrics # {} -> frame.attrs.ref_metrics
      [] OTHER -> IF InferMetrics THEN {Str(r.metric) : r \in DOMAIN frame.rows} ELSE {}

(* "no", or how writing ends before its transaction begins.                *)
Refusal(id, frame) ==
    CASE ~WriteTableValid(id) -> "handling"
      [] WriteTableValid(id) /\ IsTimeseries(id)
         /\ id[3] \notin DOMAIN Databases[id[1]].timeseries_tables -> "raised"
      [] WriteTableValid(id) /\ IsTimeseries(id)
         /\ id[3] \in DOMAIN Databases[id[1]].timeseries_tables
         /\ \/ ~TableConfig(id).appendable
            \/ ~ColumnFits(TableConfig(id), {r.metric : r \in DOMAIN frame.rows}) -> "handling"
      [] OTHER -> IF MetadataValid(frame.attrs) THEN "no" ELSE "handling"

Deletes(id, frame) ==
    /\ IsTimeseries(id)
    /\ TableConfig(id).allow_invalidation /\ TableConfig(id).delete_invalidated
    /\ frame.attrs.invalidate /\ frame.attrs.delete # FALSE
    /\ Metrics(frame) # {}

(* The frame as it was handed over names the discrete points, not the copy *)
(* prepared for the table: metrics that are integers equal no name.        *)
Points(config, frame) ==
    {[time |-> r.time, metric |-> Column(config, r.metric)] :
        r \in {x \in DOMAIN frame.rows : x.metric \in Metrics(frame)}}

Span(rows) ==
    LET times == {r.time : r \in DOMAIN rows}
    IN  [from |-> CHOOSE t \in times : \A u \in times : t <= u,
         to |-> CHOOSE t \in times : \A u \in times : u <= t, type |-> "closed"]

\* Fault: metrics are compared as they are named, not as the column holds them.
NamedRowIsDoomed(r, config, frame) ==
    LET interval == IF Given(frame.attrs.invalidation) THEN frame.attrs.invalidation
                    ELSE IF Given(frame.attrs.ref) THEN frame.attrs.ref ELSE Span(frame.rows)
    IN  r.metric \in Metrics(frame) /\ Holds(interval, r.time)

RowIsDoomed(r, config, frame) ==
    LET a == frame.attrs
        among == r.metric \in {Column(config, m) : m \in Metrics(frame)}
    IN  CASE Given(a.invalidation) -> among /\ Holds(a.invalidation, r.time)
          [] ~Given(a.invalidation) /\ a.discrete ->
                 [time |-> r.time, metric |-> r.metric] \in Points(config, frame)
          [] ~Given(a.invalidation) /\ ~a.discrete /\ Given(a.ref) ->
                 among /\ Holds(a.ref, r.time)
          [] OTHER -> frame.rows # EmptyBag /\ among /\ Holds(Span(frame.rows), r.time)

(* What the transaction's DELETE finds: the rows committed when it runs.   *)
Doomed(id, frame, rows) ==
    IF Deletes(id, frame)
    THEN Part(rows, LAMBDA r : RowIsDoomed(r, TableConfig(id), frame))
    ELSE EmptyBag

DeletionFails(id, frame) ==
    Deletes(id, frame) /\ ~ColumnFits(TableConfig(id), Metrics(frame))

(* The table when the transaction commits: of the rows it deleted, those   *)
(* another transaction has deleted meanwhile are gone already.             *)
Written(id, frame, doomed, rows) ==
    LET new == IF IsTimeseries(id)
               THEN BagOfAll(LAMBDA r : [r EXCEPT !.metric = Column(TableConfig(id), @)], frame.rows)
               ELSE frame.rows
    IN  IF frame.attrs.only \/ frame.rows = EmptyBag THEN rows (-) doomed
        ELSE IF id[2] = "replace_table" THEN new ELSE (rows (-) doomed) (+) new
=============================================================================
