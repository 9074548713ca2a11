------------------------ MODULE MCWiredExecution ------------------------
(* Instances of WiredExecution: situations of two or three executions. *)
EXTENDS WiredExecution

CONSTANT none

\* Values and frames.
Metric(id) == [as |-> "str", id |-> id]
Row(id, time, value) == [metric |-> Metric(id), time |-> time, value |-> value]
Rows(rows) == [r \in rows |-> 1]
Stored(rows) == [r \in {[x EXCEPT !.metric.as = "int"] : x \in rows} |-> 1]
Interval(a, b) == [from |-> a, to |-> b, type |-> "closed"]
Data(kind, rows, attrs, custom) ==
    [kind |-> kind, dtype |-> "float", utc |-> TRUE, rows |-> rows, attrs |-> attrs, custom |-> custom]
Measured(attrs) == Data("frame", Rows({Row("7", 1, "new"), Row("7", 3, "new")}), attrs, none)
Attributed == [Sql!Plain EXCEPT !.by_metric = {Metric("7")}, !.ref = Interval(1, 3)]
Invalidated == [Sql!Plain EXCEPT !.ref_metrics = {Metric("7")}, !.invalidation = Interval(1, 4)]
Number == Data("value", <<>>, Sql!Plain, none)
Series == Data("series", Rows({Row("7", 2, "s")}), Sql!Plain, none)
Model == Data("model", <<>>, Sql!Plain, "layers")
Thing == Data("value", <<>>, [Sql!Plain EXCEPT !.only = TRUE], none)

\* The stores.
MCDatabases == [db |-> [append_tables |-> {"log"}, replace_tables |-> {}, ignore_tables |-> {},
                        explicit_source_tables |-> none,
                        timeseries_tables |->
                            [ts |-> [appendable |-> TRUE, allow_invalidation |-> TRUE,
                                     delete_invalidated |-> TRUE, metric_type |-> "int"]]]]
Tables == [db |-> [log |-> <<>>,
                   ts |-> Stored({Row("7", 1, "old"), Row("7", 2, "old"), Row("7", 4, "old"),
                                  Row("8", 1, "old")})]]
Csv == [dir |-> "d", name |-> <<"data">>, extension |-> "csv"]
Fresh == [dir |-> "d", name |-> <<"fresh">>, extension |-> "csv"]
MCSettings == (Csv :> [loadable |-> TRUE, writable |-> TRUE]) @@ (Fresh :> [loadable |-> FALSE, writable |-> TRUE])
MCHandlers == [csv |-> [reads |-> TRUE, writes |-> TRUE, keepsAttrs |-> FALSE],
               pkl |-> [reads |-> TRUE, writes |-> TRUE, keepsAttrs |-> TRUE]]
Node == [bucket |-> <<"a">>, key |-> <<"m">>]
Missing == [bucket |-> <<"b">>, key |-> <<"m">>]
MCHierarchy == {<<"A">>, <<"A", "m">>, <<"B">>, <<"B", "m">>}
MCLower == [A |-> "a", B |-> "b", m |-> "m"]
MCEnds == [A |-> {"A"}, B |-> {"B"}, m |-> {"m"}]
MCRank == [A |-> 1, B |-> 1, m |-> 2, h5 |-> 3, pkl |-> 4, custom_objects_pkl |-> 5]
MCDefines == {<<"A">>, <<"B">>}
MCShortcuts == [short |-> <<"sql-adapter", <<"db", "ts_table", "ts">>>>]
MCUrls == [rest |-> "url"]
MCKafka == [k |-> [types |-> none, producable |-> TRUE, consumable |-> TRUE]]
Types == {<<"multitsframe", "any">>, <<"metadata", "any">>, <<"series", "float">>, <<"timeseries", "float">>}

Component(state, category, inputs, outputs) ==
    [type |-> "COMPONENT", state |-> state, category |-> category, inputs |-> inputs,
     outputs |-> outputs, value |-> Measured(Sql!Plain)]
MCComponents ==
    [read |-> Component("RELEASED", "in", [limit |-> TRUE, unit |-> FALSE, timestampTo |-> FALSE], 1),
     old |-> Component("DISABLED", "in", <<>>, 1),
     wip |-> Component("DRAFT", "in", <<>>, 1),
     plot |-> Component("RELEASED", "out", <<>>, 1),
     store |-> Component("RELEASED", "out", [data |-> TRUE, name |-> FALSE], 0),
     flow |-> [Component("RELEASED", "out", [data |-> TRUE], 0) EXCEPT !.type = "WORKFLOW"]]

\* Wirings and executions.
W(name, adapter, ref_id, type) == [name |-> name, adapter |-> adapter, ref_id |-> ref_id, type |-> type]
FrameType == <<"multitsframe", "any">>
Direct == [name |-> "x", filters |-> [value |-> Number]]
Job(process, after, inputs, flow, outputs) ==
    [process |-> process, after |-> after, inputs |-> inputs, flow |-> flow, outputs |-> outputs,
     time |-> 1, interval |-> [from |-> 1, to |-> 3], context |-> <<>>]
Setting(jobs) ==
    [jobs |-> jobs, tables |-> Tables, files |-> Csv :> Measured(Sql!Plain),
     objects |-> <<"a">> :> <<>>, held |-> [rest |-> <<>>], entries |-> <<>>, incoming |-> {}]

SqlIn == W("i", "sql-adapter", <<"db", "ts_table", "ts">>, FrameType)
SqlOut == W("o", "sql-adapter", <<"db", "appendable_ts_table", "ts">>, FrameType)
LogOut == W("l", "sql-adapter", <<"db", "append_table", "log">>, <<"dataframe", "any">>)
RestOut(name) == W(name, "rest", name, FrameType)
KafkaOut(name, key) ==
    W(name, "kafka", <<"k", FrameType>>, FrameType)
        @@ [filters |-> [message_value_key |-> [identifier |-> "", key |-> key]]]
New(attrs) == [value |-> Measured(attrs)]

\* A table is read and written back together with a request, and again after.
Rewriting(second, third, order) == Setting(
    [a |-> Job("p", {}, <<SqlIn @@ [filters |-> [metrics |-> {Metric("7")}]]>>,
               [o |-> [input |-> "i"], r |-> New(Attributed)], <<SqlOut, RestOut("r")>>),
     b |-> Job(second, order, <<Direct>>, [o |-> New(Attributed), l |-> New(Sql!Plain)],
               <<SqlOut, LogOut>>),
     c |-> Job(third, {}, <<>>, [o |-> New(Invalidated)], <<SqlOut>>)])

\* Objects, two of them under a key of the execution's own choice.
BlobOut(name) == W(name, "blob-storage-adapter", Node, <<"metadata", "any">>)
                    @@ [ref_id_type |-> "sink", ref_key |-> Blob!NextObject(Node)]
Suffixed == [filters |-> [object_key_suffix |-> [time |-> 5, job |-> "x"]]]
Training == Setting(
    [a |-> Job("p", {}, <<>>, [m |-> [value |-> Model], t |-> [value |-> Thing]],
               <<BlobOut("m"), BlobOut("t") @@ Suffixed>>),
     b |-> Job("p", {}, <<>>, [t |-> [value |-> Number]], <<BlobOut("t") @@ Suffixed>>),
     c |-> Job("q", {"a"}, <<BlobOut("x") @@ [default |-> TRUE], Direct @@ [name |-> "y"]>>,
               [m |-> [value |-> Model]], <<BlobOut("m")>>)])

\* A file that is read while another process writes it over.
FileW(name) == W(name, "local-file-adapter", Csv, <<"dataframe", "any">>)
Reporting == Setting(
    [a |-> Job("p", {}, <<FileW("i")>>, [o |-> [input |-> "i"], d |-> [input |-> "i"]],
               <<FileW("o"), [name |-> "d"]>>),
     b |-> Job("q", {}, <<FileW("i")>>,
               [g |-> [input |-> "i"]],
               <<W("g", "local-file-adapter", Files!GenericSink("any", "d"), <<"metadata", "any">>)
                    @@ [ref_id_type |-> "sink", ref_key |-> Files!GenericSink("any", "d")]>>),
     c |-> Job("p", {"a"}, <<W("i", "2", "x", FrameType)>>, [o |-> New(Sql!Plain)], <<FileW("o")>>)])

\* Requests and messages sent together, and received again.
Message(keys) ==
    [config |-> "k", job |-> "other", multi |-> keys # {none}, values |-> [key \in keys |-> Measured(Attributed)]]
Publishing == [Setting(
    [a |-> Job("p", {}, <<>>, [r |-> New(Sql!Plain), s |-> [value |-> Series], k |-> New(Sql!Plain),
                               n |-> New(Attributed)],
               <<RestOut("r"), W("s", "rest", "s", <<"series", "float">>),
                 KafkaOut("k", "u"), KafkaOut("n", "v")>>),
     b |-> Job("p", {"a"}, <<W("i", "kafka", <<"k", FrameType>>, FrameType)
                    @@ [filters |-> [message_value_key |-> [identifier |-> "", key |-> "u"]]]>>,
               [r |-> [input |-> "i"]], <<RestOut("r")>>),
     c |-> [Job("q", {}, <<W("i", "kafka", <<"k", FrameType>>, FrameType)>>,
                [r |-> [input |-> "i"], k |-> [input |-> "i"]], <<RestOut("r"), KafkaOut("k", none)>>)
                EXCEPT !.context = [k |-> Message({none})]]])
    EXCEPT !.incoming = {Message({"u", "w"}), Message({none})}]

SeriesOnly == Setting(
    [a |-> Job("p", {}, <<W("i", "rest", "i", <<"timeseries", "float">>),
                          W("j", "rest", "t", <<"timeseries", "float">>), W("k", "rest", "r", FrameType)>>,
               [s |-> [value |-> Series], t |-> [value |-> Measured(Sql!Plain)], r |-> New(Sql!Plain)],
               <<W("s", "rest", "s", <<"series", "float">>)>>),
     b |-> Job("p", {}, <<>>, [t |-> [value |-> Measured(Sql!Plain)], r |-> New(Sql!Plain)],
               <<W("t", "rest", "t", <<"timeseries", "float">>), RestOut("r")>>)])

\* Components as sources and sinks, some of which cannot be used.
CompW(name, id) == W(name, "component-adapter", id, FrameType)
Limit == [filters |-> [limit |-> "3"]]
Composing(sink) == Setting(
    [a |-> Job("p", {}, <<CompW("i", "read") @@ Limit, CompW("j", "old"), Direct>>,
               [o |-> [input |-> "i"], q |-> [input |-> "j"], d |-> [input |-> "x"]],
               <<CompW("o", sink), CompW("q", "store") @@ [filters |-> [name |-> "n"]], [name |-> "d"]>>),
     b |-> Job("p", {}, <<CompW("i", "read") @@ Limit, CompW("j", "read")>>, [o |-> New(Sql!Plain)],
               <<CompW("o", "store")>>),
     c |-> Job("q", {"a"}, <<Direct>>, [o |-> New(Sql!Plain), q |-> New(Sql!Plain)],
               <<CompW("o", "store"), CompW("q", "store") @@ [filters |-> [data |-> "n"]]>>)])

\* Virtual sources and sinks.
V(name, id, type) == W(name, "virtual-structure-adapter", id, type)
Entry(adapter, target) ==
    [adapter |-> adapter, target |-> target, ref_id |-> "node", ref_key |-> "meta",
     preset |-> <<>>, meta_data |-> <<>>]
Virtually == [Setting(
    [a |-> Job("p", {}, <<V("i", "u1", FrameType), Direct, V("j", "u2", <<"dataframe", "any">>)>>,
               [o |-> [input |-> "i"], l |-> [input |-> "j"]], <<V("o", "u3", FrameType), LogOut>>),
     b |-> Job("q", {}, <<V("i", "u2", FrameType), V("j", "u2", FrameType)>>, [o |-> [input |-> "i"]], <<>>),
     c |-> Job("q", {}, <<V("i", "u9", FrameType)>>, [o |-> [input |-> "i"]], <<>>)])
    EXCEPT !.entries =
        [u1 |-> [Entry("sql-adapter", <<"db", "ts_table", "ts">>) EXCEPT
                    !.preset = [metrics |-> {Metric("7")}], !.meta_data = [delete |-> TRUE]],
         u2 |-> Entry("local-file-adapter", Csv),
         u3 |-> Entry("sql-adapter", <<"db", "appendable_ts_table", "ts">>)]]

\* Outputs that are refused, one execution after the other.
Uri == [host |-> "short", path |-> none, query |-> [metrics |-> {Metric("7")}], fragment |-> none]
Wrong == Data("frame", Rows({Row("x", 1, "new")}), Attributed, none)
Sends(after, value, outs) ==
    Job("p", after, <<[name |-> "i", type |-> FrameType, uri |-> Uri]>>,
        [n \in {outs[i].name : i \in DOMAIN outs} |-> [value |-> value]], outs)
Generic == Files!GenericSink("any", "d")
RefusedTables == Setting(
    [a |-> Sends({}, Measured(Attributed), <<W("o", "sql-adapter", <<"db", "append_table">>, FrameType)>>),
     b |-> Sends({"a"}, Wrong, <<SqlOut>>),
     c |-> Sends({"b"}, Measured([Attributed EXCEPT !.by_metric = {Metric("x")}]), <<SqlOut>>)])
RefusedObjects == Setting(
    [a |-> Sends({}, Number, <<W("g", "local-file-adapter", Generic, <<"dataframe", "any">>)
                    @@ [filters |-> [file_name |-> [name |-> <<"n">>, extension |-> "txt"]]]>>),
     b |-> Sends({"a"}, Number, <<BlobOut("m") @@ [ref_id_type |-> "sink"],
                                  [BlobOut("n") EXCEPT !.ref_id = [bucket |-> <<"z">>, key |-> <<"m">>]]>>),
     c |-> Sends({"b"}, Number, <<[BlobOut("m") EXCEPT !.ref_id = Missing]>>)])
RefusedMessages == Setting(
    [a |-> Sends({}, Number, <<W("k", "kafka", <<"z", FrameType>>, FrameType)>>),
     b |-> Sends({"a"}, Number, <<KafkaOut("k", none), KafkaOut("l", "v")>>)])
RefusedRequests == Setting(
    [a |-> Sends({}, Number, <<[RestOut("r") EXCEPT !.type = none]>>),
     b |-> Sends({"a"}, Number, <<W("r", "unregistered", "r", FrameType)>>),
     c |-> Sends({"b"}, Number, <<RestOut("r"), W("s", "rest", "s", <<"metadata", "any">>)
                    @@ [ref_id_type |-> "sink", ref_key |-> "key"]>>)])

MCSetups ==
    {Rewriting(second, third, order) :
        second \in {"p", "q"}, third \in {"p", "q"}, order \in {{}, {"a"}}}
    \cup {Training, Reporting, Publishing, SeriesOnly, Virtually,
            Composing("store"), Composing("flow"), Composing("wip"), Composing("gone"),
            RefusedTables, RefusedObjects, RefusedMessages, RefusedRequests}
=============================================================================
