-------------------------- MODULE KafkaMessages --------------------------
(***************************************************************************)
(* The Kafka adapter (adapters/kafka): its sources and sinks, how outputs  *)
(* are gathered into messages and how inputs are taken out of one.         *)
(*                                                                         *)
(* An id is a configuration's key and a type.  The filter                  *)
(* message_value_key is the pair of a message identifier and a value key,  *)
(* None where the key is empty: then the message holds one value only.     *)
(* How values are written as json is left out.                             *)
(***************************************************************************)
EXTENDS Naturals, Sequences, FiniteSets, TLC

CONSTANTS
    None,
    KafkaConfigs,   \* key -> [types, producable, consumable], types may be None
    ExternalTypes

TypesOf(key) == IF KafkaConfigs[key].types = None THEN ExternalTypes ELSE KafkaConfigs[key].types
Offered(flags) == UNION {{<<key, type>> : type \in TypesOf(key)} : key \in flags}

Sources == Offered({key \in DOMAIN KafkaConfigs : KafkaConfigs[key].consumable})
Sinks == Offered({key \in DOMAIN KafkaConfigs : KafkaConfigs[key].producable})

(* parse_id, parse_source_id, parse_sink_id; get_source_by_id and          *)
(* get_sink_by_id answer None where these raise.                           *)
Parses(id) == Len(id) = 2 /\ id[1] \in DOMAIN KafkaConfigs /\ id[2] \in TypesOf(id[1])
SourceFound(id) == Parses(id) /\ KafkaConfigs[id[1]].consumable
SinkFound(id) == Parses(id) /\ KafkaConfigs[id[1]].producable

IdOf(w) == IF w.ref_key # None THEN w.ref_key ELSE w.ref_id

-----------------------------------------------------------------------------
(* gather_messages and gather_receive_recipes, over wirings in their       *)
(* order.  Sources are looked up as sinks are: they must be producable.    *)

Failed(how) == [error |-> how]

Value(w) ==
    IF "message_value_key" \in DOMAIN w.filters THEN w.filters.message_value_key
    ELSE [identifier |-> "", key |-> None]
Part(w) == [config |-> IdOf(w)[1], identifier |-> Value(w).identifier]

Together(ws) == {[i \in {n \in DOMAIN ws : Part(ws[n]) = p} |-> ws[i]] :
                    p \in {Part(ws[n]) : n \in DOMAIN ws}}

(* An unset key is refused after others; after an unset key, others are    *)
(* taken.                                                                  *)
Conflict(ws) ==
    \E i, j \in DOMAIN ws :
        /\ i < j /\ Part(ws[i]) = Part(ws[j])
        /\ Value(ws[j]).key \in {None, Value(ws[i]).key}

Gathered(ws) ==
    CASE \E i \in DOMAIN ws : IdOf(ws[i]) = None -> Failed("raised")
      [] \A i \in DOMAIN ws : IdOf(ws[i]) # None ->
            IF (\E i \in DOMAIN ws : ~SinkFound(IdOf(ws[i]))) \/ Conflict(ws) THEN Failed("handling")
            ELSE [error |-> "no",
                  messages |-> {[part |-> Part(group[CHOOSE i \in DOMAIN group : TRUE]),
                                 wirings |-> {group[i] : i \in DOMAIN group}] :
                                    group \in Together(ws)}]

Keys(message) == {Value(w).key : w \in message.wirings}
IsMulti(message) == Keys(message) # {None}

(* create_message: one value, or values by key, none of which is unset.    *)
CreationFails(message) == IsMulti(message) /\ None \in Keys(message)
Created(message, job, results) ==
    [config |-> message.part.config, job |-> job, multi |-> IsMulti(message),
     values |-> [key \in Keys(message) |->
                    results[(CHOOSE w \in message.wirings : Value(w).key = key).name]]]

-----------------------------------------------------------------------------
(* receive_kafka_message: the message is the one the execution was started *)
(* with, or the next one of the topic.                                     *)

Taken(recipe, received) ==
    IF IsMulti(recipe) # received.multi \/ ~(Keys(recipe) \subseteq DOMAIN received.values)
    THEN Failed("handling")
    ELSE [error |-> "no",
          values |-> [name \in {w.name : w \in recipe.wirings} |->
                        received.values[Value(CHOOSE w \in recipe.wirings : w.name = name).key]]]

(* load_data: the type of the id is that of the wiring.                    *)
TypesAgree(w) == w.type = IdOf(w)[2]
=============================================================================
