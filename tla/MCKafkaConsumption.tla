------------------------- MODULE MCKafkaConsumption -------------------------
(***************************************************************************)
(* Configurations of the Kafka consumption mode for TLC.                   *)
(***************************************************************************)
EXTENDS KafkaConsumption

\* Every combination of attributes.
AllConfigs == [ConfigFields -> BOOLEAN]

\* The documented way to at least once semantics, with every choice of the
\* attributes its description does not mention.
AtLeastOnceConfigs ==
    {c \in AllConfigs : c.group /\ c.after /\ ~c.before /\ ~c.auto}
=============================================================================
