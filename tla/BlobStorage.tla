--------------------------- MODULE BlobStorage ---------------------------
(***************************************************************************)
(* The blob storage adapter (adapters/blob_storage): the thing nodes,      *)
(* buckets and sinks its hierarchy defines, the keys objects are written   *)
(* under, and which of the objects in a bucket are found again.            *)
(*                                                                         *)
(* A node of the hierarchy is the path of names to it.  A thing node's id  *)
(* is its bucket part and its key part, a key the name, time in seconds,   *)
(* job and extension ObjectKey.string is put together of, and a metadata   *)
(* key the same with the last name only.  Credentials, checksums and the   *)
(* spelling of ids are left out.                                           *)
(***************************************************************************)
EXTENDS Naturals, Sequences, FiniteSets

CONSTANTS
    None,
    HierarchyNodes,     \* the paths, closed under taking a path's front
    DefinesKeys,        \* those with below_structure_defines_object_key
    Lower,              \* name -> the name in lower case
    Ends,               \* name -> the strings it ends with, itself among them
    Rank,               \* name, extension -> its place in the order of keys
    ListLimit,          \* how many keys list_objects_v2 returns
    BucketCreation,     \* allow_bucket_creation
    HasTensorflow       \* whether tensorflow can be imported

Extensions == {"h5", "pkl", "custom_objects_pkl"}

Parent(p) == SubSeq(p, 1, Len(p) - 1)
Below(p) == {q \in HierarchyNodes : Len(q) > Len(p) /\ SubSeq(q, 1, Len(p)) = p}
IsLeaf(p) == Below(p) = {}

(* get_depth() = 2                                                         *)
HasDepth2(p) == ~IsLeaf(p) /\ \A q \in Below(p) : Len(q) = Len(p) + 1

(* create_structure hands part_of_bucket_name down the tree.               *)
PartOfBucket[p \in HierarchyNodes] ==
    Len(p) = 1 \/ /\ PartOfBucket[Parent(p)]
                  /\ Parent(p) \notin DefinesKeys
                  /\ ~HasDepth2(Parent(p))

IsBucket(p) == PartOfBucket[p] /\ (p \in DefinesKeys \/ HasDepth2(p))

NodeId(p) ==
    LET split == CHOOSE n \in 0..Len(p) :
                    \A i \in 1..Len(p) : PartOfBucket[SubSeq(p, 1, i)] <=> i <= n
    IN  [bucket |-> [i \in 1..split |-> Lower[p[i]]], key |-> SubSeq(p, split + 1, Len(p))]

ThingNodes == {NodeId(p) : p \in HierarchyNodes}
Buckets == {NodeId(p).bucket : p \in {q \in HierarchyNodes : IsBucket(q)}}
SinkNodes == {NodeId(p) : p \in {q \in HierarchyNodes : IsLeaf(q)}}

HierarchyValid ==
    /\ \A p \in HierarchyNodes : IsLeaf(p) => ~PartOfBucket[p]
    /\ \A p \in DefinesKeys : PartOfBucket[p]
    /\ Cardinality(ThingNodes) = Cardinality(HierarchyNodes)

-----------------------------------------------------------------------------
(* Keys.                                                                   *)

LastName(node) == node.key[Len(node.key)]

Key(node, time, job, extension) ==
    [name |-> node.key, time |-> time, job |-> job, extension |-> extension]

CustomObjectsKey(key) == [key EXCEPT !.extension = "custom_objects_pkl"]

(* Other objects in a bucket have keys ObjectKey.from_string refuses.      *)
IsKey(k) == DOMAIN k = {"name", "time", "job", "extension"}

MetadataKey(key) ==
    [name |-> key.name[Len(key.name)], time |-> key.time, job |-> key.job,
     extension |-> key.extension]

NextObject(node) == [name |-> LastName(node), time |-> "Next Object"]

(* from_thing_node_id_and_metadata_key; None where it raises ValueError.   *)
KeyOf(node, mk, extension) ==
    LET e == IF extension = None THEN mk.extension ELSE extension
    IN  IF IsKey(mk) /\ node.key # <<>> /\ e \in Extensions
        THEN IF mk.name \in Ends[LastName(node)] THEN Key(node, mk.time, mk.job, e) ELSE None
        ELSE None

Before(a, b) ==
    LET place(k) == IF IsKey(k)
                    THEN [i \in 1..Len(k.name) |-> Rank[k.name[i]]]
                         \o <<k.time, k.job, Rank[k.extension]>>
                    ELSE <<0>>
        p == place(a)
        q == place(b)
    IN  \E i \in 1..Len(p) : /\ \A j \in 1..(i - 1) : j <= Len(q) /\ p[j] = q[j]
                             /\ i <= Len(q) => p[i] < q[i]

(* One page of list_objects_v2: the code never asks for the next.          *)
Listed(keys) ==
    IF Cardinality(keys) <= ListLimit THEN keys
    ELSE {k \in keys : Cardinality({l \in keys : Before(l, k)}) < ListLimit}

-----------------------------------------------------------------------------
(* Sources and sinks; objects is bucket -> key -> content, for the buckets *)
(* that exist.                                                             *)

KeysIn(objects, b) == IF b \in DOMAIN objects THEN Listed(DOMAIN objects[b]) ELSE {}

SourceOf(b, key) ==
    [id |-> [bucket |-> b, key |-> key], node |-> [bucket |-> b, key |-> key.name],
     metadataKey |-> MetadataKey(key)]

SourcesIn(objects, b) ==
    {SourceOf(b, k) : k \in {x \in KeysIn(objects, b) :
                                IsKey(x) /\ [bucket |-> b, key |-> x.name] \in ThingNodes}}

Sources(objects) == UNION {SourcesIn(objects, b) : b \in Buckets}
SourcesBelow(objects, node) ==
    IF node.key = <<>> THEN {} ELSE {s \in SourcesIn(objects, node.bucket) : s.node = node}

SinkOf(node) == [id |-> <<node, "next">>, node |-> node, metadataKey |-> NextObject(node)]
Sinks == {SinkOf(n) : n \in SinkNodes}

SourceById(objects, id) ==
    IF /\ IsKey(id.key)
       /\ [bucket |-> id.bucket, key |-> id.key.name] \in ThingNodes
       /\ id.key \in KeysIn(objects, id.bucket)
    THEN SourceOf(id.bucket, id.key) ELSE None

SourceByMetadataKey(objects, node, mk) ==
    IF node \notin ThingNodes THEN None
    ELSE LET key == KeyOf(node, mk, None)
         IN  IF key = None THEN None
             ELSE IF key \in KeysIn(objects, node.bucket) THEN SourceOf(node.bucket, key) ELSE None

SinkByMetadataKey(node, mk) ==
    IF node \in SinkNodes /\ mk = NextObject(node) THEN SinkOf(node) ELSE None

-----------------------------------------------------------------------------
(* Loading and writing.  "handling" is an AdapterHandlingException, which  *)
(* becomes the failure of the execution, "raised" any other exception.     *)

Failed(how) == [error |-> how]

(* ensure_bucket_exists: the objects afterwards, None if it raises.        *)
WithBucket(objects, b) ==
    CASE b \in DOMAIN objects -> objects
      [] b \notin DOMAIN objects /\ BucketCreation ->
             [x \in DOMAIN objects \cup {b} |-> IF x = b THEN <<>> ELSE objects[x]]
      [] OTHER -> None

(* A model with custom objects is two objects: without the second, keras   *)
(* raises an exception of its own.  That a look-up makes a missing bucket  *)
(* where this is allowed is left out: nothing is found in it either way.   *)
LoadBlob(objects, node, mk) ==
    IF node = None \/ mk = None \/ node \notin ThingNodes THEN Failed("handling")
    ELSE IF node.key = <<>> THEN Failed("raised")
    ELSE LET source == SourceByMetadataKey(objects, node, mk)
         IN  IF source = None THEN Failed("handling")
             ELSE LET key == source.id.key
                      content == objects[node.bucket][key]
                  IN  CASE key.extension = "h5" /\ ~HasTensorflow -> Failed("handling")
                        [] key.extension = "h5" /\ HasTensorflow /\ content.custom # None
                           /\ CustomObjectsKey(key) \notin DOMAIN objects[node.bucket] ->
                               Failed("raised")
                        [] OTHER -> [error |-> "no", frame |-> content]

(* Only with tensorflow is a model told from any other object.             *)
ExtensionOf(content) ==
    IF HasTensorflow /\ content.kind = "model" THEN "h5" ELSE "pkl"

\* Fault: the second object is forgotten.
NoCustomObjects(content) == FALSE

HasCustomObjects(content) == ExtensionOf(content) = "h5" /\ content.custom # None

(* apply_filters_to_metadata_key: the filter replaces time and job.        *)
Suffixed(node, mk, suffix) ==
    IF suffix = None THEN mk
    ELSE [name |-> LastName(node), time |-> suffix.time, job |-> suffix.job, extension |-> "pkl"]

(* The key an object is to be written under.                               *)
Target(node, mk, suffix, extension, job, now) ==
    CASE node = None \/ mk = None -> Failed("handling")
      [] node # None /\ mk # None /\ node.key = <<>> /\ suffix # None -> Failed("raised")
      [] OTHER ->
          LET m == Suffixed(node, mk, suffix)
              key == KeyOf(node, m, extension)
          IN  IF SinkByMetadataKey(node, m) # None
              THEN [error |-> "no", key |-> Key(node, now, job, extension)]
              ELSE IF node \notin ThingNodes \/ key = None THEN Failed("handling")
              ELSE [error |-> "no", key |-> key]

(* put_object replaces what is there: only head_object has looked before.  *)
Put(objects, b, key, content) ==
    [objects EXCEPT ![b] = [k \in DOMAIN @ \cup {key} |-> IF k = key THEN content ELSE @[k]]]
=============================================================================
