-------------------------- MODULE VirtualStructure --------------------------
(***************************************************************************)
(* What the virtual structure adapter promises of its structure            *)
(* (docs/adapter_system/virtual_structure_adapter.md): a forest of thing    *)
(* nodes with sources and sinks attached, named by their external ids.  A   *)
(* structure that is sent replaces everything or is merged: its elements    *)
(* are added or updated, all others remain unchanged.                      *)
(***************************************************************************)
CONSTANTS Keys,    \* external ids of thing nodes
          Leaves,  \* external ids of sources and sinks
          NoKey    \* the parent of a root

VARIABLES nodes,   \* the thing nodes there are
          parent,  \* thing node -> its parent, NoKey for roots
          leaves,  \* the sources and sinks there are
          places,  \* source or sink -> the thing nodes it is attached to
          sent     \* the elements of the last structure that was merged

vars == <<nodes, parent, leaves, places, sent>>

\* A set of thing nodes none of which is below a root.
Lost(ks, up) == \E C \in (SUBSET ks) \ {{}} : \A k \in C : up[k] \in C

Init == /\ nodes = {} /\ leaves = {} /\ sent = {}
        /\ parent = [k \in Keys |-> NoKey]
        /\ places = [l \in Leaves |-> {}]

Clear == /\ nodes' = {} /\ leaves' = {} /\ sent' = sent
         /\ parent' = [k \in Keys |-> NoKey]
         /\ places' = [l \in Leaves |-> {}]

\* ks, ls: the elements of the structure that is sent; it says where they belong.
Merge(ks, ls) ==
    /\ sent' = ks \cup ls
    /\ nodes' = nodes \cup ks
    /\ \A k \in ks : parent'[k] \in ks \cup {NoKey}
    /\ ~Lost(ks, parent')
    /\ \A k \in Keys \ ks : parent'[k] = parent[k]
    /\ leaves' = leaves \cup ls
    /\ \A l \in ls : places'[l] \subseteq ks
    /\ \A l \in Leaves \ ls : places'[l] = places[l]

Next == Clear \/ \E ks \in SUBSET Keys, ls \in SUBSET Leaves : Merge(ks, ls)

Spec == Init /\ [][Next]_vars
=============================================================================
