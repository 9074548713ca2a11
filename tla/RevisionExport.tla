---------------------------- MODULE RevisionExport ----------------------------
(***************************************************************************)
(* Export of what is stored (hd/exportimport/export.py, hd/trafoutils/io): *)
(* the revisions asked for are listed with all they depend on and written  *)
(* into a directory, one file each.  A component is written as JSON with   *)
(* its code in it, or as its code alone, whose header is then all that is  *)
(* known of it.  The directory is there to be imported elsewhere.          *)
(***************************************************************************)
EXTENDS RevisionImport

\* Fault: the operators on all levels, without what components import.
NestedOnly(chosen) == chosen \cup UNION {Below(r, package.deps) : r \in chosen}

\* get_multiple_transformation_revisions with include_dependencies.
WithDependencies(chosen) ==
    LET nested == chosen \cup UNION {Below(r, package.deps) : r \in chosen}
    IN  nested \cup UNION {Imported(c) : c \in nested \cap Components}

\* get_all_transformation_revisions; unused is asked for of those chosen only.
Listed(params, unused) ==
    WithDependencies({r \in Stored \cap Matching(params, db) : unused => Unused(r)})

\* get_transformation_revisions: nothing if the listing fails, which it does where an
\* imported component is missing.
Fetched(params, unused) ==
    IF Listed(params, unused) \subseteq Stored THEN Listed(params, unused) ELSE {}

\* save_transformation_into_directory.
FileOf(r, components_as_code) ==
    IF r \in Workflows THEN [state |-> db[r]]
    ELSE IF components_as_code THEN [code |-> code[r]]
    ELSE [state |-> db[r], code |-> code[r]]

\* export_transformations, into an empty directory; it never asks for what is unused,
\* other clients of the listing do.
Exports ==
    {[r \in exported |-> FileOf(r, as_code)] :
        exported \in {Fetched(params, unused) : params \in Params, unused \in BOOLEAN},
        as_code \in BOOLEAN}

\* transformation_revision_from_python_code.
FromCode(file) == file.code

\* load_transformation_revisions_from_directory.
Loaded(file) == IF "state" \in DOMAIN file THEN file.state ELSE FromCode(file)

\* An import of the directory into a store.
ImportedInto(store, files) ==
    FoldLeft(LAMBDA there, r : IF ImportsFound(r, Loaded(files[r]), there) /\ OperatorsFound(r, there)
                               THEN [there EXCEPT ![r] = Loaded(files[r])] ELSE there,
             store, Ordered(DOMAIN files))

\* Imports of it, until there is nothing more to import: after each at least one more
\* component is there, after a last one the workflows.
Restored(files) ==
    FoldLeft(LAMBDA there, i : ImportedInto(there, files),
             [r \in Revisions |-> "ABSENT"], [i \in 1 .. Cardinality(Components) + 1 |-> i])

-----------------------------------------------------------------------------
(* Properties.                                                             *)

\* Whatever is exported is restored by imports into an empty store: nothing that is
\* needed is left out, and everything has the state it was stored with, from
\* components' code alone too.
ExportsRestore ==
    pc = "idle" => \A files \in Exports :
        Restored(files) = [r \in Revisions |-> IF r \in DOMAIN files THEN db[r] ELSE "ABSENT"]

\* Selections are complete, be it from a package or from the store: with what was
\* asked for goes all that it depends on.
SelectionsAreComplete == FilterIsClosure /\ ExportsRestore
=============================================================================
