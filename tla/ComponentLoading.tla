---------------------------- MODULE ComponentLoading ----------------------------
(***************************************************************************)
(* The runtime service makes modules of component code                     *)
(* (hd/component/load.py).  A module is registered in the process under    *)
(* the hash of its code, so code that was run once is found by every later *)
(* execution, with the modules it imported then.  Within an execution the  *)
(* code of a component and of those it imports comes from the execution's  *)
(* input; components being imported are marked to detect cycles.           *)
(***************************************************************************)
EXTENDS Integers, FiniteSets, Sequences, SequencesExt

CONSTANTS
    Components,
    Workflows,
    Contents     \* what a revision is edited to, in this order: the components its
                 \* code imports or its operators use

Ids == Components \cup Workflows

ASSUME ContentsAssumption ==
    /\ Contents \in [Ids -> Seq(SUBSET Components)]
    /\ \A id \in Ids : Len(Contents[id]) > 0

States == {"DRAFT", "RELEASED", "DISABLED"}

\* A revision as it is read.
Revisions == UNION {[of : {id}, version : 1 .. Len(Contents[id]), state : States] : id \in Ids}
Codes == {r \in Revisions : r.of \in Components}

Uses(rev) == Contents[rev.of][rev.version]

\* Fault: the state is not part of the code.
HashWithoutState(rev) == [rev EXCEPT !.state = "DRAFT"]

\* A component's code states its state, so a release gives it another hash.
HashOf(rev) == rev

VARIABLES
    provided,  \* component -> its code in the execution's input
    toLoad,    \* components of the workflow's nodes not loaded yet
    importing, \* the components whose code is being run, each with what it imported
    modules    \* hash of code -> the hashes of what it imported when it was run

loadVars == <<provided, toLoad, importing, modules>>

Nothing == [x \in {} |-> x]

LoadingTypeOK ==
    /\ \A c \in DOMAIN provided : c \in Components /\ provided[c] \in Codes
    /\ toLoad \in SUBSET Components
    /\ \A i \in DOMAIN importing : importing[i].of \in Components
                                   /\ DOMAIN importing[i].bound \subseteq Components
    /\ \A code \in DOMAIN modules : code \in Codes /\ DOMAIN modules[code] = Uses(code)

LoadingInit == provided = Nothing /\ toLoad = {} /\ importing = <<>> /\ modules = Nothing

\* _COMPONENT_IMPORTS_IN_PROGRESS
Marked == {importing[i].of : i \in DOMAIN importing}
Top == importing[Len(importing)]
Extended(f, x, y) == [z \in DOMAIN f \cup {x} |-> IF z = x THEN y ELSE f[z]]

\* The outermost component being imported gets hold of c's module.
Bound(c) == [importing EXCEPT ![Len(importing)].bound = Extended(@, c, HashOf(provided[c]))]

-----------------------------------------------------------------------------

\* load_func for a node whose code was run before in this process.
LoadKnown(c) ==
    /\ importing = <<>> /\ c \in toLoad
    /\ HashOf(provided[c]) \in DOMAIN modules
    /\ toLoad' = toLoad \ {c}
    /\ UNCHANGED <<provided, importing, modules>>

\* ... and for one whose code has to be run.
LoadNew(c) ==
    /\ importing = <<>> /\ c \in toLoad
    /\ HashOf(provided[c]) \notin DOMAIN modules
    /\ importing' = <<[of |-> c, bound |-> Nothing]>>
    /\ UNCHANGED <<provided, toLoad, modules>>

\* The code being run comes to import_comp(c).
Reaches(c) ==
    importing # <<>> /\ c \in Uses(provided[Top.of]) \ DOMAIN Top.bound

ImportKnown(c) ==
    /\ Reaches(c) /\ c \notin Marked
    /\ HashOf(provided[c]) \in DOMAIN modules
    /\ importing' = Bound(c)
    /\ UNCHANGED <<provided, toLoad, modules>>

ImportNew(c) ==
    /\ Reaches(c) /\ c \notin Marked
    /\ HashOf(provided[c]) \notin DOMAIN modules
    /\ importing' = Append(importing, [of |-> c, bound |-> Nothing])
    /\ UNCHANGED <<provided, toLoad, modules>>

\* ComponentImportCycleError.
CycleFound == \E c \in Marked : Reaches(c)

\* The code ran to its end: its module is registered and handed to whoever
\* imported it.
Register ==
    /\ importing # <<>> /\ DOMAIN Top.bound = Uses(provided[Top.of])
    /\ modules' = Extended(modules, HashOf(provided[Top.of]), Top.bound)
    /\ LET rest == Front(importing)
       IN  IF rest = <<>>
           THEN importing' = <<>> /\ toLoad' = toLoad \ {Top.of}
           ELSE /\ importing' = [rest EXCEPT ![Len(rest)].bound =
                                    Extended(@, Top.of, HashOf(provided[Top.of]))]
                /\ UNCHANGED toLoad
    /\ UNCHANGED provided

LoadStep ==
    \/ \E c \in Components : LoadKnown(c) \/ LoadNew(c) \/ ImportKnown(c) \/ ImportNew(c)
    \/ Register

\* The code an execution runs: its nodes' and everything their modules hold.
Running(nodes) ==
    LET Closed(codes) ==
            /\ \A c \in nodes : HashOf(provided[c]) \in codes
            /\ \A code \in codes : \A c \in Uses(code) : modules[code][c] \in codes
    IN  {code \in DOMAIN modules :
            \A codes \in SUBSET DOMAIN modules : Closed(codes) => code \in codes}

=============================================================================
