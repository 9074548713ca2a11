---------------------------- MODULE LocalFiles ----------------------------
(***************************************************************************)
(* The local file adapter (adapters/local_file): which files it offers as  *)
(* sources and sinks, and which file an id stands for.                     *)
(*                                                                         *)
(* A path is its directory, name and extension; a settings file is known   *)
(* by the path of the data file it accompanies.  The spelling of ids and   *)
(* the keyword arguments for reading and writing are left out.             *)
(***************************************************************************)
EXTENDS Naturals, FiniteSets

CONSTANTS
    None,
    LocalDirs,      \* the directories in the configured ones
    Settings,       \* path -> [loadable, writable], the settings files there are
    Handlers,       \* extension -> [reads, writes, keepsAttrs], as registered
    GenericSinks    \* the kinds of generic sinks offered: "any", "dataframe"

Default == [loadable |-> TRUE, writable |-> FALSE]
ParsedSettings(path) == IF path \in DOMAIN Settings THEN Settings[path] ELSE Default

HasHandler(path) == path.extension \in DOMAIN Handlers

(* local_file_from_path for a data file: a null in writable takes away     *)
(* what loadable says.                                                     *)
FromDataFile(path) ==
    LET s == ParsedSettings(path)
    IN  [path |-> path, writable |-> s.writable,
         loadable |-> CASE s.writable = None -> FALSE
                        [] s.writable # None /\ s.loadable = None -> TRUE
                        [] OTHER -> s.loadable]

(* ... and for a settings file without data file.                          *)
FromSettingsFile(path) ==
    LET s == ParsedSettings(path)
    IN  [path |-> path, writable |-> s.writable,
         loadable |-> CASE s.writable = None -> TRUE
                        [] s.writable # None /\ s.loadable = None -> FALSE
                        [] OTHER -> s.loadable]

(* get_local_files_and_dirs; files is path -> content.                     *)
FilesIn(files, dirs) ==
    {FromDataFile(p) : p \in {q \in DOMAIN files : q.dir \in dirs /\ HasHandler(q)}}
    \cup {FromSettingsFile(p) :
            p \in {q \in DOMAIN Settings : /\ q.dir \in dirs /\ q \notin DOMAIN files
                                           /\ q.extension \in {"csv", "csv.zip"}}}

Loadable(f) == HasHandler(f.path) /\ (f.loadable = None \/ f.loadable)
Writable(f) == HasHandler(f.path) /\ f.writable # None /\ f.writable

Sources(files) == {f.path : f \in {g \in FilesIn(files, LocalDirs) : Loadable(g)}}
Sinks(files) == {f.path : f \in {g \in FilesIn(files, LocalDirs) : Writable(g)}}

GenericSink(kind, dir) == [generic |-> kind, dir |-> dir]
SinksAt(files, dir) ==
    {f.path : f \in {g \in FilesIn(files, {dir}) : Writable(g)}}
    \cup {GenericSink(kind, dir) : kind \in GenericSinks}

IsGeneric(id) == "generic" \in DOMAIN id

\* Fault: a file with settings only is not found.
ExistingFileFor(files, path, mustExist) ==
    IF path.dir \in LocalDirs /\ HasHandler(path) /\ (mustExist => path \in DOMAIN files)
    THEN FromDataFile(path) ELSE None

(* get_local_file_by_id                                                    *)
FileFor(files, path, mustExist) ==
    IF /\ path.dir \in LocalDirs /\ HasHandler(path)
       /\ mustExist => path \in DOMAIN files \cup DOMAIN Settings
    THEN FromDataFile(path) ELSE None

SourceFound(files, path) ==
    LET f == FileFor(files, path, TRUE) IN f # None /\ Loadable(f)

SinkFound(files, id) ==
    IsGeneric(id) \/ LET f == FileFor(files, id, TRUE) IN f # None /\ Writable(f)

-----------------------------------------------------------------------------
(* Loading and writing.                                                    *)

Failed(how) == [error |-> how]

(* Not every format keeps the attributes of a frame.  A file that is being *)
(* written over (None) holds nothing that can be read.                     *)
LoadFile(files, path, plain) ==
    LET f == FileFor(files, path, TRUE)
    IN  IF f = None THEN Failed("handling")
        ELSE IF ~f.loadable \/ ~Handlers[path.extension].reads \/ path \notin DOMAIN files
                \/ files[path] = None
        THEN Failed("handling")
        ELSE [error |-> "no",
              frame |-> IF Handlers[path.extension].keepsAttrs THEN files[path]
                        ELSE [files[path] EXCEPT !.attrs = plain]]

(* Names of its own a generic sink makes of the time and the job; a name   *)
(* in the filter must have an extension of the sink's kind.                *)
GenericExtensions == [any |-> {"pkl", "h5"}, dataframe |-> {"csv", "xlsx", "parquet"}]
GenericPath(sink, file_name, job, now) ==
    IF file_name = None
    THEN [dir |-> sink.dir, name |-> <<now, job>>,
          extension |-> IF sink.generic = "any" THEN "pkl" ELSE "csv"]
    ELSE [dir |-> sink.dir, name |-> file_name.name, extension |-> file_name.extension]

WritePath(files, id, file_name, job, now) ==
    IF IsGeneric(id)
    THEN IF file_name # None /\ file_name.extension \notin GenericExtensions[id.generic]
         THEN Failed("handling")
         ELSE LET path == GenericPath(id, file_name, job, now)
                  f == FileFor(files, path, FALSE)
              IN  IF f = None THEN Failed("raised")
                  ELSE IF ~Handlers[path.extension].writes THEN Failed("handling")
                  ELSE [error |-> "no", path |-> path]
    ELSE LET f == FileFor(files, id, TRUE)
         IN  IF f = None \/ ~Writable(f) THEN Failed("handling")
             ELSE IF ~Handlers[id.extension].writes THEN Failed("handling")
             ELSE [error |-> "no", path |-> id]
=============================================================================
