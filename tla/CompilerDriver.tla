--------------------------- MODULE CompilerDriver ---------------------------
(***************************************************************************)
(* YowaspCppCompiler.ts: compileCpp() of one compiler, called any number   *)
(* of times and suspended while clang or the linker run.  A call builds a  *)
(* file tree from the entries and its source, runs clang on it and the     *)
(* linker on what clang gave back.  The two commands are external: they    *)
(* return a tree, or nothing, or throw.                                    *)
(***************************************************************************)
EXTENDS SysrootArchive, Functions

CONSTANTS
    Calls,      \* the calls of compileCpp(), each with its own source
    Archives,   \* the archives enumerated
    SizeCap,    \* MAX_EXECUTABLE_ARTIFACT_BYTES
    Sizes       \* the sizes of linked programs enumerated

ASSUME FilesAssumption == {"work", "source.cpp", "source.o", "output.wasm"} \subseteq Names

ASSUME ArchivesAssumption ==
    \A a \in Archives : /\ a \in [members : Seq(Members), bytes : Nat, gzip : BOOLEAN]
                         /\ a.bytes <= Size(a)

VARIABLES
    archive,    \* the fetched bytes
    entries,    \* sysrootEntries of the compiler
    stage,      \* stage[c]: what the call awaits, or how it ended
    files,      \* files[c]: the tree of the command it awaits
    artifact    \* artifact[c]: the wasmBinary of a success

vars == <<archive, entries, stage, files, artifact>>

SourcePath == <<"work", "source.cpp">>
ObjectPath == <<"work", "source.o">>
OutputPath == <<"work", "output.wasm">>
SysrootPath(path) == <<"sysroot">> \o path

EmptyTree == <<>>

-----------------------------------------------------------------------------
\* A tree is the function from the paths of its files to what they hold.

\* A file is where the path needs a directory.
Blocked(tree, path) == \E file \in DOMAIN tree : IsStrictPrefix(file, path)

\* Mutant: a file that is there already is kept.
AppendUnlessThere(tree, path, data) ==
    IF Blocked(tree, path) THEN {}
    ELSE {[file \in {f \in DOMAIN tree : ~IsStrictPrefix(path, f)} \cup {path} |->
             IF file \in DOMAIN tree THEN tree[file] ELSE data]}

\* appendTreeFile(): the tree it leaves, or none if it throws.  A file in the way of a
\* directory throws, a directory in the way of a file is replaced with all there is in it.
AppendTreeFile(tree, path, data) ==
    IF Blocked(tree, path) THEN {}
    ELSE {[file \in {f \in DOMAIN tree : ~IsPrefix(path, f)} \cup {path} |->
             IF file = path THEN data ELSE tree[file]]}

\* Mutant: the tree of an earlier call is used again.
EarlierTree ==
    LET used == {d \in Calls : files[d] # EmptyTree}
    IN  IF used = {} THEN EmptyTree ELSE files[CHOOSE d \in used : TRUE]

NewTree == EmptyTree

\* createCompilerFilesystem(): a later entry replaces an earlier one of its path.
CreateCompilerFilesystem(c) ==
    LET trees[n \in 0 .. Len(entries)] ==
            IF n = 0 THEN {NewTree}
            ELSE UNION {AppendTreeFile(tree, SysrootPath(entries[n].path),
                                       [kind |-> "sysroot", length |-> entries[n].length])
                          : tree \in trees[n - 1]}
    IN  UNION {AppendTreeFile(tree, SourcePath, [kind |-> "source", of |-> c])
                 : tree \in trees[Len(entries)]}

Fails(c) == /\ stage' = [stage EXCEPT ![c] = "failure"]
            /\ UNCHANGED <<archive, entries, files, artifact>>

\* Up to the first await.  What throws is caught by compileCpp(): a failure.
Compile(c) ==
    /\ stage[c] = "idle"
    /\ entries # Nothing
    /\ LET trees == CreateCompilerFilesystem(c)
       IN  IF trees = {} \/ ResolveToolchainLayout(entries) = Nothing THEN Fails(c)
           ELSE /\ stage' = [stage EXCEPT ![c] = "clang"]
                /\ files' \in {[files EXCEPT ![c] = tree] : tree \in trees}
                /\ UNCHANGED <<archive, entries, artifact>>

\* clang: an object made from the source of its tree, or a tree without one (or
\* nothing, and runCommand() keeps the tree it passed).
ClangReturns(tree) ==
    {tree} \cup AppendTreeFile(tree, ObjectPath, [kind |-> "object", of |-> tree[SourcePath].of])

\* The linker gets the tree clang gave back.
ClangEnds(c) ==
    /\ stage[c] = "clang"
    /\ stage' = [stage EXCEPT ![c] = "linker"]
    /\ files' \in {[files EXCEPT ![c] = tree] : tree \in ClangReturns(files[c])}
    /\ UNCHANGED <<archive, entries, artifact>>

\* wasm-ld: it may write the output only with the object and the libraries.
LinkerReturns(tree, layout) ==
    IF {SysrootPath(path) : path \in BuildLdArgs(layout)} \cup {ObjectPath} \subseteq DOMAIN tree
    THEN {tree} \cup UNION {AppendTreeFile(tree, OutputPath,
                              [kind |-> "wasm", of |-> tree[ObjectPath].of, size |-> size]) : size \in Sizes}
    ELSE {tree}

\* Without the output, or with one over the cap, the call is a failure.
LinkerEnds(c) ==
    /\ stage[c] = "linker"
    /\ \E tree \in LinkerReturns(files[c], ResolveToolchainLayout(entries)) :
         /\ files' = [files EXCEPT ![c] = tree]
         /\ IF OutputPath \in DOMAIN tree /\ tree[OutputPath].size <= SizeCap
            THEN /\ stage' = [stage EXCEPT ![c] = "success"]
                 /\ artifact' = [artifact EXCEPT ![c] = tree[OutputPath]]
            ELSE /\ stage' = [stage EXCEPT ![c] = "failure"]
                 /\ UNCHANGED artifact
    /\ UNCHANGED <<archive, entries>>

\* An error that carries files is a compile error, any other one is thrown on and
\* caught by compileCpp(): the caller cannot tell them apart.
CommandThrows(c) == stage[c] \in {"clang", "linker"} /\ Fails(c)

-----------------------------------------------------------------------------
Init == /\ archive \in Archives
        /\ entries = LoadSysrootEntries(archive)
        /\ stage = [c \in Calls |-> "idle"]
        /\ files = [c \in Calls |-> EmptyTree]
        /\ artifact = [c \in Calls |-> Nothing]

Next == \E c \in Calls : Compile(c) \/ ClangEnds(c) \/ LinkerEnds(c) \/ CommandThrows(c)

Spec == Init /\ [][Next]_vars

-----------------------------------------------------------------------------
(* Properties *)

\* The members of an archive that are files, in their order.
FilesOf(members) ==
    LET found[n \in 0 .. Len(members)] ==
            IF n = 0 THEN <<>>
            ELSE IF members[n].regular /\ members[n].name # <<>> THEN Append(found[n - 1], members[n])
                 ELSE found[n - 1]
    IN  found[Len(members)]

\* An archive that is whole gives all its files, whole and in their order.  One
\* that was cut (or has an unreadable size) gives the first of them, and only the
\* last of these may be short: it never gives a wrong file.
ArchiveIsRead ==
    LET expected == FilesOf(archive.members)
        n == Len(entries)
        whole == ~Cut(archive) /\ \A i \in DOMAIN archive.members : archive.members[i].size # NaN
    IN  entries # Nothing =>
          /\ n <= Len(expected)
          /\ \A i \in 1 .. n : /\ entries[i].path = EntryPath(expected[i].name)
                               /\ whole \/ i < n => entries[i].length = expected[i].size
          /\ whole => n = Len(expected)

\* Entry i is a file where a later entry needs a directory, or the reverse.
InTheWay(i, j) == i < j /\ IsStrictPrefix(entries[i].path, entries[j].path)
Replaced(path) == \E i, j \in DOMAIN entries :
                     i < j /\ entries[i].path = path /\ IsStrictPrefix(entries[j].path, path)

\* A command finds in its tree the files it is told to use and every file of the
\* archive with the content of its last entry, but for those that a file of the
\* name of their directory replaced.
CommandsFindTheirFiles ==
    \A c \in Calls : stage[c] \in {"clang", "linker"} =>
        LET layout == ResolveToolchainLayout(entries)
        IN  /\ \A path \in BuildClangArgs(layout) \cup BuildLdArgs(layout) :
                 SysrootPath(path) \in DOMAIN files[c] \/ Replaced(path)
            /\ \A i \in DOMAIN entries :
                 \/ \E k \in DOMAIN entries : k > i /\ entries[k].path = entries[i].path
                 \/ Replaced(entries[i].path)
                 \/ files[c][SysrootPath(entries[i].path)].length = entries[i].length

\* The archive lacks a file or has a file in the way of a directory.  Of two clang
\* versions the first one has to be complete, whatever the second one has.
Broken ==
    LET stddefs == {i \in DOMAIN entries : IsStddef(entries[i].path)}
        resourceDir == ResourceDir(entries[Min(stddefs)].path[3])
    IN  \/ \E i, j \in DOMAIN entries : InTheWay(i, j)
        \/ ~(Headers \cup Libraries \subseteq Paths(entries))
        \/ stddefs = {}
        \/ \A t \in Range(Targets) : Builtins(resourceDir, t) \notin Paths(entries)

\* A compilation is given up before clang runs exactly if the archive is broken.
RefusedOnlyIfBroken ==
    [][\A c \in Calls : stage[c] = "idle" /\ stage'[c] # "idle" =>
         (stage'[c] = "failure" <=> Broken)]_vars

\* A submission that compiles gets its own program, within the size cap, whatever
\* other compilations of the same compiler do meanwhile.
ArtifactIsOwn ==
    \A c \in Calls : stage[c] = "success" =>
        artifact[c].kind = "wasm" /\ artifact[c].of = c /\ artifact[c].size <= SizeCap
=============================================================================
