--------------------------- MODULE SysrootArchive ---------------------------
(***************************************************************************)
(* loadSysrootArchive.ts, resolveToolchainLayout.ts and                    *)
(* buildToolchainArgs.ts: the entries of the sysroot's tar archive, and    *)
(* where among them the toolchain is.  A path is the sequence of its       *)
(* segments, the content of a file is its length, and a tar file is a      *)
(* sequence of blocks: the headers, zero blocks, and blocks of file data.  *)
(* An archive is what was fetched: so many bytes of the tar file of its    *)
(* members, compressed or not; a gzip stream counts as long as its tar     *)
(* file, for all that is asked of its length is whether it was cut, and    *)
(* whether two bytes are left.  Names with empty segments (a//b) are      *)
(* outside the model: the compiler's tree takes them for the path without  *)
(* and the layout does not.                                                *)
(***************************************************************************)
EXTENDS Integers, FiniteSetsExt, SequencesExt

CONSTANTS
    BlockSize,  \* 512 in the code
    Names,      \* what a path is made of
    Zero,       \* a block of zero bytes
    NaN,        \* a size field that is no octal number
    Nothing     \* what a function that throws returns

ASSUME BlockSizeAssumption == BlockSize \in Nat \ {0}

ASSUME NamesAssumption ==
    {"sysroot", "lib", "clang", "libclang_rt.builtins.a", "wasm32-unknown-wasi",
     "wasm32-unknown-wasip1", "wasm32-unknown-wasip2", "data"} \subseteq Names

\* The members of an archive, as far as their headers are read.
Members == [name : Seq(Names), size : Nat \cup {NaN}, regular : BOOLEAN]

ASSUME ValuesAssumption ==
    /\ NaN \notin Nat
    /\ Zero \notin Members
    /\ Nothing \notin Seq(Names) \cup [resourceDir : Seq(Names), builtins : Seq(Names)]

\* Mutant: the last block of a file is forgotten.
WholeBlocks(size) == size \div BlockSize

\* Math.ceil(size / 512)
DataBlocks(size) == (size + BlockSize - 1) \div BlockSize

\* What a block of file data may look like to a reader that takes it for a header.
Data == [name |-> <<"data">>, size |-> 0, regular |-> TRUE]

\* tar's output: a header and its data for each member, and two zero blocks.
FileBlocks(size) ==
    IF size = NaN THEN 0
    ELSE CHOOSE n \in 0 .. size : n * BlockSize >= size /\ (n - 1) * BlockSize < size

WithMember(blocks, member) ==
    blocks \o <<member>> \o [i \in 1 .. FileBlocks(member.size) |-> Data]

Tar(members) ==
    LET tar[n \in 0 .. Len(members)] ==
            IF n = 0 THEN <<>> ELSE WithMember(tar[n - 1], members[n])
    IN  tar[Len(members)] \o <<Zero, Zero>>

Size(archive) == Len(Tar(archive.members)) * BlockSize
Cut(archive) == archive.bytes < Size(archive)

\* A leading "sysroot/" goes; every other name is taken from the archive's root.
EntryPath(name) == IF Len(name) > 1 /\ Head(name) = "sysroot" THEN Tail(name) ELSE name

\* The loop ends where no whole header is left, at a zero block, and with an offset
\* that is no number.
AtEnd(blocks, bytes, offset) ==
    \/ offset = NaN
    \/ (offset + 1) * BlockSize > bytes
    \/ blocks[offset + 1] = Zero

\* One round reads a header and goes on behind the file's data.  slice() ends at the
\* end of the archive, and at once for a NaN.
ReadFile(blocks, bytes, read) ==
    LET header == blocks[read.offset + 1]
        data == read.offset + 1
        length == IF header.size = NaN THEN 0 ELSE Min({header.size, bytes - data * BlockSize})
    IN  IF AtEnd(blocks, bytes, read.offset) THEN read
        ELSE [offset |-> IF header.size = NaN THEN NaN ELSE data + DataBlocks(header.size),
              entries |-> IF header.regular /\ header.name # <<>>
                          THEN Append(read.entries, [path |-> EntryPath(header.name), length |-> length])
                          ELSE read.entries]

\* parseSysrootTar(), with more rounds than there are headers; an offset counts blocks.
ParseSysrootTar(blocks, bytes) ==
    LET read[n \in 0 .. Len(blocks)] ==
            IF n = 0 THEN [offset |-> 0, entries |-> <<>>] ELSE ReadFile(blocks, bytes, read[n - 1])
    IN  read[Len(blocks)].entries

\* decompressGzIfNeeded() knows a gzip stream by its first two bytes.  One that was cut
\* does not decompress; less of it than that is read as it is, and holds no header.
Mark == 2
Undecompressed(archive) == archive.gzip /\ Cut(archive)

\* loadSysrootEntriesFromArchive()
LoadSysrootEntries(archive) ==
    IF ~Undecompressed(archive) THEN ParseSysrootTar(Tar(archive.members), archive.bytes)
    ELSE IF archive.bytes < Mark THEN <<>> ELSE Nothing

-----------------------------------------------------------------------------
Lib(file) == <<"lib", "wasm32-wasi", file>>
Include(segments) == <<"include", "wasm32-wasi">> \o segments
ResourceDir(version) == <<"lib", "clang", version>>

Headers == {Include(<<"c++", "v1", "iostream">>), Include(<<"stdio.h">>)}
Libraries == {Lib("crt1.o"), Lib("libc.a"), Lib("libc++.a"), Lib("libc++abi.a")}

Stddef(resourceDir) == resourceDir \o <<"include", "stddef.h">>

IsStddef(path) == Len(path) = 5 /\ path = Stddef(ResourceDir(path[3]))

Targets == <<"wasm32-unknown-wasi", "wasm32-unknown-wasip1", "wasm32-unknown-wasip2">>

Builtins(resourceDir, target) == resourceDir \o <<"lib", target, "libclang_rt.builtins.a">>

Paths(entries) == {entries[i].path : i \in DOMAIN entries}

Stddefs(entries) == {i \in DOMAIN entries : IsStddef(entries[i].path)}

\* Mutant: the last clang version of the archive is taken.
LastVersion(entries) ==
    IF Stddefs(entries) = {} THEN Nothing
    ELSE ResourceDir(entries[Max(Stddefs(entries))].path[3])

\* resolveClangResourceDir(): the first version in the order of the entries.
ResolveClangResourceDir(entries) ==
    IF Stddefs(entries) = {} THEN Nothing
    ELSE ResourceDir(entries[Min(Stddefs(entries))].path[3])

\* resolveBuiltinsPath(): looked for under that version only.
ResolveBuiltinsPath(entries, resourceDir) ==
    LET found == {i \in DOMAIN Targets : Builtins(resourceDir, Targets[i]) \in Paths(entries)}
    IN  IF found = {} THEN Nothing ELSE Builtins(resourceDir, Targets[Min(found)])

ResolveToolchainLayout(entries) ==
    LET resourceDir == ResolveClangResourceDir(entries)
    IN  IF \/ resourceDir = Nothing
           \/ ~(Headers \cup Libraries \subseteq Paths(entries))
           \/ ResolveBuiltinsPath(entries, resourceDir) = Nothing
        THEN Nothing
        ELSE [resourceDir |-> resourceDir,
              builtins |-> ResolveBuiltinsPath(entries, resourceDir)]

\* The files of the sysroot the two commands name, or find by an option.
BuildClangArgs(layout) == {Stddef(layout.resourceDir)} \cup Headers
BuildLdArgs(layout) == {layout.builtins} \cup Libraries
=============================================================================
