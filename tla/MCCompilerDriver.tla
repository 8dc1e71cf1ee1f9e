-------------------------- MODULE MCCompilerDriver --------------------------
EXTENDS CompilerDriver

AllNames == STRING

File(name, size) == [name |-> name, size |-> size, regular |-> TRUE]

\* A sysroot with one clang version; some names with the leading "sysroot".
Complete == << File(<<"sysroot">> \o Stddef(ResourceDir("17")), 1),
               File(Builtins(ResourceDir("17"), "wasm32-unknown-wasi"), 2),
               File(<<"sysroot">> \o Include(<<"c++", "v1", "iostream">>), 3),
               File(Include(<<"stdio.h">>), 0),
               File(Lib("crt1.o"), 4), File(Lib("libc.a"), 1),
               File(Lib("libc++.a"), 1), File(Lib("libc++abi.a"), 2) >>

Stddef18 == File(Stddef(ResourceDir("18")), 1)
Builtins18 == File(Builtins(ResourceDir("18"), "wasm32-unknown-wasip2"), 1)

\* What may be anywhere in an archive besides.
Extras == { [name |-> <<"lib">>, size |-> 0, regular |-> FALSE],
            [name |-> <<"pax">>, size |-> 3, regular |-> FALSE],
            File(<<>>, 1), File(<<"share">>, NaN), File(<<"sysroot">>, 1),
            File(<<"lib">>, 1), File(Lib("crt1.o"), 3), File(Lib("crt1.o") \o <<"x">>, 1),
            Stddef18, Builtins18,
            File(Builtins(ResourceDir("17"), "wasm32-unknown-wasip1"), 1),
            File(Builtins(ResourceDir("17"), "wasm32-unknown-other"), 1) }

WithExtra == {InsertAt(Complete, i, m) : i \in 1 .. Len(Complete) + 1, m \in Extras}
Without == {RemoveAt(Complete, i) : i \in DOMAIN Complete}
Replacing == {ReplaceAt(Complete, i, m) : i \in DOMAIN Complete, m \in Extras}
AsDirectory == {[Complete EXCEPT ![i].regular = FALSE] : i \in DOMAIN Complete}
Dotted == {[Complete EXCEPT ![i].name = <<".">> \o @] : i \in DOMAIN Complete}

\* One of two clang versions is complete, the other one has no builtins.
SecondComplete == {Append(ReplaceAt(Complete, 2, Stddef18), Builtins18),
                   <<Stddef18, Builtins18>> \o RemoveAt(Complete, 2)}

Archive(members, bytes, gzip) == [members |-> members, bytes |-> bytes, gzip |-> gzip]
Full(members) == Len(Tar(members)) * BlockSize

\* Every variant of the archive whole, and the complete one cut anywhere.
AllArchives ==
    {Archive(members, Full(members), FALSE) :
       members \in {Complete} \cup WithExtra \cup Without \cup Replacing
                   \cup AsDirectory \cup Dotted \cup SecondComplete}
    \cup {Archive(Complete, bytes, gzip) : bytes \in 0 .. Full(Complete), gzip \in BOOLEAN}
=============================================================================
