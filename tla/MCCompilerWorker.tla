-------------------------- MODULE MCCompilerWorker --------------------------
EXTENDS CompilerWorker

CONSTANTS i1, i2, i3, c1, c2, sysroot1, sysroot2, bundle1, bundle2

\* i1 and i3 differ in their archive only, i2 wants another bundle.
TwoSysroots == [i \in {i1, i2, i3} |-> IF i = i1 THEN sysroot1 ELSE sysroot2]
TwoUrls == [i \in {i1, i2, i3} |-> IF i = i2 THEN bundle2 ELSE bundle1]
=============================================================================
