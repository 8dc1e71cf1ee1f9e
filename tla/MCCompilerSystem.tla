------------------------- MODULE MCCompilerSystem -------------------------
EXTENDS CompilerSystem
=============================================================================
