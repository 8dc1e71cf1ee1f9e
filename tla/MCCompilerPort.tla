-------------------------- MODULE MCCompilerPort --------------------------
EXTENDS CompilerPort
=============================================================================
