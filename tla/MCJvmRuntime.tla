----------------------------- MODULE MCJvmRuntime -----------------------------
EXTENDS JvmRuntime
CONSTANTS p1, p2
=============================================================================
