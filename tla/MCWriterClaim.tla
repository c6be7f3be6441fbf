--------------------------- MODULE MCWriterClaim ---------------------------
\* Instances of WriterClaim for TLC: two processes of one runtime, one of another.
EXTENDS WriterClaim, TLC

CONSTANTS p1, p2, p3, windows, wsl
MCRuntimeOf == (p1 :> windows) @@ (p2 :> windows) @@ (p3 :> wsl)

============================================================================
