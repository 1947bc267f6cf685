------------------------------ MODULE MCEngine -------------------------------
(* Small instances of FlbEngine for TLC. *)
EXTENDS FlbEngine

CONSTANTS c1, c2, i1, o1, o2

\* One input owns every chunk.
OneInput == [c \in Chunks |-> i1]

OneRetry   == [o \in Outputs |-> 1]
TwoRetries == [o \in Outputs |-> 2]
ThreeRetries == [o \in Outputs |-> 3]
\* Only o1 is retried.
RetryFirst == [o \in Outputs |-> IF o = o1 THEN 1 ELSE 0]
AllRoutes  == {Outputs}
==============================================================================
