----------------------------- MODULE MCSidecar -----------------------------
(* Small instances of Sidecar for TLC. *)
EXTENDS Sidecar

CONSTANTS f1, f2, u0, u1, n1, n2, m1

NodeRun(k, a, b, m, tr) ==
    [kind |-> k, a |-> a, b |-> b, sa |-> "base", sb |-> "up", auto |-> m, trace |-> tr,
     user |-> u0]
Managing(k, a, u) ==
    [kind |-> k, a |-> a, b |-> a, sa |-> NoSize, sb |-> NoSize, auto |-> FALSE,
     trace |-> "impossible", user |-> u]

\* Dual runs over every pair of fingerprints, in auto mode and as a refresh,
\* single runs, edits and Deletes.
MixedRequests ==
    {NodeRun("dual", a, b, TRUE, "files") : a \in Fps, b \in Fps}
        \cup {NodeRun("dual", f1, b, FALSE, "impossible") : b \in Fps}
        \cup {NodeRun("single", f1, f1, TRUE, "empty")}
        \cup {Managing("update", f1, u1), Managing("delete", f1, u0)}

\* Dual runs over the same two fingerprints in either order, and Deletes.
CrossedRequests ==
    {NodeRun("dual", a, b, TRUE, "impossible") : a \in Fps, b \in Fps}
        \cup {Managing("delete", f1, u0)}
=============================================================================
