---- MODULE MCEventLoop ----
\* The event loops for TLC: two loops that share a limit, or one with its own.
EXTENDS EventLoop, TLC

Symmetry == Permutations(Clients) \cup Permutations(Loops)

====
