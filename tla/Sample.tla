---- MODULE Sample ----
\* A case for the components that compute and keep no state of their own: one
\* step picks an input, and an invariant compares what the code computes from
\* it with what it is for.
VARIABLE sample

NoSample == [kind |-> "none"]

\* The step that picks one of the cases.
Pick(cases) == sample = NoSample /\ \E c \in cases : sample' = c
====
