---- MODULE MCDbConnectionPool ----
\* The database connection pool for TLC: two clients (and a spare identity, so
\* that a pool growing past max_size_ would show), two concurrent acquirers.
EXTENDS DbConnectionPool

\* The counters of the pool stay in their range, no client of it is lost for good,
\* and readiness is reported once, when every first attempt is over, as what they
\* came to (ConnectionPool::init, replace).
PoolAccounted == TypeOK /\ CapacityConserved /\ ReadyReportsInit
====
