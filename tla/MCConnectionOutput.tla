---- MODULE MCConnectionOutput ----
\* The write side of a connection for TLC: the event loop and two workers, a
\* few responses or messages, partial writes, failures and removals.
EXTENDS ConnectionOutput, TLC

Symmetry == Permutations(Workers)

\* Whatever the threads and the proactor do to one connection: it has one
\* writer, leaves nothing unsent when all is quiet, closes only behind what was
\* queued, keeps the order, and is quiet once it is removed
\* (Connection::trigger_write, Connection::send).
OutputSound == TypeOK /\ WriterExclusive /\ NothingStranded /\ CloseAfterQueued /\ InOrder /\ RemovedQuiet

\* What is being sent stays as it is until it has been: the buffer the kernel
\* reads, and the file of a response, which the next response does not overwrite
\* (Connection::trigger_write, Connection::continue_after_response).
OutputStable == FileBeforeNext /\ InFlightStable
====
