-------------------------- MODULE MCReadWriteLock --------------------------
\* Three threads, enough for a reader, a writer and somebody who waits behind
\* both; four counter values, so that every counter wraps.
EXTENDS ReadWriteLock
=============================================================================
