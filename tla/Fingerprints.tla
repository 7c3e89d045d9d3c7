----------------------------- MODULE Fingerprints -----------------------------
(***************************************************************************)
(* The callers of the hash tables and the keys they use.  A key stands for *)
(* its fingerprint, which decides equality, and from which a generator     *)
(* makes two hashes: where the probe chain starts and how it goes on.      *)
(***************************************************************************)
EXTENDS Integers

CONSTANTS
  Threads,
  Keys, NoKey,
  First, Step     \* the two hashes of a key: start and stride of its probe chain

\* hash.index(mask, i)
Slot(k, i, c) == (First[k] + i * Step[k]) % c
=============================================================================
