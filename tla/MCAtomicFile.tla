---------------------------- MODULE MCAtomicFile ----------------------------
\* AtomicFile on a small instance: its configuration gives every constant a
\* model value or a set of them.
EXTENDS AtomicFile
=============================================================================
