--------------------------- MODULE MCMemoryRegistry ---------------------------
\* One watch: watches share nothing but the instances.
EXTENDS MemoryRegistry
=============================================================================
