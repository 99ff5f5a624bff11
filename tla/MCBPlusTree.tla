------------------------------ MODULE MCBPlusTree ------------------------------
EXTENDS BPlusTree

\* One record id under each key, and a second one under key 2.
MCEntry == {<<k, 1>> : k \in 1..6} \cup {<<2, 2>>}
=============================================================================
