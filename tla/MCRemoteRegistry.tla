-------------------------- MODULE MCRemoteRegistry --------------------------
EXTENDS RemoteRegistry

CONSTANTS s, p, q, w  \* model values: seed, two other peers, this worker

MCPeers == {s, p, q}

\* The two non-seed peers are interchangeable.
MCSymmetry == Permutations({p, q})

=============================================================================
