---------------------------- MODULE MCNodeServer ----------------------------
EXTENDS NodeServer
CONSTANT v1

UsesOne == [p \in Pods |-> v1]
=============================================================================
