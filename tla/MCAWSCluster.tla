---------------------------- MODULE MCAWSCluster ----------------------------
(* Three concurrent NewMachine calls and the cluster's Destroy.          *)
EXTENDS AWSCluster

CONSTANTS w1, w2, w3

MCWorkers == {w1, w2, w3}
MCAllCalls == Calls
MCNoFailures == {}
=============================================================================
