---------------------------- MODULE MCHandshake ----------------------------
(* Handshake for TLC: all four kinds of container in one run.              *)
EXTENDS Handshake

MCConfigs == [userNs : BOOLEAN, pidNs : BOOLEAN]
=============================================================================
