---------------------------- MODULE MCHostManager ----------------------------
(* Two hosts with an ingest thread each.                                   *)
EXTENDS HostManager, TLC

CONSTANTS h1, h2, s1, s2

MCHosts == {h1, h2}
MCIngestThreads == {s1, s2}
MCThreadOf == (h1 :> s1) @@ (h2 :> s2)
=============================================================================
