--------------------------- MODULE MCQueryService ---------------------------
(* A server of the same name in two clusters of one team, one of them with *)
(* the separator of the cache's key in its name; requests of that team, of *)
(* another, which has no server, and of a scope that shares the key of the *)
(* second cluster.                                                         *)
EXTENDS QueryService

CONSTANTS c1, c2

Id(x) == <<x>>

MCHost(team, cluster, server) ==
    [tenant |-> Id("t"), team |-> team, cluster |-> cluster, server |-> Id(server)]

MCHosts == {MCHost(Id("a"), Id("k"), "s"), MCHost(Id("a"), <<"k", ":", "l">>, "s")}

MCScope(team, cluster) == [tenant |-> Id("t"), team |-> team, cluster |-> cluster]

MCRequest(scope, number, size, last) ==
    [scope |-> scope, server |-> Id("s"), range |-> [start |-> -1, end |-> last],
     page |-> [number |-> number, size |-> size], interval |-> 2]

\* Three pages of one row, a page of a cluster, another team without a page,
\* a request without a team and one whose range ends before it starts.
MCPages == {MCRequest(MCScope(Id("a"), Id("k")), n, 1, MaxNow) : n \in 1 .. 3}
MCTeamA == MCRequest(MCScope(Id("a"), NoId), 1, 2, MaxNow)
MCClusterK == MCRequest(MCScope(Id("a"), Id("k")), 1, 1, MaxNow)
MCTeamB == MCRequest(MCScope(Id("b"), NoId), 0, 0, 1)
MCNoTeam == MCRequest(MCScope(NoId, NoId), 1, 1, MaxNow)
MCBadRange == MCRequest(MCScope(Id("a"), NoId), 1, 1, -2)

\* Two scopes with one key.
MCCluster == MCRequest(MCScope(Id("a"), <<"k", ":", "l">>), 1, 1, MaxNow)
MCOtherTeam == MCRequest(MCScope(<<"a", ":", "k">>, Id("l")), 1, 1, MaxNow)

MCPaged == MCPages \cup {MCTeamA, MCTeamB, MCNoTeam, MCBadRange}

MCRequests == MCPaged \cup {MCCluster, MCOtherTeam}

\* The handlers share nothing but the tables, which they only read, and the
\* cache, which one of them uses: one client calls one handler, or two call
\* QueryLatestScore, for the same scope, for a team and one of its clusters or for
\* two scopes with one key.
MCCase(first, second) == [c \in {c1, c2} |-> IF c = c1 THEN first ELSE second]

MCLatest(S) == {"QueryLatestScore"} \X S

MCUseCases ==
    {MCCase({h} \X MCPaged, {}) : h \in Handlers \ {"QueryLatestScore"}}
    \cup {MCCase(MCLatest({MCTeamA}), MCLatest({req})) : req \in {MCTeamA, MCClusterK}}
    \cup {MCCase(MCLatest({MCCluster}), MCLatest({MCOtherTeam}))}
    \cup {MCCase(MCLatest({MCNoTeam, MCTeamB}), {})}

MCParts == [t \in Tables |-> IF t \in {"net", "softirq"} THEN 2 ELSE 1]

MCHot == {Id("s")}
=============================================================================
