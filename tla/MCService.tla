------------------------------- MODULE MCService ------------------------------
(* Two tenants, one of which watches; a ring of two in four events, so that a    *)
(* browser may be away longer than the ring is deep; any number of starts.      *)
EXTENDS Service

CONSTANTS a, b, k1, k2

MCTenants == <<a, b>>
\* A file that is not there or holds a bad port, against an environment that
\* names it and sets the port, or one that says nothing: two of the four start.
MCFiles == {Missing, [x \in {"server.port"} |-> "bad"]}
MCEnvs == {[x \in {"config", "server.port"} |-> "good"],
           [x \in {"runner.enabled"} |-> "blank"]}
=============================================================================
