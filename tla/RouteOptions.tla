---------------------------- MODULE RouteOptions ----------------------------
(***************************************************************************)
(* Routes and the retrieval options each of them tries, in order           *)
(* (internal/agent/service.go, buildOptionsForRoute, and the route enum of *)
(* internal/domain/types.go).  Pure data: no state.                        *)
(***************************************************************************)
EXTENDS Naturals, Sequences

\* The seven routes the route-selection prompt offers.
SelectableRoutes == {"direct_chunk", "catalog", "hierarchical", "sql", "web", "direct", "hybrid"}

\* force_route is any string of the request: everything else takes the default branch.
Routes == SelectableRoutes \cup {"other"}

\* What DIRECT_FALLBACK_ROUTE may be after validate: a selectable route or empty.
FallbackRoutes == SelectableRoutes \cup {""}

LocalOptions == {"local_dense", "local_sparse", "local_hier", "hybrid_rrf"}
ExternalOptions == {"sql", "web"}
OptionNames == LocalOptions \cup ExternalOptions

\* Each external tool returns exactly one candidate with a fixed id.
ToolResult(o) == IF o = "sql" THEN "sql_result" ELSE "web_result"

\* The options of a route, in the order retrieveByRouteWithFallback tries them.
Options(r) ==
    CASE r \in {"catalog", "direct"} -> <<>>
      [] r = "web" -> <<"local_dense", "local_sparse", "local_hier", "web">>
      [] r = "hierarchical" -> <<"local_hier", "local_dense", "local_sparse", "sql", "web">>
      [] r = "hybrid" -> <<"hybrid_rrf", "local_hier", "sql", "web">>
      [] OTHER -> <<"local_dense", "local_sparse", "local_hier", "sql", "web">>

\* The local options a route has.
LocalOptionsOf(r) == {Options(r)[i] : i \in 1 .. Len(Options(r))} \cap LocalOptions
=============================================================================
