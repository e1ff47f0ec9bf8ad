--------------------------- MODULE MCToolCalling ---------------------------
(* Two function tools and one of another type; one question that names one *)
(* of them and one that names none; lists with and without that tool.      *)
EXTENDS ToolCalling

MCTools == {"query_sql", "search_web", "odd"}
MCFunctionTools == {"query_sql", "search_web"}
MCTargets == {"odd", "search_web"}
MCToolLists == {<<>>, <<"search_web", "odd">>, <<"query_sql", "search_web">>}
MCQuestions == {"about sql", "about nothing"}
MCNamed == [q \in MCQuestions |-> IF q = "about sql" THEN {"query_sql"} ELSE {}]
=============================================================================
