-------------------------- MODULE MCSearchSession --------------------------
(* A small instance of SearchSession for TLC: one query finds a row that   *)
(* ends the interaction and one that opens a plugin view, the other a row  *)
(* that calls the plugin, whose list has a row with the same id.           *)
EXTENDS SearchSession

MCQueries == {"", "q", "qq"}
MCActions == {"copy", "view", "list"}
MCIds == {"a", "b"}

Row(i, a) == [id |-> i, act |-> a]
MCFound ==
  [q \in {"q", "qq"} |-> IF q = "q" THEN {Row("a", "copy"), Row("b", "view")}
                                    ELSE {Row("a", "list")}]
MCListOf == [a \in {"list"} |-> {Row("b", "copy")}]

=============================================================================
