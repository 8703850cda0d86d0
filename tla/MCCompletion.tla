------------------------------ MODULE MCCompletion ------------------------------
(* Instances of Completion: plain statements about two tables. *)
EXTENDS Completion

Users  == [schema |-> "public", name |-> "users", type |-> "table", columns |-> <<"id", "email">>]
Orders == [schema |-> "public", name |-> "orders", type |-> "table", columns |-> <<"id", "total">>]

Arg(mode, name, type) == [mode |-> mode, name |-> name, type |-> type]
Refresh == [name |-> "refresh", kind |-> "procedure",
            declared |-> <<Arg("IN", "since", <<"timestamp", "without", "time", "zone">>),
                           Arg("INOUT", "total", <<"integer">>), Arg("IN", "date", <<"date">>)>>]
Scale == [name |-> "scale", kind |-> "function",
          declared |-> <<Arg(NoWord, NoWord, <<"double", "precision">>), Arg("VARIADIC", "by", <<"integer[]">>)>>]

MCDatabase ==
    [default |-> "public", selected |-> <<"public", "users">>, tables |-> <<Users, Orders>>,
     functions |-> {[name |-> "cleanup", kind |-> "procedure", declared |-> <<>>], Refresh, Scale}]
MCSystemFunctions == ("count" :> 0) @@ ("any_value" :> 16)
MCPgTables == <<>>

MCPartials == ("email" :> "em") @@ ("ORDER" :> "OR") @@ ("orders" :> "ord") @@ ("WHERE" :> "WHE")
MCSimilar ==
    [prefix |-> {<<"em", <<"email">>>>, <<"OR", OrderBy>>, <<"OR", <<"orders">>>>, <<"ord", OrderBy>>,
                 <<"ord", <<"orders">>>>, <<"WHE", <<"WHERE">>>>, <<"WHE", <<"WHEN">>>>},
     contains |-> {<<"OR", <<"FOR", "UPDATE">>>>}, fuzzy |-> {}]

MCStatements ==
    { <<"CALL", "refresh", "(", "1", ",", "scale", "(", "1", ",", "1", ")", ",", "1", ")">>,
      <<"SELECT", "id", "FROM", "users", "WHERE", "scale", "(", "id", ",", "1", ")", ">", "1">>,
      <<"CALL", "refresh", "(", "1", ";">>,
      <<"DELETE", "FROM", "users", "WHERE", "id", "IN", "(", "1", ",", "scale", "(", "1", ",", "id", ")", ")">>,
      <<"SELECT", "email", "FROM", "users", "WHERE", "id", "=", "1", "ORDER", "BY", "email", "DESC">>,
      <<"SELECT", "o", ".", "total", "FROM", "orders", "o", "WHERE", "o", ".", "total", ">", "1">>,
      <<"UPDATE", "orders", "SET", "total", "=", "id", "WHERE", "id", "=", "1">>,
      <<"SELECT", "id", "FROM", "users", "AS", "u", "JOIN", "orders", "o", "ON", "u", ".", "id", "=", "o", ".", "id">>,
      <<"DELETE", "FROM", "orders", "WHERE", "total", ">", "1", "AND", "id", "IS", "NOT", "NULL">>,
      <<"SELECT", "total", "FROM", "orders", "GROUP", "BY", "total", "HAVING", "total", ">", "1">> }
================================================================================
