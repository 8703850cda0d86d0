---------------------------- MODULE MCWorkspace -----------------------------
(* Instances of Workspace for TLC. *)
EXTENDS Workspace, TLC

Object(t, n) == [type |-> t, name |-> n]

\* Connection 1 browses the whole server, with two databases whose schemas share a name.
MCConnections == <<"c1", "c2">>
MCDatabases == {"", "d2"}
MCHolds ==
    ([conn |-> "c1", db |-> ""] :> <<[name |-> "app", objects |-> <<Object("view", "v"), Object("function", "f")>>],
                                     [name |-> "public", objects |-> <<Object("table", "t"), Object("materialized_view", "m")>>]>>)
    @@ ([conn |-> "c1", db |-> "d2"] :> <<[name |-> "app", objects |-> <<Object("table", "u")>>]>>)
    @@ ([conn |-> "c2", db |-> ""] :> <<[name |-> "public", objects |-> <<Object("table", "t")>>]>>)

MCLinks ==
    {[conn |-> "c1", db |-> "", schema |-> "app", object |-> Object("view", "v")],
     [conn |-> "gone", db |-> "", schema |-> "app", object |-> Object("function", "f")]}
=============================================================================
