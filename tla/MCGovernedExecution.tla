------------------------- MODULE MCGovernedExecution -------------------------
(* An instance of GovernedExecution for TLC: an owner, a second user, an agent  *)
(* of its own, a delegate with a cap on permissions and one with a cap on       *)
(* connections.                                                                 *)
EXTENDS GovernedExecution, TLC

CONSTANTS owner, bob, team, solo, aide, capped, t1, t2, t3, a, b, fileDef, def, url, prod, ai

MCUsers == {owner, bob}

Grant(id, perms, kind, who) ==
    [connection |-> id, permissions |-> perms, members |-> {[kind |-> kind, id |-> who]}]

Delegate(id, token, perms, conns) ==
    [id |-> id, token |-> token, onBehalfOf |-> bob, permissions |-> perms, connections |-> conns]

Solo == [id |-> solo, token |-> t1, onBehalfOf |-> None, permissions |-> None, connections |-> None]

Agents(cap) == {Solo, Delegate(aide, t2, {"read", "explain", "admin"}, None),
                Delegate(capped, t3, None, cap)}

Local == [vendor |-> "openai-compatible", api_key |-> FALSE, base_url |-> url]
Cloud == [vendor |-> "openai", api_key |-> TRUE, base_url |-> None]
MCProviderForms == {[Local EXCEPT !.base_url = None], [Cloud EXCEPT !.api_key = FALSE]}

\* Some of these files are refused: a rule or a cap names a connection they lack. Those that
\* confine an agent to a connection of theirs define the AI provider too.
File(auth, conns, cap, rules) ==
    [auth |-> auth, oauth |-> {[type |-> "okta", issuer_url |-> TRUE]},
     users |-> <<owner, bob>>, owners |-> {}, groups |-> team :> {bob},
     general |-> [external_url |-> url, banner_link |-> None, logo |-> None, retention_days |-> 1],
     labels |-> {prod}, labelled |-> {prod},
     connections |-> [id \in conns |-> fileDef],
     ai |-> [id \in {ai} \cap {ai : x \in cap} |-> IF auth THEN Local ELSE Cloud],
     agents |-> Agents(cap), iam |-> rules]

Everybody == Grant(Wildcard, {"read"}, "any", Wildcard)
OwnerAll  == Grant(Wildcard, Permissions, "user", owner)

RuleSets == { {},
              {Everybody, OwnerAll, Grant(Wildcard, {"explain"}, "agent", solo)},
              {OwnerAll, Grant(a, {"read", "write", "explain"}, "group", team), Grant(a, {"ddl"}, "agent", solo)},
              {Everybody, Grant(b, {"read", "write", "explain", "admin"}, "user", bob), Grant(b, {"read"}, "agent", solo)} }

\* The connections of the file, and those the capped agent is confined to.
Confined == { <<{}, {}>>, <<{a}, {a}>>, <<{a}, {a, b}>>, <<{a, b}, {a}>> }

\* Files with one mistake each.
Good == File(TRUE, {a}, {a}, {})
Mistaken == {[Good EXCEPT !.general.logo = Invalid], [Good EXCEPT !.general.retention_days = 0],
             [Good EXCEPT !.labels = {}], [Good EXCEPT !.groups[team] = {bob, Invalid}],
             [Good EXCEPT !.users = <<bob, bob>>], [Good EXCEPT !.general.external_url = None],
             [Good EXCEPT !.oauth = {[type |-> "okta", issuer_url |-> FALSE]}],
             [Good EXCEPT !.ai[ai].base_url = None], [Good EXCEPT !.ai[ai].vendor = "google"]}

MCConfigSpace == Mistaken \cup {File(TRUE, p[1], p[2], rules) : p \in Confined, rules \in RuleSets}
                     \cup {File(FALSE, {a}, {a}, {Everybody})}

MCFunctionPermissions == ("pg_reload_conf" :> "admin") @@ ("now" :> "read")

Plain(kind) == [kind |-> kind, calls |-> {}]
CallIn(clause, nested, name) == [clause |-> clause, inSubquery |-> nested, name |-> name]

MCTexts == {<<>>, <<Plain("select")>>, <<Plain("show")>>, <<Plain("create_table")>>,
            <<Plain("create_table"), Plain("insert")>>,
            <<[kind |-> "select", calls |-> {CallIn("where", FALSE, "pg_reload_conf")}]>>,
            <<[kind |-> "insert", calls |-> {CallIn("values", FALSE, "now"), CallIn("values", TRUE, "pg_reload_conf"),
                                             CallIn("returning", FALSE, "my_function")}]>>}
=============================================================================
