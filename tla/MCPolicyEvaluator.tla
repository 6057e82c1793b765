--------------------------- MODULE MCPolicyEvaluator ---------------------------
(* Manifests, tools and calls for checking PolicyEvaluator.                 *)
EXTENDS PolicyEvaluator, TLC

\* Values of parameters: two customers, a text over the limit, an object, a number.
Text(v) == [kind |-> "string", text |-> v]
Object == [kind |-> "object", text |-> "{}"]
Number == [kind |-> "other", text |-> "7"]
MCValues == {Text("c1"), Text("c2"), Text("long"), Object, Number}
MCBounded == {Text("c1"), Text("c2")}

\* The schemas: the seeded one, one with an optional typed parameter, one that
\* requires nothing and is open, and one no validator accepts.
Schema(required, properties, additional) ==
  [required |-> required, properties |-> properties, additional |-> additional]
Seeded == Schema({"customer_id"}, "customer_id" :> "string", FALSE)
Writing == Schema({"customer_id"}, ("customer_id" :> "bounded") @@ ("changes" :> "object"), FALSE)
Open == Schema({}, "customer_id" :> "string", TRUE)
Broken == Schema({"user"}, "customer_id" :> "string", FALSE)

Own == {[claim |-> "customer_id", parameter |-> "customer_id"]}
Foreign == {[claim |-> "email", parameter |-> "customer_id"]}
OwnTwice == Own \cup {[claim |-> "user_id", parameter |-> "changes"]}
Rule(schema, scope) == [schema |-> schema, scope |-> scope]

Policy(allowed, rules) == [allowed |-> allowed, rules |-> rules]
Reading(rule) == Policy({"read"}, "read" :> rule)
Document(id, agent, tools) == [manifest_id |-> id, agent_id |-> agent, tools |-> tools]
RowOf(agent, id, until, document, checksum) ==
  [manifest_id |-> id, agent_id |-> agent, from |-> 1, until |-> until,
   document |-> document, checksum |-> checksum]
Row(id, until, document, checksum) == RowOf("a", id, until, document, checksum)
Intact(id, until, tools) ==
  LET d == Document(id, "a", tools) IN Row(id, until, d, d)

MCManifestRows ==
  LET base == "crm" :> Reading(Rule(Seeded, Own))
  IN {Intact("m1", None, base),
      Intact("m2", 2, "crm" :> Reading(Rule(Writing, Own))),
      Intact("m3", None, "crm" :> Reading(Rule(Open, OwnTwice))),
      Intact("m4", None, "crm" :> Reading(Rule(Open, None))),
      Intact("m5", None, "crm" :> Reading(Rule(Broken, Own))),
      Intact("m6", None, "crm" :> Policy({"read", "write"}, "read" :> Rule(Seeded, Own))),
      Intact("m7", None, "crm" :> Reading(Rule(Seeded, {}))),
      Intact("m13", None, "crm" :> Reading(Rule(Seeded, Foreign))),
      Intact("m8", None, "mail" :> Reading(Rule(Open, None))),
      Intact("m9", None, "crm" :> Policy({"write"}, "write" :> Rule(Writing, None))),
      Row("m10", None, Document("m10", "b", base), Document("m10", "b", base)),
      Row("m11", None, Document("m11", "a", "crm" :> Reading(Rule(Open, None))),
                       Document("m11", "a", base)),
      RowOf("b", "m12", None, Document("m12", "b", base), Document("m12", "b", base))}

Tool(status, operations) == [name |-> "crm", status |-> status, operations |-> operations]
MCToolRows == {Tool("active", {"read", "write"}), Tool("active", {"write"}),
               Tool("disabled", {"read", "write"})}

Absent(f) == [n \in {k \in DOMAIN f : f[k] # None} |-> f[n]]
Call(agent, customer, op, parameters) ==
  [agent |-> agent, tool |-> "crm", operation |-> op,
   session |-> ("customer_id" :> customer) @@ ("user_id" :> Text("c2")),
   parameters |-> Absent(parameters)]
\* One agent makes all kinds of calls in a session of c1, and asks for customers
\* in one of c2; the other agent does the latter too.
MCRequests ==
  {Call("a", Text("c1"), op, [customer_id |-> id, changes |-> c, note |-> n]) :
     op \in {"read", "write"}, id \in MCValues \cup {None},
     c \in {None, Object, Text("c2")}, n \in {None, Number}}
  \cup {Call(agent, Text(c), "read", [customer_id |-> Text(id)]) :
          agent \in {"a", "b"}, c \in {"c1", "c2"}, id \in {"c1", "c2"}}
=============================================================================
