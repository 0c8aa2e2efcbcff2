------------------------------ MODULE MCReleases ------------------------------
(***************************************************************************)
(* Versions of an interface for BreakingChanges: a message and a rule its  *)
(* field may refer to, or services.                                        *)
(***************************************************************************)
EXTENDS BreakingChanges

Number == [is |-> "builtin", name |-> "int"]
Text == [is |-> "builtin", name |-> "text"]
Literals == [l \in {"a", "b", "c", "d"} |-> [is |-> "literal", text |-> l]]
Other == [is |-> "reference", name |-> "Other"]
ArrayOf(t, occurrence) == [is |-> "array", element |-> t, occurrence |-> occurrence]
ChoiceOf(arms) == [is |-> "choice", arms |-> arms]

Enum == ChoiceOf(<<Literals["a"], Literals["b"]>>)
Enums == {Enum, ChoiceOf(<<Literals["b"], Literals["c"]>>), ChoiceOf(<<Literals["b"], Literals["c"], Literals["a"]>>)}
Unions == {ChoiceOf(<<Number, Text>>), ChoiceOf(<<Number, Text, Literals["d"]>>)}
Arrays == {ArrayOf(Number, "*"), ArrayOf(Number, "+"), ArrayOf(Enum, "*"), ArrayOf(Other, "+")}
Pair(t) == [is |-> "tuple", slots |-> <<[type |-> Text, occurrence |-> Absent],
                                        [type |-> t, occurrence |-> Absent]>>]
Map == [is |-> "map", key |-> Text, value |-> Enum, occurrence |-> "*"]
Pairs == {Pair(Other), Pair(Number)}

(* The arms of a union in another order, and an enum with an arm that is no  *)
(* literal.                                                                  *)
Swapped == ChoiceOf(<<Text, Number>>)
Opened == ChoiceOf(<<Literals["a"], Literals["b"], Text>>)

MCTypeExpressions ==
  {Number, Text, Other, Map, Swapped, Opened} \union Pairs \union Unions \union Enums \union Arrays
    \union {Literals[l] : l \in DOMAIN Literals}

Field(t, occurrence, bounds) ==
  [type |-> t, occurrence |-> occurrence, constraints |-> bounds,
   visibility |-> Absent, dependsOn |-> {}]
AtLeast(n) == [bound |-> "MinValue", value |-> n]
Plain(t) == Field(t, Absent, {})

Fields ==
  {Plain(t) : t \in {Text, Other, Map} \union Pairs \union Unions \union Enums \union Arrays}
    \union {Field(Number, occurrence, {AtLeast(n)}) : occurrence \in {Absent, "?", "+"}, n \in 0 .. 1}
    \union {[Plain(Text) EXCEPT !.visibility = v] : v \in {"bidirectional", "send-only"}}
    \union {[Plain(Text) EXCEPT !.dependsOn = {"g"}],
            Field(Text, Absent, {[bound |-> "Custom", value |-> 0]})}

Message(field, other) ==
  [Msg |-> [is |-> "group", fields |-> [f |-> field]], Other |-> other]

Others == {[is |-> "type", type |-> Number], [is |-> "type", type |-> Enum],
           [is |-> "choice", arms |-> <<Literals["a"], Literals["b"]>>],
           [is |-> "choice", arms |-> <<Number, Text>>]}

Messages ==
  {Message(field, [is |-> "type", type |-> Number]) : field \in Fields}
    \union {Message(Plain(t), other) : t \in {Other, ArrayOf(Other, "+")}, other \in Others}
    \union {[Msg |-> [is |-> "group", fields |-> fields], Other |-> [is |-> "type", type |-> Number]] :
              fields \in {[g |-> Plain(Text)], [f |-> Plain(Text), g |-> Plain(Text)],
                          [f |-> Plain(Text), g |-> Field(Text, "?", {})]}}
    \union {[Msg |-> [is |-> "groups", options |-> [i \in 1 .. n |-> <<>>]]] : n \in 1 .. 2}

Operation(wireId, input, direction) ==
  [wireId |-> wireId, input |-> input, output |-> Text, direction |-> direction]
OneWay(wireId) == Operation(wireId, Number, "unidirectional")
Service(wireId, operations) == [is |-> "service", wireId |-> wireId, operations |-> operations]

(* One operation, two, and perhaps another service. *)
Interfaces ==
  {[S |-> Service(s, [o |-> operation])] :
     s \in {Absent, 0, 1}, operation \in {OneWay(id) : id \in {Absent, Malformed, 0, 1}}
       \union {Operation(0, ChoiceOf(<<Number, Text>>), "unidirectional"), Operation(0, Number, "bidirectional")}}
    \union {[S |-> Service(s, [o |-> OneWay(i), p |-> OneWay(j)])] :
              s \in {Absent, 1}, i, j \in {Absent, 0, 1}}
    \union {[S |-> Service(1, [o |-> OneWay(0)]), T |-> Service(t, [q |-> OneWay(i)])] :
              t \in 1 .. 2, i \in {Absent, 0, 1}}

(* An interface may also have no rules. *)
NoRules == [r \in {} |-> Absent]

MCSpecs == Messages \union Interfaces \union {NoRules}

(* Changes of choices that shift what is on the wire. *)
MCReorderedSpecs ==
  {Message(Plain(t), [is |-> "type", type |-> Number]) : t \in Unions \union {Swapped, Opened} \union Enums}
=============================================================================
