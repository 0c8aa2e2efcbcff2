-------------------------- MODULE MCImportResolver --------------------------
(***************************************************************************)
(* Disks for model checking ImportResolver.                                *)
(***************************************************************************)
EXTENDS ImportResolver

Include(file, alias) == [kind |-> "include", file |-> file, alias |-> alias]
From(file, items)    == [kind |-> "from", file |-> file, items |-> items]

Rule(name, kind, arms) == [name |-> <<name>>, kind |-> kind, arms |-> arms]

Text(rules, imports) == [parses |-> TRUE, rules |-> rules, imports |-> imports]
Unparsable == [parses |-> FALSE, rules |-> <<>>, imports |-> <<>>]

-----------------------------------------------------------------------------
(* Mesh: three files that include each other in any way, rings and paths   *)
(* that lead nowhere included; one of them may not parse.                  *)
MeshFiles == {"a", "b", "c"}

MeshTexts(f) ==
  {Text(<<Rule(f, "def", {f})>>, imports) :
     imports \in SeqOf({Include(g, "") : g \in MeshFiles}, 2)}

MeshDisks ==
  {"a" :> ta @@ "b" :> tb @@ "c" :> tc :
     ta \in MeshTexts("a"), tb \in MeshTexts("b"),
     tc \in MeshTexts("c") \union
            {Unparsable, Text(<<>>, <<Include("nowhere", "")>>),
             Text(<<>>, <<From("a", << <<"x">> >>)>>)}}

-----------------------------------------------------------------------------
(* Diamonds: every file may include those after it, as it is or under an   *)
(* alias, or take its one rule; every rule name is defined once.           *)
TreeFiles == {"entry", "left", "right", "common"}

Ways(f) == {Include(f, ""), Include(f, "ns"), From(f, << <<f>> >>)}

DiamondTexts(f, imports) == {Text(<<Rule(f, "def", {f})>>, i) : i \in imports}

DiamondDisks ==
  {"entry" :> te @@ "left" :> tl @@ "right" :> tr @@ "common" :> tc :
     te \in DiamondTexts("entry",
              SeqOf(Ways("left") \union Ways("right") \union Ways("common"), 2)),
     tl \in DiamondTexts("left", SeqOf(Ways("right") \union Ways("common"), 1)),
     tr \in DiamondTexts("right", SeqOf(Ways("common"), 1)),
     tc \in DiamondTexts("common", {<<>>})}

-----------------------------------------------------------------------------
(* Choices: four files about one type T, one of which may have its "="     *)
(* rule, while the others may extend it.                                   *)
About(f, kind) == IF kind = "none" THEN <<>> ELSE <<Rule("T", kind, {f})>>

ChoiceDisks(Kinds) ==
  {"entry" :> Text(About("entry", k["entry"]), ie)
     @@ "left" :> Text(About("left", k["left"]), il)
     @@ "right" :> Text(About("right", k["right"]), ir)
     @@ "common" :> Text(About("common", k["common"]), <<>>) :
     k \in Kinds,
     ie \in SeqOf({Include(g, "") : g \in {"left", "right", "common"}}, 2),
     il \in SeqOf({Include(g, "") : g \in {"right", "common"}}, 2),
     ir \in SeqOf({Include("common", "")}, 1)}

OneBase ==
  ChoiceDisks({k \in [TreeFiles -> {"none", "def", "ext"}] :
                 Cardinality({f \in TreeFiles : k[f] = "def"}) <= 1})

TreeDisks == DiamondDisks \union OneBase
=============================================================================
