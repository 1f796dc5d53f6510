----------------------------- MODULE MCUsageScan -----------------------------
(***************************************************************************)
(* UsageScan for TLC: two Python packages that share a namespace module,   *)
(* an Elixir package whose module needs no import, and a PURL that cannot  *)
(* be resolved; targets of two files that both name and use them.          *)
(***************************************************************************)
EXTENDS UsageScan

MCDeps == {"py1", "py2", "hex", "bad"}

MCEcosystem == [py1 |-> "pypi", py2 |-> "pypi", hex |-> "hex", bad |-> "pypi"]

\* "ns" is a namespace module of both Python packages.
MCProvides ==
  [py1 |-> {<<"ns">>, <<"m">>}, py2 |-> {<<"ns">>}, hex |-> {<<"E">>}, bad |-> {}]

MCActivations == [py1 |-> <<<<"x">>, <<"x">>>>, py2 |-> <<<<"x">>>>, hex |-> <<<<"E">>>>, bad |-> <<>>]

MCDefaultAlias == [mod \in {<<"ns">>, <<"m">>, <<"E">>, <<"other">>} |->
                     IF mod = <<"E">> THEN "E" ELSE "none"]

MCRequests == { <<"py1">>, <<"py1", "bad", "py2", "py1", "hex">>, <<"hex", "py2">> }

Named(module, name, alias, line) ==
  [kind |-> "named", module |-> module, names |-> <<[name |-> name, alias |-> alias]>>, line |-> line]
Whole(module, alias, line) ==
  [kind |-> "module", module |-> module, names |-> <<[name |-> "none", alias |-> alias]>>, line |-> line]
Effect(module, line) == [kind |-> "effect", module |-> module, names |-> <<>>, line |-> line]

\* Import lists: x by name, modules bound to the same local, a side effect.
ImportLists ==
  { <<>>, <<Named(<<"ns">>, "x", "none", 1)>>, <<Whole(<<"m">>, "l", 1)>>,
    <<Named(<<"ns">>, "x", "l", 1), Whole(<<"m">>, "l", 2)>>,
    <<Whole(<<"m">>, "l", 1), Named(<<"other">>, "y", "l", 2), Effect(<<"ns">>, 2)>>,
    <<Named(<<"E">>, "x", "none", 1), Whole(<<"E">>, "none", 2)>> }

Quoted(line) == [text |-> <<"x">>, line |-> line]
LiteralLists == { <<>>, <<Quoted(1), Quoted(1), Quoted(2)>>, <<[text |-> <<"E">>, line |-> 2]>> }

Ref(receiver, line) == [receiver |-> receiver, member |-> "p", line |-> line]
RefLists == { <<>>, <<Ref("l", 2), Ref("x", 2), Ref("E", 1)>> }

SourceFile(ecosystems, status, imports, literals, refs) ==
  [ecosystems |-> ecosystems, status |-> status, imports |-> imports,
   literals |-> literals, refs |-> refs]

Files ==
  {SourceFile({"pypi"}, s, i, l, r) :
     s \in {"parsed"}, i \in ImportLists, l \in LiteralLists, r \in RefLists}
  \cup {SourceFile({"hex"}, s, i, l, r) :
     s \in {"parsed", "unparsed", "excluded"},
     i \in {<<>>, <<Named(<<"E">>, "x", "none", 1), Whole(<<"E">>, "none", 2)>>},
     l \in LiteralLists, r \in RefLists}

MCTrees == {<<f, g>> : f \in Files, g \in {h \in Files : h.refs # <<>>}}
=============================================================================
