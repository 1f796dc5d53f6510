----------------------------- MODULE MCCommands -----------------------------
(* Two commands in a row on targets whose names differ only in case,       *)
(* punctuation or path, dependencies of which one name extends the other,  *)
(* and test runs that pass, fail, count nothing, or print a summary that   *)
(* their exit status contradicts.                                          *)
EXTENDS Commands

MCFold ==
  [v \in {<<"@acme", "app">>, <<"Acme-App">>, <<"acme-app">>, <<"acme-app", "web">>,
          <<"src">>, <<"y">>} |->
     CASE v \in {<<"@acme", "app">>, <<"Acme-App">>} -> <<"acme-app">>
       [] v = <<"acme-app", "web">> -> <<"acme-app-web">>
       [] OTHER -> v]

Ws == [NoDep EXCEPT !.name = <<"ws">>, !.purl = <<"pkg", "npm", "ws">>, !.eco = "npm",
                    !.direct = TRUE, !.version = ">=1", !.minimum = "1"]
WsTools == [Ws EXCEPT !.name = <<"ws", "tools">>, !.purl = <<"pkg", "npm", "ws", "tools">>,
                      !.minimum = ""]
Dev == [Ws EXCEPT !.name = <<"lint">>, !.purl = <<"pkg", "npm", "lint">>, !.scope = "dev"]
Gem == [Ws EXCEPT !.name = <<"rack">>, !.purl = <<"pkg", "gem", "rack">>, !.eco = "gem"]
Outside == [Ws EXCEPT !.name = <<"..", "ws">>, !.purl = <<"pkg", "npm", "..", "ws">>]

Target(names, origin, https, root, rel, deps) ==
  [packages |-> names, origin |-> origin, https |-> https, root |-> root, dir |-> "src",
   rel |-> rel, deps |-> deps]

Scoped == Target({<<"@acme", "app">>}, "y", <<>>, "x", <<>>, <<Ws, WsTools, Dev>>)
Plain == Target({<<"acme-app">>}, "x", <<>>, "x", <<>>, <<Ws>>)
Nested == Target({<<"acme-app">>}, "", <<>>, "x", <<"web">>, <<Ws>>)
Remote == Target({}, "Acme-App", <<"y">>, "x", <<>>, <<Ws>>)
Rooted == Target({<<"Acme-App">>}, "", <<>>, "x", <<>>, <<Ws>>)
Below == Target({<<"acme-app">>}, "", <<>>, "x", <<"Acme-App">>, <<Ws>>)
Renamed == Target({<<"x">>, <<"y">>}, "acme-app", <<"y">>, "x", <<>>, <<Ws>>)
Mirror == Target({<<"x">>, <<"y">>}, "", <<"acme-app", "y">>, "x", <<"web">>, <<Ws>>)
Local == Target({}, "", <<>>, "", <<>>, <<Ws>>)
NoUse == Target({<<"y">>}, "y", <<>>, "y", <<>>, <<>>)
Mixed == Target({<<"y">>}, "", <<>>, "y", <<>>, <<Gem, Outside>>)

Doc(ok, overrides) ==
  [settings |-> [s \in Settings |-> IF s \in ok THEN "ok" ELSE "unset"], unknown |-> FALSE,
   documents |-> 1, depsOK |-> TRUE, overrides |-> overrides]

File(doc) == [kind |-> "document", doc |-> doc]
Absent == [kind |-> "absent", doc |-> EmptyDoc]

Plainly == [kind |-> "gen", target |-> Scoped, deps |-> <<>>, usable |-> TRUE, flags |-> {},
            explicit |-> FALSE, file |-> Absent, run |-> TRUE, verify |-> FALSE,
            inside |-> {"default"},
            names |-> [s \in {"flag", "config"} |->
                         [name |-> [name |-> <<s>>, hashes |-> <<>>], safe |-> TRUE]]]

Skipping == ((<<"ws">> :> [baseline |-> "2", skip |-> "yes"]) @@
             (<<"pkg", "npm", "ws">> :> [baseline |-> "", skip |-> "no"]) @@
             (<<"ws", "tools">> :> [baseline |-> "1", skip |-> "yes"]))

MCGen ==
  {Plainly, [Plainly EXCEPT !.run = FALSE, !.target = Local],
   [Plainly EXCEPT !.verify = TRUE, !.deps = <<<<"ws">>>>, !.target = Nested],
   [Plainly EXCEPT !.deps = <<<<"pkg", "npm", "ws">>, <<"unlisted">>>>],
   [Plainly EXCEPT !.target = Mixed, !.deps = <<<<"..", "ws">>, <<"rack">>>>, !.verify = TRUE],
   [Plainly EXCEPT !.target = NoUse, !.deps = <<<<"ws">>>>],
   [Plainly EXCEPT !.usable = FALSE],
   [Plainly EXCEPT !.explicit = TRUE],
   [Plainly EXCEPT !.file = [Absent EXCEPT !.kind = "unreadable"]],
   [Plainly EXCEPT !.file = File([Doc({}, <<>>) EXCEPT !.settings["work"] = "blank"])],
   [Plainly EXCEPT !.file = File(Doc({"backend", "target_name"}, Skipping))],
   [Plainly EXCEPT !.file = File([Doc({}, <<>>) EXCEPT !.settings["work"] = "foreign"]),
                   !.target = Mirror],
   [Plainly EXCEPT !.file = File([Doc({}, <<>>) EXCEPT !.settings["work"] = "foreign"]),
                   !.explicit = TRUE, !.target = Mirror],
   [Plainly EXCEPT !.file = File(Doc({"out"}, <<>>))],
   [Plainly EXCEPT !.file = File(Doc({"out", "target_name"}, Skipping)), !.explicit = TRUE,
                   !.flags = {"target_name"}, !.deps = <<<<"ws", "tools">>>>]}

MCCorpus ==
  {[kind |-> "corpus", upstream |-> <<"pkg", "npm", "ws">>, run |-> TRUE, verify |-> FALSE,
    dependents |-> ts] : ts \in {<<>>, <<Scoped, Plain, Remote>>, <<Remote, Rooted>>,
                                 <<Plain, Renamed, NoUse>>}}

(* Two targets that write to one --out. *)
MCConfusable == {[Plainly EXCEPT !.target = t, !.flags = {"out"}] : t \in {Rooted, Below}}

Check(specs) == [kind |-> "check", target |-> Scoped, root |-> "default", specs |-> specs]

At1(name, version) == [name |-> name, version |-> version]

MCCheck ==
  {Check(<<>>), Check(<<At1(<<"ws">>, "")>>), Check(<<At1(<<"pkg", "npm", "ws">>, "2")>>),
   Check(<<At1(<<"ws">>, "2"), At1(<<"ws", "tools">>, "")>>),
   Check(<<At1(<<"ws", "tools">>, "2"), At1(<<"ws">>, "")>>)}

Output(node, pytest, go, clean) ==
  [node |-> node, pytest |-> pytest, go |-> go, clean |-> clean]

None == <<0, 0>>

MCOutputs == {Output(<<1, 0>>, <<0, 1>>, None, TRUE), Output(None, <<1, 1>>, None, FALSE),
              Output(None, None, <<1, 0>>, FALSE), Output(None, None, None, TRUE)}

MCProducts == {{}, {"a.test.js", "fixture.json"}}
=============================================================================
