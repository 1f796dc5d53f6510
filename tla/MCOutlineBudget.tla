--------------------------- MODULE MCOutlineBudget ---------------------------
(***************************************************************************)
(* OutlineBudget for TLC: a package "a" with its entry point and a module, *)
(* a second package "b", a module at the root and a README.                *)
(***************************************************************************)
EXTENDS OutlineBudget

\* 1 a/__init__.py  2 a/client.py  3 b/options.py  4 docs/conf.py  5 errors.py
\* 6 readme.md  7 tests/helpers.py
MCFiles == 1..7

MCDir == <<<<"a">>, <<"a">>, <<"b">>, <<"docs">>, <<>>, <<>>, <<"tests">>>>

MCModule == <<"a", "client", "options", "conf", "errors", "readme", "helpers">>

Text(bytes, exports, refers) ==
  [status |-> "text", bytes |-> bytes, outlined |-> TRUE,
   exports |-> exports, refers |-> refers]

Skipped == [Text(2, {}, {}) EXCEPT !.status = "skipped"]

\* Short and long files, that export and refer to the names 1, 2 and 3.
MCOutlines ==
  {[f \in MCFiles |-> Skipped]} \cup
  { <<entry, client, options, Text(2, {1, 2}, {}), errors,
      [Text(2, {}, {}) EXCEPT !.outlined = FALSE], Text(2, {1, 2}, {})>> :
      entry \in {Text(b, e, {}) : b \in {2, 5}, e \in {{}, {1}}} \cup {Skipped},
      client \in {Text(b, e, r) : b \in {2, 5}, e \in {{}, {1}},
                                 r \in {{}, {2}, {1, 2}}},
      options \in {Text(b, {2}, r) : b \in {2, 5}, r \in {{1}, {3}}} \cup {Skipped},
      errors \in {Text(b, e, {1}) : b \in {2, 5}, e \in {{2}, {2, 3}}} }
=============================================================================
