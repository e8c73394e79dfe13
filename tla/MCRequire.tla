----------------------------- MODULE MCRequire -----------------------------
(* Require with two modules, two tables for package.loaded and a search     *)
(* list that begins with a searcher written in Lua, which may cut the list  *)
(* down or exchange one of the searchers behind it.                         *)
EXTENDS Require

MCSearchers ==
  {<<"custom", "preload", "path">>, <<"custom", "allinone", "path">>, <<"path">>}
=============================================================================
