---------------------------- MODULE MCProviders -----------------------------
(***************************************************************************)
(* Bindings bound to any of: references of two accounts of 1Password, two  *)
(* of them to one label in different sections, one refused for its '+';    *)
(* two spellings of a url of Vault, and one without a variable; variables  *)
(* of one Doppler environment, two urls for one of them; two folders of    *)
(* one Infisical project; a Passbolt url without its resource; a variable  *)
(* of a file; scripts; a literal.                                          *)
(***************************************************************************)
EXTENDS Providers

Src(scheme, url, place, path, var, spelling, valid) ==
  [scheme |-> scheme, url |-> url, place |-> place, path |-> path, var |-> var,
   spelling |-> spelling, valid |-> valid,
   lacks |-> CASE url = "cut" -> "part" [] var = "" /\ url # "cut" -> "variable"
               [] OTHER -> "nothing"]

MCSources ==
  {Src("op", "o1", "acme", "", "a", 1, TRUE), Src("op", "o2", "acme", "", "a", 1, TRUE),
   Src("op", "o3", "home", "", "c+d", 1, FALSE),
   Src("vault", "v1", "kv", "", "a", 1, TRUE), Src("vault", "v1", "kv", "", "a", 2, TRUE),
   Src("vault", "v2", "kv", "", "", 1, TRUE),
   Src("doppler", "d1", "dev", "", "a", 1, TRUE), Src("doppler", "d2", "dev", "", "a", 1, TRUE),
   Src("infisical", "i1", "app", "/x", "a", 1, TRUE), Src("infisical", "i2", "app", "/y", "a", 1, TRUE),
   Src("passbolt", "cut", "box", "", "", 1, TRUE),
   Src("file", "f1", "a.json", "", "a", 1, TRUE),
   Src("sh", "s1", "", "one", "out", 1, TRUE), Src("sh", "s2", "", "two", "out", 1, TRUE),
   Src("none", "r1", "", "", "text", 1, TRUE)}
=============================================================================
