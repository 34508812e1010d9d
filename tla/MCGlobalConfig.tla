--------------------------- MODULE MCGlobalConfig ---------------------------
(***************************************************************************)
(* An interactive command beside `lade user`; `lade status` beside a hook; *)
(* two hooks beside `lade user`; and a hook with one who sets the user and *)
(* one who resets it.  The first process finds an outdated tool.           *)
(***************************************************************************)
EXTENDS GlobalConfig

CONSTANTS a, b, c

MCProcs == {a, b, c}
MCOutdated == {a}
Plan(x, y, z) == [p \in MCProcs |-> IF p = a THEN x ELSE IF p = b THEN y ELSE z]
MCPlans ==
  {Plan("inject", "user", "none"), Plan("status", "set", "none"),
   Plan("set", "set", "user"), Plan("set", "user", "reset")}
=============================================================================
