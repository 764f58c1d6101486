----------------------------- MODULE MCPackages -----------------------------
(* Packages with an agent package that needs the second of two installers, *)
(* and a server package, which is not accepted.                            *)
EXTENDS Packages

Target(component, version, min) ==
  [component |-> component, version |-> version, min |-> min]

SomeTargets ==
  {Target("agent", 1, 2), Target("installer", 1, 1), Target("installer", 2, 1),
   Target("server", 1, 1)}
=============================================================================
