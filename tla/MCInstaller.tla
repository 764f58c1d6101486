----------------------------- MODULE MCInstaller -----------------------------
(* Installer with two installers at hand and two agents, the second of     *)
(* which needs the second installer.                                       *)
EXTENDS Installer, TLC

Package(c, v, m) == [comp |-> c, ver |-> v, min |-> m]

SomePackages ==
  {Package("installer", 1, 1), Package("installer", 2, 1),
   Package("agent", 1, 1), Package("agent", 2, 2)}
=============================================================================
