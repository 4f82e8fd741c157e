---------------------------- MODULE MCResourceSet ----------------------------
(* Small instances of ResourceSet: a namespace, a database that waits for it *)
(* and takes its time to go, and an application.                             *)
EXTENDS ResourceSet

Three == {"ns", "db", "app"}
ThreeVersions == {{"ns", "db", "app"}, {"ns", "app"}}
ThreeWaves == [o \in Three |-> CASE o = "ns" -> 0 [] o = "db" -> 1 [] OTHER -> 2]

Two == {"db", "app"}
TwoVersions == {{"db", "app"}, {"app"}}
TwoWaves == [o \in Two |-> IF o = "db" THEN 0 ELSE 1]
=============================================================================
