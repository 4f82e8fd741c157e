----------------------------- MODULE MCInfraStack -----------------------------
(* Small instances of InfraStack: a stack that asks for one or two versions  *)
(* of its infrastructure.                                                    *)
EXTENDS InfraStack

OneInput == {"v1"}
TwoInputs == {"v1", "v2"}
=============================================================================
