----------------------------- MODULE MCEcuTwin ------------------------------
(***************************************************************************)
(* Two methods called on the twins of the DME and the EGS: the fault       *)
(* memory read, cleared and read again, each of the other methods next to  *)
(* a clearing, and the two twins side by side.                             *)
(***************************************************************************)
EXTENDS EcuTwin

CONSTANTS r1, r2

On(e, m) == [ecu |-> e, job |-> m]

Two(a, b) == [r \in {r1, r2} |-> IF r = r1 THEN a ELSE b]

PlansTried ==
  { Two(On("DME", "readFaultMemory"), On("DME", m)) :
      m \in {"clearFaultMemory", "readFaultShadowMemory", "readFaultMemory"} }
  \cup { Two(On("DME", "clearFaultMemory"), On("DME", m)) :
           m \in {"readIdentification", "readCoding", "resetControlUnit",
                  "terminateDiagnostic"} }
  \cup { Two(On("EGS", "clearFaultMemory"), On("DME", "readFaultMemory")) }

=============================================================================
