--------------------------- MODULE MCConfigIssues ---------------------------
(* Instances of ConfigIssues for TLC: s reads the state of an entity and   *)
(* has a switch, t has a port and a template that reads both entities or,  *)
(* on its other branch, only one of them.                                  *)
EXTENDS ConfigIssues

CONSTANTS s, t, e, f

Result(es, unknown) == [entities |-> es, unknown |-> unknown]
MCSources == s :> {StateOf(e)}
          @@ t :> {{Result({e, f}, TRUE), Result({f}, FALSE)}}
MCSwitchOf == s :> f
=============================================================================
