---------------------- MODULE MCCertificationRegistry ----------------------
(***************************************************************************)
(* Three runs, two of which share an ownership marker.                     *)
(***************************************************************************)
EXTENDS CertificationRegistry

CONSTANTS a, b, c, shared, other

MCRuns == {a, b, c}
MCMarkers == {shared, other}
MCMarker == [r \in {a, b, c} |-> IF r = c THEN other ELSE shared]
=============================================================================
