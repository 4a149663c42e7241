------------------------------- MODULE MCMinorGC ------------------------------
(* An instance of MinorGC: two roots, and a runtime that allocates blocks of *)
(* two fields in the young area or in the major heap.                        *)
EXTENDS MinorGC

MCRoots == <<-1, -2>>
=============================================================================
