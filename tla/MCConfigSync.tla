---------------------------- MODULE MCConfigSync ----------------------------
(* Instance of ConfigSync for TLC.                                         *)
EXTENDS ConfigSync, TLC

CONSTANTS p1, p2, p3, k1, k2

\* Two good releases, one of them signed with a foreign key as well, and one
\* that the edge cannot read.
MCReleases == {<<p1, k1>>, <<p2, k1>>, <<p2, k2>>, <<p3, k1>>}

=============================================================================
