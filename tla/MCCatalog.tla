----------------------------- MODULE MCCatalog -----------------------------
(* Catalog for TLC. *)
EXTENDS Catalog

\* Two servers start with different details; a later one does not convert.
TwoServers == [s \in Servers |-> [i \in Ids |-> IF s = Home THEN "v1" ELSE "v2"]]
LastBad == {<<i, "v3">> : i \in Ids}

=============================================================================
