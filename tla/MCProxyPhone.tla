---------------------------- MODULE MCProxyPhone ----------------------------
(* ProxyPhone for TLC. *)
EXTENDS ProxyPhone

\* Only the build "a" provides the runtime j1 needs, and only it is
\* rebuilt; no build provides the one of j2.
OneEach == [b \in Paths |-> [c \in 1 .. MaxBuild[b] |-> IF b = "a" THEN {"r"} ELSE {}]]
RebuiltA == [b \in Paths |-> IF b = "a" THEN 2 ELSE 1]
OneRuntime == [j \in Jobs |-> IF j = "j2" THEN "none" ELSE "r"]

=============================================================================
