---------------------------- MODULE MCJarManager -----------------------------
(* Instances of JarManager: requests of different sessions, and requests    *)
(* that share one.                                                          *)
EXTENDS JarManager

CONSTANTS r1, r2, k1, k2, lasting, transient

Apart == [r \in Requests |-> IF r = r1 THEN k1 ELSE k2]
Together == [r \in Requests |-> k1]
=============================================================================
