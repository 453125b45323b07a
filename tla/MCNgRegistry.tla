---------------------------- MODULE MCNgRegistry ----------------------------
(***************************************************************************)
(* Instances of NgRegistry.  Two services share a name, and so do two      *)
(* methods; one of these has a hash and can be added to a service of       *)
(* another name too.                                                       *)
(***************************************************************************)
EXTENDS NgRegistry

CONSTANTS h1, h2, s1, s2, s3, m1, m2, m3, c1, c2

MCNames == {"files", "log", "list"}
MCServiceName == [s \in {s1, s2, s3} |-> IF s = s3 THEN "log" ELSE "files"]
MCMethodName == [m \in {m1, m2, m3} |-> IF m = m3 THEN "log" ELSE "list"]
MCHashes == {0, 3, 7}
MCNameHash == [m \in {m1, m2, m3} |-> IF m = m2 THEN 7 ELSE 0]

\* Every method has a context of its own, as the generator writes it.
OwnContext == {<<m1, c1>>, <<m2, c2>>}

\* Two services may be registered with a second handle and a method be added
\* to a second service: the interface allows it.
TwoHandles == {<<h1, s1>>, <<h1, s2>>, <<h1, s3>>, <<h2, s1>>, <<h2, s2>>}
TwoServices == {<<s1, m1>>, <<s1, m2>>, <<s2, m3>>, <<s2, m1>>, <<s3, m2>>}
=============================================================================
