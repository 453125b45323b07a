----------------------------- MODULE MCNgServer -----------------------------
(***************************************************************************)
(* A program for NgServer: a unary and a streaming method with a context   *)
(* each, one without a context and one without a callback.                 *)
(***************************************************************************)
EXTENDS NgServer, TLC

CONSTANTS unary, streaming, bare, stub, c1, c2

MCMethods == {unary, streaming, bare, stub}
MCContexts == {c1, c2}
MCWithCallback == {unary, streaming, bare}
MCStreaming == {streaming}
MCContextOf == [m \in MCMethods |-> CASE m = unary     -> c1
                                      [] m = streaming -> c2
                                      [] OTHER         -> NoContext]
MCMethodOf == [c \in MCContexts |-> IF c = c1 THEN unary ELSE streaming]

\* Ids are only compared with each other; no run checks liveness with this.
IdSymmetry == Permutations(Ids)
=============================================================================
