------------------------------- MODULE MCSidecar -------------------------------
(***************************************************************************)
(* Instances of Sidecar for TLC.                                            *)
(***************************************************************************)
EXTENDS Sidecar

CONSTANTS c1, c2, c3, dA, dB, dX, iA, iB, oA, oB, it1, it2, fP, fQ

\* dA is listed twice: the second entry is the one that counts.
TwoDeployments ==
    <<[deployment |-> dA, owner |-> oB, identity |-> iB],
      [deployment |-> dA, owner |-> oA, identity |-> iA],
      [deployment |-> dB, owner |-> oB, identity |-> iB]>>

Ask(d, o, i, f) ==
    [deployment |-> d, owner |-> o, item |-> i, field |-> f,
     local |-> TRUE, token |-> TRUE, body |-> TRUE, uri |-> TRUE]

\* it1 has no field fQ.
Values == {<<it1, fP>>, <<it2, fP>>, <<it2, fQ>>}

\* Two good requests, and others that are refused by the guard, by the binding
\* of deployments to owners, and by the resolver.
SomeRequests ==
    {Ask(dA, oA, it1, fP), Ask(dB, oB, it2, fQ), Ask(dA, oB, it1, fP),
     [Ask(dA, oA, it1, fP) EXCEPT !.token = FALSE],
     [Ask(dA, oA, it1, fP) EXCEPT !.uri = FALSE]}
===============================================================================
