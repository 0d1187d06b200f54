------------------------------ MODULE MCKernel ------------------------------
(* Small instances of Kernel for TLC. *)
EXTENDS Kernel, Naturals, Sequences

CONSTANTS web, mcp, user, r1, write, gatedRead, gatedWrite, c1, c2, c3, a1, a2, a3

\* One principal behind two ingresses: the same request id names two keys, yet an
\* approval is bound to the principal and can be presented through either.
MCPrincipalOf == [i \in Ingress |-> user]

\* The same gated mutation through both ingresses, a conflicting payload under one of
\* their keys, a gated read, and a mutation without a request id.
SafetyRequests ==
    {[who |-> web, rid |-> r1, op |-> gatedWrite],
     [who |-> mcp, rid |-> r1, op |-> gatedWrite],
     [who |-> web, rid |-> r1, op |-> write],
     [who |-> web, rid |-> None, op |-> gatedRead],
     [who |-> web, rid |-> None, op |-> write]}

\* Calls differ only by name, and so do approval rows: they are numbered in the order in
\* which they arrive and are created.  (A symmetry set would do the same for safety, but
\* is not sound for liveness.)
InTurn(names, S) == \A i \in 2..Len(names) : names[i] \in S => names[i - 1] \in S
Numbered ==
    /\ InTurn(<<c1, c2, c3>>, {c \in Call : pc[c] # "new"})
    /\ InTurn(<<a1, a2, a3>>, {a \in Approval : approvals[a].status # "absent"})

NumberedSpec == Init /\ [][Next /\ Numbered']_vars /\ Fairness
=============================================================================
