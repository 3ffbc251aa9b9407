----------------------------- MODULE MCFailure -----------------------------
(* One policy with a circuit over two operations, and one without over the *)
(* first.  Three requests of the first operation, or two and one of the    *)
(* second.                                                                 *)
EXTENDS Failure, TLC

CONSTANTS r1, r2, r3, op1, op2

MCPolicies ==
  << [on |-> {op1, op2}, circuit |-> [after |-> 2, openFor |-> 1, within |-> 1]],
     [on |-> {op1}, circuit |-> NoCircuit] >>

\* The first two requests are of the same operation in every workload.
MCSymmetry == Permutations({r1, r2})

MCWorkloads == { [r \in Requests |-> op1],
                 [r \in Requests |-> IF r = r3 THEN op2 ELSE op1] }
=============================================================================
