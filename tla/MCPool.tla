------------------------------- MODULE MCPool -------------------------------
(* Small instances of Pool for TLC. *)
EXTENDS Pool

\* Action constraint.  What the pump does between submitting SQEs and draining
\* CQEs neither reads nor writes ops and cq, so a kernel step may as well be
\* taken earlier or later: only those between two calls, before a drain and
\* before the slot of a failed connect is retired (its ring is unregistered) are
\* explored.
KernelWhenRead ==
    (ops # ops' \/ cq # cq') /\ UNCHANGED <<pumpVars, slotVars>>
        => phase \in {"idle", "wait", "failed"}
=============================================================================
