----------------------------- MODULE MCEmulators ------------------------------
(***************************************************************************)
(* Emulators with the deployed rates, 0.5 and 0.2 percent, on an amount of *)
(* nothing and on one whose gateway fee is rounded either way.             *)
(***************************************************************************)
EXTENDS Emulators, TLC

CONSTANTS t1, t2

\* Of the wrong amounts the run takes those next to the right one and the
\* outermost.
NearOrFar(x, y) == y \in {x - 1, x, x + 1, (9 * x) \div 10, (11 * x) \div 10}

TakesNearOrFar ==
    \A s \in Source : held'[s] # NoEvent =>
        NearOrFar(Honest(s, held'[s].tx, 1).amount, held'[s].amount)

MCSpec == Init /\ [][Next /\ TakesNearOrFar]_vars

\* The transactions are told apart by nothing but their messages.
MCSymmetry == Permutations({t1, t2})

=============================================================================
