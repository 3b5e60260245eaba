------------------------------ MODULE MCIngestor ------------------------------
(***************************************************************************)
(* Small instances of Ingestor: three requests carry one event with one    *)
(* key (a post and its retries), a fourth another event, and a fifth is    *)
(* refused.                                                                *)
(***************************************************************************)
EXTENDS Ingestor

CONSTANTS r1, r2, r3, r4, r5, e1, e2, k1, k2

MCRequests == {r1, r2, r3, r4, r5}

MCEventOf == [r \in MCRequests |-> IF r \in {r1, r2, r3} THEN e1 ELSE e2]

MCKeyOf == [r \in MCRequests |-> IF r \in {r1, r2, r3} THEN k1 ELSE k2]

=============================================================================
