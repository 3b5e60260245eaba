------------------------------ MODULE MCPipeline ------------------------------
(***************************************************************************)
(* Pipeline on the requests of MCIngestor, with any failures, crashes and  *)
(* expiries, but no more than MaxTrouble of them in all.                   *)
(***************************************************************************)
EXTENDS MCIngestor, Pipeline

CONSTANT MaxTrouble

MCEventId == [e \in {e1, e2} |-> e]

Trouble == pgFaults + redisFaults + crashes + expiries + lapses

MCSpec == /\ PipelineInit
          /\ [][PipelineNext /\ Trouble' <= MaxTrouble]_allVars
          /\ WF_allVars(Claim)

=============================================================================
