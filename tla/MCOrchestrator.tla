--------------------------- MODULE MCOrchestrator ---------------------------
(* Instances of Orchestrator for TLC.                                       *)
EXTENDS Orchestrator

Opinion(agent, symbols, direction, confidence, horizon) ==
    [agent |-> agent, symbols |-> symbols, direction |-> direction,
     confidence |-> confidence, horizon |-> horizon]

\* A buying model, doubtful news, and a selling regime for both symbols.
MixedSignals ==
    [predict   |-> {Opinion("gbm", <<"x">>, 10, 10, 1)},
     sentiment |-> {Opinion("news", <<"x">>, -5, 2, 0)},
     regime    |-> {Opinion("macro", <<"x", "y">>, -10, 5, 4)}]
=============================================================================
