------------------------ MODULE MCSuggestionPipeline ------------------------
EXTENDS SuggestionPipeline, FiniteSets

\* The search goes on from a state with one trouble or a second list that is
\* due, and with few operations and answers on their way besides.
Focus ==
  /\ Cardinality(troubles) + Cardinality(due) <= 2
  /\ Cardinality(troubles) + Cardinality(due) + Len(queue) + Len(answers) <= 3
=============================================================================
