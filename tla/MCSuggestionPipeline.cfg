CONSTANTS
  Texts = {nothing, t1}
  NoText = nothing
  None = None
  ShowPrediction = TRUE
  ShowCorrection = TRUE
  MaxAnswers = 1
SPECIFICATION Spec
INVARIANT LookupsDoNotPileUp
 
CONSTRAINT Focus
