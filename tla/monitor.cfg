SPECIFICATION FairSpec
CONSTANTS
  Pages = {p1, p2}
  Rates = {fast, slow}
  Nothing = nothing
  MaxQueue = 3
  MaxSamples = 2
PROPERTIES OldRateGoes LabelsAdvance WindowIsFed
