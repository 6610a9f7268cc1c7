SPECIFICATION Spec
CONSTANTS
  b1 = b1
  b2 = b2
  b3 = b3
  b4 = b4
  shed = shed
  field = field
  w1 = w1
  t1 = t1
  nan = nan
  None = None
  Unknown = Unknown
  Blocks <- MCBlocks
  Texts = {shed, field}
  Configured <- MCConfigured
  Lacking <- MCLacking
  Setters = {w1}
  Tasks = {t1}
  Azimuths <- MCAzimuths
  Unfit = {nan}
  Leftovers = {7}
  LeftShutters = {"Open", "Error"}
  Callers = {t1}
INVARIANTS
  TypeOK
  BlocksBelong
  FreedOnce
  RefusesWhatItCannot
PROPERTIES
  QuietReadingsAreCurrent
  EveryDescriptionSent
