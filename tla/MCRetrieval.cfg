CONSTANTS
  None = None
  question = question
  hyde = hyde
  ghana = ghana
  africa = africa
  world = world
  g1 = g1
  g2 = g2
  g3 = g3
  a1 = a1
  w1 = w1
  Query = {question, hyde}
  Asked = question
  Doc = {ghana, africa, world}
  Chunk = {g1, g2, g3, a1, w1}
  DocOf <- MCDocOf
  Old = {world}
  CountryOf <- MCCountryOf
  RegionOf <- MCRegionOf
  Setting <- MCSetting
  Measure = {0, 1}
  Scale = 1
  Relevance = {1, 2}
  MaxQueries = 4
  Pool = 3
  TopK = 2
SPECIFICATION Spec
CHECK_DEADLOCK FALSE
INVARIANTS
  BestAreCited
PROPERTIES
  BestMatchesKept
