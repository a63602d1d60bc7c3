CONSTANTS
  Boot = {1, 2}
  MaxGen = 3
  NoFile = NoFile
SPECIFICATION Spec
INVARIANTS TypeOK AcceptanceIsSound LiveIncarnationServed DurableFencing KnownHealthIsNewest
PROPERTIES ReconfigurationFences
