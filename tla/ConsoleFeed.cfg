\* One page, its superseded fetches and forced refreshes, and a handler that writes twice.
SPECIFICATION FairSpec
CONSTANTS
  Pages = {p1}
  Handlers = {h1}
  NoOne = NoOne
  MaxWrites = 2
  MaxFaults = 1
INVARIANTS TypeOK InventoryNotStale
PROPERTIES KeepsThePromise PagesConverge
