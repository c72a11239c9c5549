CONSTANTS
  w1 = w1
  w2 = w2
  w3 = w3
  old = old
  new = new
  Workers = {w1, w2, w3}
  Hashes = {old, new}
  HashOf <- MCHashOf
  MaxRetries = 2
  MaxErrors = 2
SPECIFICATION PublisherSpec
INVARIANTS NeverServesOutdated
PROPERTIES NeverKillsItsOwn
