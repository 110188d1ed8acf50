SPECIFICATION FairSpec
CONSTANTS
  people = people
  products = products
  contacts = contacts
  contacts2 = contacts2
  titles = titles
  all = all
  one = one
  Mappings = {people, products}
  Tables = {contacts, contacts2, titles}
  Published <- MCPublished
  Configured <- MCConfigured
  Incremental = {people}
  Jobs = {all, one}
  Target <- MCTarget
  Erased <- MCErasedFirst
  Kind <- MCKind
  None = None
  MaxTime <- MCMaxTime
  Budgets <- MCBudgetOne
  Uploads = {}
  MaxBatches = 2
CHECK_DEADLOCK FALSE
PROPERTY PullRecovers
