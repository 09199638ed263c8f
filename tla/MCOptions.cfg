\* The table engine with three contexts, a table with pinyin data and one without;
\* the Hangul engine with two contexts whose clients may lack either callback.
CONSTANTS
  c1 = c1
  c2 = c2
  c3 = c3
  t1 = t1
  t2 = t2
  Contexts <- MCContexts
  Clients <- MCClients
  MaxLive <- MCMaxLive
  Tables <- MCTables
  Pinyin = {t1}
SPECIFICATION Spec
SYMMETRY Interchangeable
INVARIANTS
  AdaptersUpToDate
  NamedTablesAreOpen
  ModeNeedsDelete
PROPERTIES
  IsolationIsInert
