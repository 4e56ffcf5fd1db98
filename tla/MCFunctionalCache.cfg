SPECIFICATION Spec
CONSTANTS
  Rows = {0, 1, 2, 4, 5}
  m_sets = 2
  m_ways = 3
  BlockSize = 2
  partial_lookup_factor = 2
  Wrap = 65536
INVARIANT VictimFound
INVARIANT OneWayEach
INVARIANT HitSurvives
PROPERTY ImplementsRowCache
