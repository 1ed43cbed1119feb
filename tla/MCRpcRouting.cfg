SPECIFICATION Spec
CONSTANTS
    s1 = s1
    empty = empty
    Services <- MCServices
    Methods <- MCMethods
    EmptyName = empty
    CacheSize = 2
    Hash <- MCHash
INVARIANTS RoutedAsRegistered CacheHoldsRecentRoutes RoutingInv
