SPECIFICATION Spec
CONSTANTS
    browser = browser
    store = store
    api = api
    h1 = h1
    h2 = h2
    h3 = h3
    Apps = {browser, store, api}
    Sni = {h1, h2, h3}
    Entries <- MCEntries
    Browser = browser
    Max = 2
    Window = 2
    MinTtl = 2
    MaxTtl = 2
    None = None
    MaxTime = 4
INVARIANTS WindowLimit ForcedFairly DecoyRate
CHECK_DEADLOCK FALSE
