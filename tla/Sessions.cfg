SPECIFICATION Spec
CONSTANTS
    a = a  b = b  c = c
    tab1 = tab1  tab2 = tab2  home = home
    Browsers = {home}
    Tabs = {tab1, tab2}
    Calls = {a, b, c}
    BrowserOf <- OneBrowser
    TabOf <- MCTabOf
    KindsOf <- MCKinds
    Tokens = {k1, k2, k3, k4}
    Null = Null
INVARIANTS OneRefreshPerTab AlarmsHaveCause LogoutLasts
SYMMETRY Renamed
