---------------------------- MODULE MCSessions ----------------------------
EXTENDS Sessions, TLC

\* Two tabs, the first with two calls and the other with one.
CONSTANTS a, b, c, tab1, tab2, home

MCTabOf == (a :> tab1) @@ (b :> tab1) @@ (c :> tab2)
MCKinds == (a :> {"page", "login", "logout", "hydrate"}) @@ (b :> {"page"}) @@ (c :> {"page", "hydrate", "logout"})
OneBrowser == (tab1 :> home) @@ (tab2 :> home)
Renamed == Permutations(Tokens)
=============================================================================
