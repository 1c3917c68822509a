----------------------------- MODULE MCSniPool -----------------------------
(* For TLC: two classes with entries that share a host, as store and        *)
(* download do, and one without, as api; a host of the pool that is none of *)
(* their candidates.                                                        *)
EXTENDS SniPool

CONSTANTS browser, store, api, h1, h2, h3

MCEntries == {<<browser, h1>>, <<browser, h2>>, <<store, h2>>}
=============================================================================
