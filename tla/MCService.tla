----------------------------- MODULE MCService -----------------------------
(* One connection for TLC: an address of each kind, a listed domain, a name *)
(* under it and a name that only ends like it.                              *)
EXTENDS UdpAssociate

MCV4 == {<<"192.0.2.1">>}
MCV6 == {<<"2001:db8::1">>}
MCNames == {<<"online", "bank">>, <<"shop">>}
MCSensitive == {<<"bank">>}
MCAdditional == {<<"corp">>}
MCMaxData == [app |-> 2, far |-> 1]
=============================================================================
