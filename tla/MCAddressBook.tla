--------------------------- MODULE MCAddressBook ---------------------------
(***************************************************************************)
(* Instances of AddressBook for TLC.                                       *)
(***************************************************************************)
EXTENDS AddressBookProperties, TLC

CONSTANTS alice, p1, d1, o1, c1, s1, i1, i2

OneNym == {alice}
OneKey == {p1}
OneDesc == {d1}
OneOutpoint == {o1}
OneCall == {c1}
OneSwap == {s1}
TwoInvoices == {i1, i2}
=============================================================================
