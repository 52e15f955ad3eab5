---------------------------- MODULE MCGovernance ----------------------------
(* Small instances of Governance for TLC.                                  *)
EXTENDS Governance, TLC

CONSTANTS ann, bob, shop, crm, east, west, orders, invoices

TwoSources == <<crm, shop>>
OneSource == <<shop>>
SameKind == [path \in Places |-> "sqlite"]
InShop == [c \in Candidates |-> shop]

(* On day 1 everything is discovered and sound; on day 2 invoices is not.  *)
ByDay == [day \in Contents |-> IF day = 1 THEN Candidates ELSE Candidates \ {invoices}]
Onwards == {<<1, 2>>}

ShopInEast == [s \in Sources |-> IF s = shop THEN east ELSE None]
AllDayOne == [path \in Places |-> 1]
ShopModel == [entities |-> {shop}, accepted |-> {}]

AnyVerb == [p \in Users |-> Commands]
Accepting == [p \in Users |-> {"scan", "accept"}]

UserSymmetry == Permutations(Users)

=============================================================================
