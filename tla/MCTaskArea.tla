----------------------------- MODULE MCTaskArea -----------------------------
\* Three units: 3 depends on 1, 2 is delivered after 1, and 2 and 3 write the
\* same paths.
EXTENDS TaskArea

MCUnits == 1..3
MCDependsOn == [u \in MCUnits |-> IF u = 3 THEN {1} ELSE {}]
MCDeliveryAfter == [u \in MCUnits |-> IF u = 2 THEN {1} ELSE {}]
MCOverlaps == {<<2, 3>>, <<3, 2>>}
MCReviewed == {2}
=============================================================================
