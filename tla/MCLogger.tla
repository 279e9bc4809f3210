------------------------------ MODULE MCLogger ------------------------------
EXTENDS Logger

CONSTANTS r1, r2, r3

MCRecords == {r1, r2, r3}
MCLevel   == [r \in MCRecords |-> IF r = r1 THEN 0 ELSE 1]
=============================================================================
