-------------------------- MODULE MCRealtimeWorker --------------------------
EXTENDS RealtimeWorker
CONSTANTS m1, m2
MCMatches == {m1, m2}
MCDurable == {m2}
MCPages == {m1}
Short == [m \in MCMatches |-> 1]
Mixed == [m \in MCMatches |-> IF m = m1 THEN 2 ELSE 0]
============================================================================
