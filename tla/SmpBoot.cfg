CONSTANT NumAPs = 3
SPECIFICATION FairSpec
INVARIANTS OwnStack InitializedMeansUp
 
CHECK_DEADLOCK FALSE
