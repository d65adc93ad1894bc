SPECIFICATION FairSpec
CONSTANTS
    Tasks = {t1, t2}
PROPERTIES
    ListSurvives
CHECK_DEADLOCK FALSE
