SPECIFICATION CoverFair
CONSTANTS
    HeaderAgrees = FALSE
    AdBudget <- Breaks
\* The breaks come to an end.
CHECK_DEADLOCK FALSE
PROPERTY
    BreakIsCovered
