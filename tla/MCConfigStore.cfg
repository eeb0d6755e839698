\* Three edits of a watched file: an overtaken or bad one can lie between two
\* valid ones, and Close can come at any point.  The daemon may stop for good.
CONSTANTS
    Level = {info, debug, padded}
    Unparsable = {padded}
    Rest = {r1, r2}
    Bad = Bad
    EarlyEdits = FALSE
    MaxEdits = 3
CHECK_DEADLOCK FALSE
SPECIFICATION CSpec
PROPERTIES EditsTakeEffect CloseQuiesces CloseReturns
