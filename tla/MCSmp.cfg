\* Three APs, the code's five polls, and APs that answer within the five
\* 500 us intervals spec 4.10 allows.
CONSTANTS
    a1 = a1
    a2 = a2
    a3 = a3
    APs <- MCAPs
    MaxTries = 5
    Deadline = 5
SPECIFICATION Spec
INVARIANT RunningIsRegistered
