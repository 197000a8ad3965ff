SPECIFICATION Spec
CONSTANTS
 MaxRules=1
 Timeout=2
 MaxAttempt=1
 MaxEvents=3
PROPERTY WatchdogFires
CHECK_DEADLOCK FALSE
