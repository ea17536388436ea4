SPECIFICATION Spec
CONSTANTS
    Users = {u1}
    Io = io
    None = None
    MethodCalls <- MCMethodCalls
    Signals <- MCSignals
    Rules <- MCRules
    RuleOf <- MCRuleOf
    MaxMessages = 2
    MaxRequests = 4
CHECK_DEADLOCK FALSE
INVARIANT TypeOK
INVARIANT RunningIsRegistered
INVARIANT RulesKnownToBus
INVARIANT EachMatchOnce
INVARIANT QuietAfterDestructor
PROPERTY OperationsEnd
