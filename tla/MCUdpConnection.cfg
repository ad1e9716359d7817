SPECIFICATION Spec
INVARIANTS
    ReceivingIsArmed
PROPERTIES
    SilentStaysSilent
