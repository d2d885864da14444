\* Requests that differ from an ordinary one in at most one field.
CONSTANTS
    Requests <- OneFieldApart
SPECIFICATION Spec
INVARIANTS
    AcceptedIsSubmitted
    RefusedLeavesNothing
    
