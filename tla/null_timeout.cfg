\* Optional fields that are left out or null.
CONSTANTS
    Requests <- NullFields
SPECIFICATION Spec
INVARIANTS
    SameBehaviour
