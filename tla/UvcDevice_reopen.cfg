SPECIFICATION PatientSpec
CONSTANT
    Callers <- JavaAndPreview
PROPERTY
    CloseEndsStream
CHECK_DEADLOCK FALSE
