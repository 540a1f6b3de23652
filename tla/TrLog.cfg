SPECIFICATION Spec
CONSTANTS
    Writers = {w1, w2}
    NoWriter = NoWriter
    BatchSize = 2
    MaxId = 3
    Faults = {"put", "commit", "apply", "persist", "rowdata"}
INVARIANTS
    TypeOK
    
    
    
    
PROPERTIES
    AppliedOncePerRun
    
