SPECIFICATION Spec
INVARIANTS
    ExprPreserved
    ConfigKept
    KconfigRead
    FexcExact
    CodesRight
