SPECIFICATION Spec
INVARIANTS
    TypeOK
    RedirectionWhole
    NothingLeft
PROPERTY
    StopEnds
