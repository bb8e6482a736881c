SPECIFICATION Spec
INVARIANTS SpiDisplayInv
PROPERTIES BlitIsExclusive FlushEnds CloseEnds
CHECK_DEADLOCK FALSE
