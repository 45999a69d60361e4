SPECIFICATION ScanSpec
CONSTANT Pages <- MCPages
CHECK_DEADLOCK FALSE
INVARIANT EvidenceFailsIndependently
