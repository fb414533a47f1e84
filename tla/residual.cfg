SPECIFICATION Spec
CONSTANT Inputs <- AllBlocks
INVARIANTS BinsAgree CoeffsReadBack BudgetKept
CHECK_DEADLOCK FALSE
