SPECIFICATION Spec
CONSTANTS
  CategoryOrder <- MCCategoryOrder
  Tests <- MCTests
INVARIANTS CompletedAccounts SelectionHonoured
PROPERTIES ImplementsProtocol
CHECK_DEADLOCK FALSE
