\* Every code from 0 to 600 is looked up in the table of the code.
SPECIFICATION Spec
CONSTANTS
  rescode <- MCrescode
  Codes <- MCCodes
INVARIANTS
  TypeOK
  LookupRight
CHECK_DEADLOCK FALSE
