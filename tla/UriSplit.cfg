\* Forms of up to two parameters and all strings of up to four characters that
\* begin with "/", the same of up to three behind "/?z=".
SPECIFICATION UriSpec
CONSTANTS
  Forms <- MCForms
  Strings <- MCStrings
  MaxLen = 4
INVARIANTS
  FormRead
  EndsInside
  RefusedForCause
CHECK_DEADLOCK FALSE
