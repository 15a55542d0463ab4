CONSTANTS
  MaxLen <- MCMaxLen
SPECIFICATION Spec
INVARIANT NoSgrDelivered
\* A line ends after MaxLen characters.
CHECK_DEADLOCK FALSE
