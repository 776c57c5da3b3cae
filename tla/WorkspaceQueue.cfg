SPECIFICATION FairSpec
CONSTANTS
  edit1 = edit1
  edit2 = edit2
  shell = shell
  Calls = {edit1, edit2, shell}
  Commands = {shell}
  Modes <- MCModes
  Effect <- MCEffect
  Signals = {1, 2}
  SignalOf <- MCSignalOf
INVARIANT
  WorkExclusive
PROPERTIES
  Consent
  TakesTurns
  CallsEnd
CHECK_DEADLOCK FALSE
