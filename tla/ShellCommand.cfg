SPECIFICATION ShellFairSpec
CONSTANT
  Configs <- MCAll
INVARIANTS
  TurnCoversShell
  SandboxOnce
PROPERTY
  EndsWhenTold
CHECK_DEADLOCK FALSE
