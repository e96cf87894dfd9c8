CONSTANTS
  None = None
  Main = target
  Contexts = {target, host, third}
SPECIFICATION LiveSpec
INVARIANTS MutualExclusion NoLostWakeup
PROPERTIES Implements ControlRuns
