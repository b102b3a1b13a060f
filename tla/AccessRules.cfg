SPECIFICATION Spec
CONSTANTS
  r1 = r1
  r2 = r2
  r3 = r3
  Rules = {r1, r2, r3}
  Position <- ThreeInOrder
  Shapes <- SwitchShapes
  Channels <- CustomOrLocal
  Bodies <- NoBody
  Failures <- NoFailure
CHECK_DEADLOCK FALSE
INVARIANTS TypeOK EngineSwitch EachRuleOnce ExclusionsFirst
PROPERTIES ActsAsRuled OffIsFinal
