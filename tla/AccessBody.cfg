SPECIFICATION Spec
CONSTANTS
  r1 = r1
  r2 = r2
  r3 = r3
  Rules = {r1, r2}
  Position <- TwoInOrder
  Shapes <- BodyShapes
  Channels <- AllButCustom
  Bodies <- AnyBody
  Failures <- AnyFailure
CHECK_DEADLOCK FALSE
INVARIANTS SwitchedOffBodyUnread GatesHold
