SPECIFICATION Spec
CONSTANTS
  a = a  b = b
  float = float  any = any
  Operators = {a, b}
  NoOperator = NoOperator
  Names = {"p", "o"}
  DataTypes = {float, any}
  AnyType = any
  MaxUuid = 2
  Revisions <- Growing
INVARIANT ShownInputsAreFedOnce
INVARIANT ReadingIsStable
INVARIANT OperatorsMatchRevisions
PROPERTY ConnectionsSurvive
PROPERTY UpgradesBringUpToDate
SYMMETRY Alike
