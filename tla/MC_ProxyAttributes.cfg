SPECIFICATION Spec
CONSTANTS
  Threads = {t1, t2}
  NoObject = NoObject
  function = function
  handler = handler
  list = list
  number = number
  Objects = {function, handler, list, number}
  Methods <- MCMethods
  Interface <- MCInterface
  Static = {"__fspath__"}
  Mutable = {handler, list}
  Sum <- MCSum
  Nameable = {function}
  Names = {n1, n2}
  NoName = NoName
SYMMETRY Symmetry
INVARIANTS
  TypeOK
  Agrees
  UsesAnswered
  InplaceKeeps
