CONSTANTS
  Blocks = {b1, b2, b3}
  NoBlock = NoBlock
  Threads = {engine, task}
  Holder = engine
SPECIFICATION Spec
SYMMETRY Symmetry
INVARIANTS
  HeldIsNotLinked
PROPERTIES
  ImplementsQueue
