\* Every literal of the calendar edges, cast and compared with every operand,
\* and every arithmetic operation over small vectors and floats.
CONSTANTS
  Years = {0, 1900, 2000, 2023, 2024}
  Months = {0, 1, 2, 4, 12, 13}
  Days = {0, 1, 28, 29, 30, 31, 32}
  Operands <- MCOperands
  ArithOps <- MCArithOps
  FloatOperands <- MCFloatOperands
  VectorOperands <- MCVectorOperands
SPECIFICATION Spec
INVARIANT DateCastCorrect
INVARIANT CompareAntisymmetric
INVARIANT VectorOpContract
