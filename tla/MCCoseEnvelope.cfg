SPECIFICATION Spec
CONSTANTS
  Inputs <- MCInputs
  NoEnvelope = NoEnvelope
  Decodings <- ReferenceDecodings
INVARIANTS
  AcceptsOneForm
  ReportsAFault
CHECK_DEADLOCK FALSE
