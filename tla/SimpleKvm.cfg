\* Counters of two bits and two arrays: both wrap around many times.
CONSTANTS
  Word = 4
  Buffers = 2
  MemBase = 6
  Gva = {3}
SPECIFICATION Spec
INVARIANTS TypeOK CountersAgree AnswersAreRight StringsStay
CHECK_DEADLOCK FALSE
