CONSTANTS
  CPUs <- MCCPUs
  num_subbuf = 3
  subbuf_size = 4
  page_size = 2
  RecordSizes = {1, 3}
  Kernels <- MCAllKernels
  MaxNesting = 2
  MaxOffset <- MCMaxOffset
  Limit = 18
  MaxTsc = 1000
SPECIFICATION Spec
INVARIANTS TypeOK TraceParses InOrder NothingUncommitted DumpComplete EndCovers
