CONSTANTS
  CPUs <- MCCPUs
  num_subbuf = 2
  subbuf_size = 4
  page_size = 2
  RecordSizes = {1, 3}
  Kernels <- MCKernels
  MaxNesting = 1
  MaxOffset <- MCMaxOffset
  Limit = 10
  MaxTsc = 1000
SPECIFICATION Spec
INVARIANT ReachesOffset
CHECK_DEADLOCK FALSE
