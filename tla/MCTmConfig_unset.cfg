SPECIFICATION Spec
CONSTANTS
  NUM_L1_SCHEDS = 2
  NUM_L2_SCHEDS = 2
  L0_SCHEDULER_INPUTS = 4
  CMD_BURST_SZ = 2
  MAX_TM_QUEUE_NUM = 3
  HEAD_TAIL_SRAM_MAX = 64
  QUEUE_SIZE_MIN = 3
  MAX_CLUSTERS = 2
  UIntMod = 8
  SizeCodes = {2, 3, 5}
  Entries <- MCEntries
  SchedClusters <- MCSchedClusters
  ShaperClusters <- MCShaperClusters
  QueueClusters <- MCQueueClusters
  L0Schedulers <- MCL0Schedulers
  MaxCalls = 2
INVARIANT SchedulersConfigured
CHECK_DEADLOCK FALSE
