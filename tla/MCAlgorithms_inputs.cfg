SPECIFICATION Spec
CONSTANTS
  some_prime = 7
  NameInputs <- MCNameInputs
  CleanInputs <- MCCleanInputs
  MaxRefusals = 1
  BufferInputs <- MCBufferInputs
  ResultInputs <- MCResultInputs
  SampleInputs <- MCSampleInputs
  OptionInputs <- MCOptionInputs
  GateInputs <- MCGateInputs
  BYTES_PER_KB = 4
  random_seg_size_bits = 1
  biggest_buf_size_bits = 4
  buf_offset_range = 4
  random_size_limit = 2
  pause_rsptime_count = 4
  pause_history_duration = 3
  MaxTicks = 2
  MaxTime = 7
  RateUnit = 2
  Second = 2
  min_rsptime_samples = 2
  min_directories_per_sec = 50
CHECK_DEADLOCK FALSE
INVARIANTS
  NamingTerminates
  DirsMade
  DirCapacity
  OnlyUsedDirsStay
  BuffersSuffice
  ReadersAgree
  PauseBounds
  DivideByZeroOnlyIfClockStands
  SilentMeansComplete
  TotalsAddUp
  EachSampleOnce
  OptionsConsistent
  HostsInTimeStart
