SPECIFICATION Spec
CONSTANTS
  ProducerLines <- SomeProducers
  ConsumerLines <- SomeConsumers
  IdRange = 3
  FrameLength = 3
  MaxPackets = 2
  MaxNoise = 1
INVARIANTS PipelineTypeOK PrintedInOrder
PROPERTY PrintedInTime
CHECK_DEADLOCK FALSE
