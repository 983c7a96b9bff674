CONSTANTS
  r1 = r1
  Readers = {r1}
  MaxPage = 1
  PageSize = 5
  HeadLen = 1
  FrameLen = 1
  Lens = {1, 2, 4}
  MaxFrames = 3
  MaxStarts = 2
  Nanos = {2}
  CrashInCreate = FALSE
SPECIFICATION FairSpec
INVARIANTS ReadsInOrder AcknowledgedReadable
PROPERTIES PublishedImmutable ImplementsLog EventuallyDelivered
CHECK_DEADLOCK FALSE
