SPECIFICATION FairSpec
CONSTANTS
  Threads = {t1, t2}
  Severities <- MCSeverities
  Sinks = {s1, s2}
  Reentrant = {s2}
  DefaultSink = DefaultSink
  NoThread = NoThread
  MaxCalls = 2
CHECK_DEADLOCK FALSE
INVARIANTS
  TypeOK
  SinkInForce
PROPERTIES
  ChangesTakeEffect
  OnlyCallbacksHang
