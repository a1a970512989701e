CONSTANTS
  Publishers = {p1}
  Consumers = {k1}
  MaxConns = 10
  Conns <- MCConns
  MaxFailures = 3
  NoConn = NoConn
SPECIFICATION FairBrokerSpec
INVARIANTS
  BrokerTypeOK
  RepairUnderWay
  WorkerHasOneConnection
  HandsOutLive
PROPERTIES
  WatchedConsumersRecover
CHECK_DEADLOCK FALSE
