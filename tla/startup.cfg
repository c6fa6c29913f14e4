SPECIFICATION Spec
CONSTANTS
  Environments <- MCEnvironments
  Lines <- MCLines
  MaxLines <- MCMaxLines
  IpHosts <- MCIpHosts
  Ports = {"80", "443", "4318", "0"}
  Digits = {"80", "443", "4318", "0"}
  Files = {"ca.pem"}
  BadExprs <- MCBadExprs
  BadHeaders <- MCBadHeaders
  U64Max = 2000000000
  DataOffset = 8
  SlotSize = 10
  RingHeader = 4
  LogCap = 8
  SpanCap = 8
  TableBytes = 6
  RouteCap = 2
  UpstreamCap = 2
  RouteNameMax = 2
  UpstreamNameMax = 2
  KeyTypes <- MCKeyTypes
  Failures = {{}, {"logs"}, {"variables"}}
  MaxReloads = 1
  MaxRequests = 2
INVARIANTS  AcceptedIsUsable TablesTrue SlotsInRange CountsAttributed
CHECK_DEADLOCK FALSE
