SPECIFICATION Spec
CONSTANTS
  Configs <- MCConfigs
  IpHosts <- MCIpHosts
  Answers <- MCAnswers
  Now <- MCNow
  LocalCodes = {"Unknown", "Cancelled", "Unavailable"}
  Certs = {"host", "ip", "other"}
  Loads = {"ca.pem", "crt.pem", "key.pem"}
  Ports = {"4317", "4318"}
  MaxSends = 2
  MaxAddrs = 2
  MaxStalls = 1
INVARIANTS ClosedOnce NoMissedWakeup VerifiedPeer HttpVerdictExact RequestAddressed
CHECK_DEADLOCK FALSE
