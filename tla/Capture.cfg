SPECIFICATION CaptureSpec
CONSTANTS
  httpd = httpd
  ota = ota
  Caller = {httpd}
  MaxStarts = 2
  MaxSeq = 3
  MaxDatagrams = 3
  MaxSignals = 3
INVARIANTS RecordingWhole SessionTrustworthy
PROPERTIES TasksEnd SessionEnds
CHECK_DEADLOCK FALSE
