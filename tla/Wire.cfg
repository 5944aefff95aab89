SPECIFICATION LiveSpecWire
CONSTANTS
  MaxLen = 4
  MinLen = 2
  MaxMessages = 3
  BufSize = 8
\* The messages have been sent and received.
CHECK_DEADLOCK FALSE
INVARIANT WithinMessage
INVARIANT InOrderOnce
PROPERTY AllHandled
PROPERTY ParseReturns
