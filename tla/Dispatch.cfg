SPECIFICATION Spec
CONSTANTS
  IntMax = 1
  LongMax = 3
  Words <- MCWords
  TypePrefix <- MCTypePrefix
  Settable <- MCSettable
  RawElements <- MCRawElements
  Conns = {k1, k2}
  Names = {"x", "y"}
  Callbacks = {f}
  NULL = NULL
  MaxRequests = 2
  MaxParams = 2
  MaxCallbacks = 2
SYMMETRY Symmetry
\* Clients stop sending.
CHECK_DEADLOCK FALSE
INVARIANT OneReplyEach
INVARIANT SuccessMeansDone
INVARIANT ReadsWhatWasSet
