SPECIFICATION Spec
CONSTANTS
  V4Bits = 2
  BlockedV4 <- MCBlockedV4
  AllowLists <- MCAllowLists
  Answers <- MCAnswers
  Fails = Fails
  Ttl = 2
  Requests = {r1, r2}
INVARIANTS ConnectsToVerified CorrectedIsNotDenied QuietHostIsAskedAgain PrefixesMeanIntervals
SYMMETRY Symmetry
CHECK_DEADLOCK FALSE
