SPECIFICATION FairSpec
CONSTANTS
  Protocols = {"tcp", "udp"}
  Programs <- MCPrograms
  MaxCount = 2
  MaxRepeats = 1
  MaxUnsent = 1
  MaxLength = 2
INVARIANTS TypeOK AnsweredOnce NoTimerLeft TransferComplete NeverAborts
PROPERTY ThreadEnds
CHECK_DEADLOCK FALSE
