SPECIFICATION LiveSpec
CONSTANTS
  NumMbx = 2
  Groups = {"g0"}
  GroupOf <- OneGroup
  MaxInput = 3
INVARIANTS TypeOK NoInputLost NoLostWakeup
PROPERTIES HandledOnlyEnabled ImplementsMailbox InputServed
CHECK_DEADLOCK FALSE
