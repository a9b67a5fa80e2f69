CONSTANTS
  Users = {1, 2, 3}
  Sites = {"a", "b", "server"}
  Server = "server"
  NoUser = 0
  Home <- MCHome
  MaxRequests <- MCRequests
  MaxNum = 2
  c1 = c1 c2 = c2 n1 = n1 n2 = n2 nobody = nobody
SPECIFICATION SessionSpec
INVARIANTS TimersServe ReceptionSound SessionSound
PROPERTIES ImplementsBroadcast EventuallyKnown WaitsEnd
CHECK_DEADLOCK FALSE
