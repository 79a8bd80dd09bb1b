SPECIFICATION Spec
CONSTANTS
  Clients = {c1}
  Intervals = {1}
  Modes = {"MSB"}
  Setups <- AgpsSetups
PROPERTY ServerRequestsStayRegistered
