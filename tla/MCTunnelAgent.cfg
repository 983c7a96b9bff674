SPECIFICATION FairSpec
CONSTANTS
  Clients = {"c1", "c2"}
  Commands <- Some
  Names = {"n"}
  Units = 2
  MaxCmds <- Counts
  MaxProcs = 2
  MaxOut = 1
  MaxEdits = 1
  MaxRestarts = 1
  Signals = FALSE
 
PROPERTIES ExitObeyed 
CHECK_DEADLOCK FALSE
