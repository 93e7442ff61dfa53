\* Every machine with every command line, up to three workers, with an observer
\* that reads the census and a guest that calls the ISA-L layer at any time.
CONSTANTS
  Machines <- AllMachines
  Jobs <- AllJobs
  MaxWorkers = 3
  Warmups = 3
  CensusCalls = 3
  GuestBytes = 1
SPECIFICATION Spec
INVARIANTS
  CountsExact
  SampleBracketed
  DefectIsReal
  StripesOnce
  SetsFit
PROPERTIES
  Finishes
\* The tool exits.
CHECK_DEADLOCK FALSE
