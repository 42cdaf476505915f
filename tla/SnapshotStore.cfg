SPECIFICATION StoreSpec
CONSTANTS
  MaxSaves = 4
  MaxRots = 2
  MaxRejected = 1
INVARIANTS NoPromiseLost OneRotCostsOneGeneration
