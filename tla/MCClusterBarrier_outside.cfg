SPECIFICATION FairSpec
CONSTANTS
  CTAs <- Cluster
  Programs <- OutsidePrograms
  Width = 8
INVARIANTS Rendezvous
