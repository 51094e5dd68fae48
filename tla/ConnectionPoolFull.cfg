\* Three writers on 3 connections.
SPECIFICATION FairSpec
CONSTANTS
  Writers = {w1, w2, w3}
  PoolSize = 3
  MaxReads = 2
PROPERTY EveryRequestEnds
CHECK_DEADLOCK FALSE
