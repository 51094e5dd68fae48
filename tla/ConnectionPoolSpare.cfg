\* Three writers on 4 connections.
SPECIFICATION FairSpec
CONSTANTS
  Writers = {w1, w2, w3}
  PoolSize = 4
  MaxReads = 2
INVARIANT TypeOK
INVARIANT QueueExact
PROPERTY EveryRequestEnds
