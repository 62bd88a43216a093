SPECIFICATION Spec
CONSTANTS
  None = None
  Refused = Refused
  NaN = NaN
  Pending = Pending
  IntMax = 9
  TextMax = 20
  FirstNativeDay = 4
  MaxRecursion = 4
  casefold <- Fold
  MaxOps <- MCMaxOps
  Tables <- MCTables
  Library <- MCLibrary
  Kept <- MCKept
  Data <- MCData
  SelectArgs <- MCSelectArgs
  Projections <- MCProjections
  Predicates <- MCPredicates
  Havings <- MCHavings
  Orderings <- MCOrderings
  Groupings <- MCGroupings
  Joins <- MCJoins
  Bounds <- MCBounds
  AliasArgs <- MCAliasArgs
  CteArgs <- MCCteArgs
  RecursiveArgs <- MCRecursiveArgs
  RecursiveStep <- MCRecursiveStep
  Waits <- MCWaits
  WriteArgs <- MCWriteArgs
  Conflicts <- MCConflicts
  Assignments <- MCAssignments
  Returnings <- MCReturnings
  NamedReturnings <- MCNamedReturnings
  FieldOrder <- MCFieldOrder
  Cases <- MCCases
INVARIANTS WhatCompilesRuns ReadsMeanWhatTheySay WritesAreExact
CHECK_DEADLOCK FALSE
