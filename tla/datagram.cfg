SPECIFICATION DatagramSpec
CONSTANTS
  SomeNodes <- MCNodes
  SomeSubjects <- MCSubjects
  SomeNodeIds <- MCNodeIds
INVARIANTS ReadAsMeant MistakenOnlyByWidth
CHECK_DEADLOCK FALSE
