CONSTANTS
  b1 = b1
  b2 = b2
  None = None
  Busids = {b1, b2}
  Things <- SomeThings
  Commands <- CommandLines
SPECIFICATION Spec
INVARIANTS TypeOK ListsPlugged TakesWhatIsMeant KnowsWhatIsTaken
 
