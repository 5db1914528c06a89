\* Two children registering, unregistering and re-registering on one stub
\* while the completion walks the list.  The children are interchangeable.
CONSTANTS
  Ids = {c1, c2}
  Free = Free
SPECIFICATION Spec
SYMMETRY MC_Symmetry
INVARIANT TypeOK UniqueIds CallbackOnlyWhileRegistered
