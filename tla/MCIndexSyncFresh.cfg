SPECIFICATION Spec
CONSTANTS
  user = user
  library = library
  uses = uses
  lib = lib
  lib2 = lib2
  lib3 = lib3
  sig = sig
  sig2 = sig2
  h1 = h1
  h2 = h2
  Files = {user, library}
  Contents = {uses, lib, lib2, lib3}
  NoFile = NoFile
  Defining = {lib, lib2, lib3}
  Definition <- Signatures
  Writes <- UserFiles
  Calling = {uses}
  Heads = {h1, h2}
  NoHead = NoHead
  Tree <- LibraryChanges
  UserWaits = TRUE
  Callers = {}
  MaxEdits = 2
  MaxFaults = 0
INVARIANT RefreshIsFresh
