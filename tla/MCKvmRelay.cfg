\* Two Desktop streams, the login window and a user.
CONSTANTS
  Streams = {s1, s2}
  Uids = {u1}
  LoginUid = root
  None = None
  Attempts = 2
  Polls = 1
SPECIFICATION FairSpec
INVARIANT TypeOK
INVARIANT OneConnection
PROPERTY OwnPicture
PROPERTY InputServed
PROPERTY SetupReturns
CHECK_DEADLOCK FALSE
