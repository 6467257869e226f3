CONSTANTS
  Senders = {sched}
  Receivers = {main}
  Mesg = {m1, m2}
  NoMesg = NoMesg
  MsgCount = 3
SPECIFICATION FairSpec
INVARIANTS
  NoLostWakeup
PROPERTIES
  ImplementsChannel
  WaiterServed
