CONSTANTS
  demo = demo
  real = real
  poll1 = poll1
  poll2 = poll2
  Accounts = {demo, real}
  NoLogin = NoLogin
  Out = Out
  Polls = {poll1, poll2}
SPECIFICATION FairSpec
PROPERTY LogoutReachesRecords
