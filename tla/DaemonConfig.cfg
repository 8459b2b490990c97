SPECIFICATION DaemonSpec
CONSTANTS
  Procs = {p1, p2}
  EndsAt = {"mint", "me", "client", "subscribe", "unsubscribe", "check", "read", "truncate", "write"}
  MaxCommands = 2
SYMMETRY Symmetry
CHECK_DEADLOCK FALSE
INVARIANTS DaemonTypeOK PairConsistent SoulAfterKey ForeignKept FilesAgree DoctorTellsTruth DaemonKeepsPair DaemonSpeaksForSoul
