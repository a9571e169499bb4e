SPECIFICATION Spec
CONSTANTS
  Procs = {u1, u2, u3}
  Drivers = {"adc", "led", "chat", "lkm", "second"}
INVARIANTS NothingLeft ReleasesHeld FilesServed
