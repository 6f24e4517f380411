SPECIFICATION Spec
CONSTANTS
  Profile <- SlowProfile
  Payloads = {0, 1, 20}
  Gaps = {0, 2}
  MaxFrames = 4
INVARIANTS
  TypeOK NoPastDelivery NoOvertaking WithinCapacity NotOvercharged
