\* 250 Hz LoRa on 2.4 GHz; the clocks are up to 50 ppm apart; a gap takes
\* one slot or over a second.
CONSTANTS
  Interval = 4000
  Slack = 200
  Latency = 20
  TicksPerUs = 5
  MaxDrift = 1
  Gaps = {1, 300}
  MaxGaps = 1
  LqSpan = 100
  MinLq = 4
  GoodSlots = 30
SPECIFICATION FairSpec
INVARIANT CoastsInStep
PROPERTY Locks
