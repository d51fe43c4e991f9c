CONSTANTS
  w1 = w1
  w2 = w2
  tiny = tiny
  big = big
  oversized = oversized
  Worker = {w1, w2}
  Job = {tiny, big, oversized}
  InLen <- MCInLen
  OutLen <- MCOutLen
  kMaxInboxLen = 2
  kMaxOutboxLen = 2
  OutSpaces = {1, 2}
SPECIFICATION Spec
INVARIANTS TypeOK ResponseMatches InboxStable OutboxFree FreeIsAnswered
