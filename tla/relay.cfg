SPECIFICATION TranscriptSpec
CONSTANTS
  e1 = e1
  e2 = e2
  b1 = b1
  b2 = b2
  s1 = s1
  s2 = s2
  Event = {e1, e2}
  Body = {b1, b2}
  Published <- Publications
  Signature = {s1, s2}
  Signs <- Signatures
  Request = {r1, r2}
  Watcher = {w1}
  Limit = 2
INVARIANTS RetriesAgree WatcherSeesSignedPrefix
PROPERTY AppendedIsDelivered
