CONSTANTS
  Ops = {o1, o2}
  u1 = u1 u2 = u2
  Watches = {w1, w2} Timeouts = {t1} Dispatchs = {d1} Foreign = {"dispatch"} Arrivals = 1
  Sessions = {u1, u2} Nobody = nobody Bounds <- MCBounds
  h0 = h0 h1 = h1 h2 = h2 ipa = ipa ipb = ipb
  x = x y = y n1 = n1 n2 = n2 a1 = a1 a2 = a2 a3 = a3
  s1 = s1 s2 = s2 v1 = v1 v2 = v2 r1 = r1 nobody = nobody
SPECIFICATION NetworkSpec
INVARIANTS OwnershipSound LoopSound ConnectionsSound DiscoverySound SaslSound
PROPERTIES KeepsPromise ThreadsEnd NetworkLive
CHECK_DEADLOCK FALSE
