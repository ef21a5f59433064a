SPECIFICATION RoutesSpec
CONSTANTS
  t1 = t1
  t2 = t2
  ra = ra
  rb = rb
  here = here
  elsewhere = elsewhere
  written = written
  reordered = reordered
  d1 = d1
  d2 = d2
  Width = 3
  Multicast <- Six
  Resource <- TwoResources
  Threads <- TwoThreads
  Binding = here
  Envelopes <- SomeEnvelopes
  NoPlan = NoPlan
  MaxGeneration = 3
  Home = ra
  RouteLists <- UpToThree
  NoAddress = NoAddress
INVARIANTS InstalledIsAuthorized MirrorAgrees SplitTunnel OneOwner
  HomeRoutedIsAcknowledged 
PROPERTY GenerationNames
\* At the bound on generations every call may be waiting for a change.
CHECK_DEADLOCK FALSE
