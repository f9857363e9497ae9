CONSTANTS
  p1 = p1
  p2 = p2
  c1 = c1
  c2 = c2
  s1 = s1
  s2 = s2
  Uninit = Uninit
  Torn = Torn
  Producers <- MCProducers
  Consumers <- MCConsumers
  Samples <- MCSamples
  Limit = 3
  Capacity = 4
  ScanLength = 3
SPECIFICATION FairSpec
INVARIANTS TypeOK ExclusiveSlots IntactCaptures DeliveredOnce ReservationsAccounted
PROPERTIES SlotsAreSingleUse EveryReservationDelivered ImplementsChannel
