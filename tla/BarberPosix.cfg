\* Four clients and two chairs: with the barber, the chair and the queue taken,
\* the fourth client is turned away and has to try again.
SPECIFICATION FairSpec
CONSTANTS
    Client = {c1, c2, c3, c4}
    NoPid = NoPid
    Chairs = 2
    CutsNumber = 1
INVARIANTS WaitingRoomOK SleepsOnlyWhenNobodyWaits NobodyForgotten
PROPERTIES ShopSpec EverybodyServed
