\* Four clients and two chairs: the barber, the chair and the queue taken, the
\* fourth client is turned away; two cuts each, so that all come back.
SPECIFICATION Spec
CONSTANTS
    Client = {c1, c2, c3, c4}
    NoPid = NoPid
    Chairs = 2
    CutsNumber = 2
SYMMETRY Symmetry
INVARIANTS WaitingRoomOK SleepsOnlyWhenNobodyWaits NobodyForgotten
PROPERTY ShopSpec
