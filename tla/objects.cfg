\* Four objects of three entities, every kind of value.
SPECIFICATION Spec
CONSTANTS
    a1 = a1
    a2 = a2
    b1 = b1
    c1 = c1
    Holds <- MCHolds
    Property <- MCProperty
    KeyOrder <- MCKeyOrder
    RefOrder <- MCRefOrder
    EntityOf <- MCEntityOf
    Subentities <- MCSubentities
    Contents <- MCContents
    HashOrders <- MCHashOrders
    Printed = {"", "?"}
    Bound = 2
    MaxTime = 1
INVARIANTS
    TypeOK
    ReadBack
    FetchExact
PROPERTIES
    SameValuesSameBlob
