SPECIFICATION Spec
CONSTANTS
    b1 = b1
    m1 = m1
    m2 = m2
    None = None
    Contact = contact
    Members = {m1, m2}
    Ibans = {i1}
    Bookings = {b1}
    BookedOn = {5, 6}
    Worth <- OneEach
    MonthLength = 3
    LastMonth = 2
    Since = {None, 1}
    Openings = {0}
    Amounts = {1, 2}
    Protected = {0}
INVARIANTS ListMatchesStatements StatementsJoin
SYMMETRY Alike
PROPERTY NewFeeLeavesPast
