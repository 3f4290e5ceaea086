CONSTANTS
    r1 = r1  r2 = r2  w1 = w1
    Absent = Absent
    Readers <- MCReaders
    Writers <- MCWriters
    MaxVersion = 2
    MaxCreates = 1
SPECIFICATION Spec
PROPERTY UpdateKeepsUnsetFields
