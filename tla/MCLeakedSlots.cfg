SPECIFICATION Spec
CONSTANTS
    p1 = p1
    p2 = p2
    p3 = p3
    p4 = p4
    Plans = {p1, p2, p3, p4}
    Length <- MCLength
    Width = 3
    Slots = {s1, s2, s3}
    Pages = {g1, g2, g3}
    Schedules <- MCSchedules
    Sources = {"first", "second"}
    First = "first"
    NoSlot = NoSlot
    NoPlan = NoPlan
    Torn = Torn
    Faults = {"embed", "project", "copy"}
INVARIANT AdmittedFits
