\* Every operation may fail, and the machine may stop at any moment.
SPECIFICATION Spec
CONSTANTS
    Registrars = {r1, r2}
    Ids = {i1, i2}
    Suffixes = {s1, s2}
    Contents = {c1, c2}
    Partial = Partial
    Absent = Absent
    Nobody = Nobody
    IndexReadFails = FALSE
SYMMETRY StoreSymmetry
INVARIANTS NoPartialRegistered AnsweredStaysRegistered
PROPERTIES RegistrySpec
