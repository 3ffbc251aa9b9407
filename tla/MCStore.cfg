\* Two keys, one value that is not a number, counts to 2, four instants.
SPECIFICATION Spec
CONSTANTS
  Absent = Absent
  Never = Never
  Keys = {k1, k2}
  Texts = {text}
  Ttls <- MCTtls
  MaxCount = 2
  MaxTime = 3
INVARIANT TypeOK
PROPERTIES ImplementsTtlMap WindowKept
