CONSTANTS
  Clients = {c1, c2}
  Resas = {b1}
  Nul = Nul
  Fantome = Fantome
  MaxPaiements = 2
  LastDay = 3
  ParJour = 1
SPECIFICATION Spec
INVARIANTS TypeOK VersionsCoverOnce OneRowPerBooking FactIsWhole TierAtBooking AmountsConserved PaidOnce
SYMMETRY Symmetry
CHECK_DEADLOCK FALSE
