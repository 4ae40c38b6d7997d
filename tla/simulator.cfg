CONSTANTS
  Simulateurs = {s1}
  Vieillisseurs = {a1}
  Resas = {b1, b2}
  MaxTours = 3
SPECIFICATION Spec
SYMMETRY Symmetry
INVARIANTS TypeOK PaidNeverCancelled JournalIsAudit CommittedIsTraced
PROPERTIES TerminalKept PastStaysClosed
CHECK_DEADLOCK FALSE
